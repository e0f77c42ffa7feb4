---------------------------- MODULE AccountSync ----------------------------
(***************************************************************************)
(* Synchronisation of the chart of accounts and what is asked of it        *)
(* (integrations/quickbooks/accounting/service.py, repository.py,          *)
(* normalizer.py, services.py).                                            *)
(*                                                                         *)
(* A backfill fetches pages of accounts in the order of their ids, an      *)
(* incremental run asks for changes since its last checkpoint and splits   *)
(* its window when there are many.  Each answer is one transaction: its    *)
(* rows are loaded, compared and written.  A second transaction links      *)
(* accounts to their parents, a third moves the checkpoint.  Runs may      *)
(* overlap, and the chart changes meanwhile.                               *)
(*                                                                         *)
(* One realm.  Time is the number of changes made in QuickBooks.           *)
(***************************************************************************)
EXTENDS OrmSession, Integers, FiniteSets, Sequences, SequencesExt

CONSTANTS
    Accounts,      \* ids, numbers from 1 in the order of ORDERBY Id
    FirstParent,   \* the parents of those that exist from the start
    Odd,           \* pairs of an account and a version normalize_account raises on
    CoaRuns,       \* runs; each is made at most once
    CoaPage,       \* page_size
    CoaSplitAt,    \* _CDC_MAX_OBJECTS * 0.9
    CoaDepth,      \* _CDC_MAX_SPLIT_DEPTH
    CoaDay,        \* changes to a day: format_date cuts times to days
    CoaHeight,     \* max_depth of the hierarchy queries
    CoaEdits       \* bound: changes in QuickBooks

ASSUME CoaAssumption ==
    /\ Accounts \subseteq Nat \ {0} /\ IsFiniteSet(Accounts)
    /\ DOMAIN FirstParent \subseteq Accounts
    /\ FirstParent \in [DOMAIN FirstParent -> Accounts \cup {0}]
    /\ Odd \subseteq Accounts \X Nat
    /\ {CoaPage, CoaSplitAt, CoaDay, CoaHeight} \subseteq Nat \ {0}
    /\ {CoaDepth, CoaEdits} \subseteq Nat

VARIABLES
    chart,         \* QuickBooks: the accounts
    coaNow,        \* changes made so far
    coaRow,        \* qb_account rows
    coaMark,       \* checkpoint of incremental runs, or -1
    coaRun,        \* the runs
    moved          \* history: accounts whose parent has changed

coaVars == <<chart, coaNow, coaRow, coaMark, coaRun, moved>>

NoParent == 0      \* the empty string; NULL as a link

\* at: LastUpdatedTime.  token 0 is an account that does not exist.
Remote == [token : Nat, parent : Accounts \cup {NoParent}, active : BOOLEAN,
           deleted : BOOLEAN, at : Nat]
\* link: parent_account_id.  snap: the version in qb_account_source_snapshot.
AccountRow == [token : Nat, parent : Accounts \cup {NoParent}, active : BOOLEAN,
               deleted : BOOLEAN, link : Accounts \cup {NoParent}, snap : Nat]

NoRow == [token |-> 0, parent |-> NoParent, active |-> TRUE, deleted |-> FALSE,
          link |-> NoParent, snap |-> 0]

CoaSteps == {"new", "fetch", "load", "write", "resolve", "mark", "done", "failed"}
NewCoaRun == [pc |-> "new", mode |-> "BACKFILL", pos |-> 0, more |-> FALSE,
              end |-> 0, windows |-> << >>, answer |-> {},
              loaded |-> {}, alone |-> FALSE]

CoaInit ==
    /\ chart = [a \in Accounts |->
                  IF a \in DOMAIN FirstParent
                  THEN [token |-> 1, parent |-> FirstParent[a], active |-> TRUE,
                        deleted |-> FALSE, at |-> 0]
                  ELSE [token |-> 0, parent |-> NoParent, active |-> TRUE,
                        deleted |-> FALSE, at |-> 0]]
    /\ coaNow = 0
    /\ coaRow = [a \in Accounts |-> NoRow]
    /\ coaMark = -1
    /\ coaRun = [r \in CoaRuns |-> NewCoaRun]
    /\ moved = {}

-----------------------------------------------------------------------------
(* The hierarchy: get_ancestors and get_hierarchy over a table of accounts. *)

Known(table, a) == a # NoParent /\ table[a].token > 0

\* One account further up; a cycle is left once.
Climbed(table, below) ==
    LET next == IF below = << >> THEN NoParent ELSE table[Last(below)].parent
    IN IF Known(table, next) /\ next \notin ToSet(below) THEN Append(below, next) ELSE below

\* The account and what is above it, lowest first.
Ancestors(table, account) ==
    LET Chain[n \in 1..CoaHeight] ==
            IF n = 1 THEN IF Known(table, account) THEN <<account>> ELSE << >>
            ELSE Climbed(table, Chain[n - 1])
    IN Chain[CoaHeight]

\* Mutant: accounts that were deactivated are left out, with what is below.
Children_ActiveOnly(table, level) ==
    {a \in Accounts : table[a].token > 0 /\ table[a].active /\ table[a].parent \in level}

\* Deleted accounts are left out, with what is below.
Children(table, level) ==
    {a \in Accounts : table[a].token > 0 /\ ~table[a].deleted /\ table[a].parent \in level}

\* The account and, level by level, the children.
Tree(table, account) ==
    LET Levels[n \in 0..CoaHeight] ==
            IF n = 0 THEN IF Known(table, account) THEN {account} ELSE {}
            ELSE Levels[n - 1] \cup Children(table, Levels[n - 1])
    IN Levels[CoaHeight]

-----------------------------------------------------------------------------
(* QuickBooks.                                                             *)

Live(a) == chart[a].token > 0 /\ ~chart[a].deleted

\* An account is created, moved, (de)activated or deleted.  A record of a deleted
\* account has only its id, so the defaults of the normalizer stand for the rest.
EditAccount(a, parent, active, deleted) ==
    /\ coaNow < CoaEdits /\ ~chart[a].deleted
    /\ parent # NoParent => Live(parent) /\ a \notin ToSet(Ancestors(chart, parent))
    /\ deleted => Live(a) /\ parent = NoParent /\ active
    /\ coaNow' = coaNow + 1
    /\ chart' = [chart EXCEPT ![a] = [token |-> @.token + 1, parent |-> parent,
                                      active |-> active, deleted |-> deleted,
                                      at |-> coaNow + 1]]
    /\ moved' = IF chart[a].token > 0 /\ parent # chart[a].parent
                THEN moved \cup {a} ELSE moved
    /\ coaRun' = [r \in CoaRuns |-> [coaRun[r] EXCEPT !.alone = FALSE]]
    /\ UNCHANGED <<coaRow, coaMark>>

-----------------------------------------------------------------------------
(* Runs.                                                                   *)

FormatDay(t) == (t \div CoaDay) * CoaDay
CoaActive(r) == coaRun[r].pc \notin {"new", "done", "failed"}
Ranks(r, new) == coaRun' = [coaRun EXCEPT ![r] = new]

\* A run that is over leaves its outcome.
Over(run, pc) == [NewCoaRun EXCEPT !.pc = pc, !.mode = run.mode, !.end = run.end,
                                   !.alone = run.alone]

\* Everybody who is under way learns that somebody else is, too.
StartRunOf(r, new) ==
    coaRun' = [s \in CoaRuns |->
                 IF s = r THEN [new EXCEPT !.alone = \A o \in CoaRuns : ~CoaActive(o)]
                 ELSE [coaRun[s] EXCEPT !.alone = FALSE]]

StartBackfill(r) ==
    /\ coaRun[r].pc = "new"
    /\ StartRunOf(r, [NewCoaRun EXCEPT !.pc = "fetch", !.end = coaNow])
    /\ UNCHANGED <<chart, coaNow, coaRow, coaMark, moved>>

\* The window begins at the checkpoint; without one, or with one beyond the
\* lookback, it begins later.  width: how often it can be halved before it is
\* shorter than the minimum.
StartIncremental(r, since, width) ==
    /\ coaRun[r].pc = "new"
    /\ since \in (IF coaMark = -1 THEN 0 ELSE coaMark)..coaNow
    /\ StartRunOf(r, [NewCoaRun EXCEPT !.pc = "fetch", !.mode = "INCREMENTAL", !.end = coaNow,
                        !.windows = <<[start |-> since, end |-> coaNow,
                                       depth |-> 0, width |-> width]>>])
    /\ UNCHANGED <<chart, coaNow, coaRow, coaMark, moved>>

\* The accounts last changed within the range, and how many of them come before
\* one in the order of the ids.  A deleted account is not among them.
InRange(a, end) == Live(a) /\ chart[a].at <= FormatDay(end)
Place(a, end) == Cardinality({b \in Accounts : InRange(b, end) /\ b < a})

\* A page of them: a short one is the last, and so is one that reaches the total.
FetchAccountPage(r) ==
    LET end  == coaRun[r].end
        pos  == coaRun[r].pos
        all  == {a \in Accounts : InRange(a, end)}
        page == {a \in all : Place(a, end) \in pos..(pos + CoaPage - 1)}
        size == Cardinality(page)
    IN
    /\ coaRun[r].pc = "fetch" /\ coaRun[r].mode = "BACKFILL"
    /\ Ranks(r, IF page = {} THEN Over(coaRun[r], "done")
                ELSE [coaRun[r] EXCEPT
                        !.pc     = "load",
                        !.answer = {<<a, chart[a]>> : a \in page},
                        !.more   = size = CoaPage /\ pos + size < Cardinality(all),
                        !.pos    = @ + size])
    /\ UNCHANGED <<chart, coaNow, coaRow, coaMark, moved>>

WindowRefused(window) == window.depth > CoaDepth \/ window.width = 0

\* The end of the window is not sent: the answer is everything since its start.
FetchAccountChanges(r) ==
    /\ coaRun[r].pc = "fetch" /\ coaRun[r].mode = "INCREMENTAL"
    /\ LET window  == Head(coaRun[r].windows)
           changed == {a \in Accounts : /\ chart[a].token > 0
                                        /\ chart[a].at >= FormatDay(window.start)}
       IN Ranks(r, IF WindowRefused(window) THEN Over(coaRun[r], "failed")
                   ELSE [coaRun[r] EXCEPT !.pc = "load",
                                          !.answer = {<<a, chart[a]>> : a \in changed}])
    /\ UNCHANGED <<chart, coaNow, coaRow, coaMark, moved>>

\* The SELECTs of upsert_account.
LoadRows(r) ==
    /\ coaRun[r].pc = "load"
    /\ Ranks(r, [coaRun[r] EXCEPT !.pc = "write",
                                  !.loaded = {<<x[1], coaRow[x[1]]>> : x \in coaRun[r].answer}])
    /\ UNCHANGED <<chart, coaNow, coaRow, coaMark, moved>>

\* Mutant: active keeps its last known value.
Upserted_ActiveKept(row, record) ==
    [row EXCEPT !.token = record.token, !.parent = record.parent,
                !.deleted = record.deleted, !.snap = record.token]

\* upsert_account: every column but the link, which stays as it is.
Upserted(row, record) ==
    [row EXCEPT !.token = record.token, !.parent = record.parent,
                !.active = record.active, !.deleted = record.deleted,
                !.snap = record.token]

\* A batch that inserts what another one has inserted meanwhile cannot commit:
\* its run breaks.
CanInsert(old, new, now) ==
    /\ old.snap = 0 => now.snap = 0
    /\ old.token = 0 /\ new.token > 0 => now.token = 0

Halves(window) ==
    LET mid == (window.start + window.end) \div 2
        half(s, e) == [start |-> s, end |-> e, depth |-> window.depth + 1,
                       width |-> window.width - 1]
    IN <<half(window.start, mid), half(mid, window.end)>>

\* The flush and commit of a batch.  A record that cannot be normalized is
\* logged, with its snapshot stored; the others go on.
WriteRows(r) ==
    /\ coaRun[r].pc = "write"
    /\ LET run    == coaRun[r]
           loaded == [a \in {x[1] : x \in run.loaded} |->
                        (CHOOSE x \in run.loaded : x[1] = a)[2]]
           record == [a \in DOMAIN loaded |-> (CHOOSE x \in run.answer : x[1] = a)[2]]
           rest   == IF run.mode = "BACKFILL" THEN << >>
                     ELSE IF Cardinality(run.answer) >= CoaSplitAt
                          THEN Halves(Head(run.windows)) \o Tail(run.windows)
                          ELSE Tail(run.windows)
           new(a) == IF <<a, record[a].token>> \in Odd
                     THEN [loaded[a] EXCEPT !.snap = record[a].token]
                     ELSE Upserted(loaded[a], record[a])
       IN /\ \A a \in DOMAIN loaded : CanInsert(loaded[a], new(a), coaRow[a])
          /\ coaRow' = [a \in Accounts |->
                          IF a \in DOMAIN loaded
                          THEN Flushed(loaded[a], new(a), coaRow[a]) ELSE coaRow[a]]
          /\ Ranks(r, [run EXCEPT !.pc = IF rest # << >> THEN "fetch" ELSE "resolve",
                                  !.windows = rest, !.answer = {}, !.loaded = {}])
    /\ UNCHANGED <<chart, coaNow, coaMark, moved>>

\* Mutant: only active accounts are parents.
Linked_ToActive(a) ==
    LET row == coaRow[a]
    IN IF /\ row.token > 0 /\ row.parent # NoParent /\ row.link = NoParent /\ ~row.deleted
          /\ coaRow[row.parent].token > 0 /\ coaRow[row.parent].active
       THEN [row EXCEPT !.link = row.parent] ELSE row

\* resolve_parent_references and its commit: links that are still empty.
Linked(a) ==
    LET row == coaRow[a]
    IN IF /\ row.token > 0 /\ row.parent # NoParent /\ row.link = NoParent /\ ~row.deleted
          /\ coaRow[row.parent].token > 0
       THEN [row EXCEPT !.link = row.parent] ELSE row

ResolveParents(r) ==
    /\ coaRun[r].pc = "resolve"
    /\ coaRow' = [a \in Accounts |-> Linked(a)]
    /\ Ranks(r, [coaRun[r] EXCEPT !.pc = "mark"])
    /\ UNCHANGED <<chart, coaNow, coaMark, moved>>

\* The checkpoint after each page and after all windows.  Nothing reads the one
\* of a backfill.
MarkAccounts(r) ==
    /\ coaRun[r].pc = "mark"
    /\ IF coaRun[r].mode = "BACKFILL"
       THEN UNCHANGED coaMark
       ELSE coaMark' = IF coaRun[r].end > coaMark THEN coaRun[r].end ELSE coaMark
    /\ Ranks(r, IF coaRun[r].more THEN [coaRun[r] EXCEPT !.pc = "fetch"]
                ELSE Over(coaRun[r], "done"))
    /\ UNCHANGED <<chart, coaNow, coaRow, moved>>

\* A failed request, a database error or the end of the process: what has been
\* committed stays.
RunBreaks(r) ==
    /\ CoaActive(r)
    /\ Ranks(r, Over(coaRun[r], "failed"))
    /\ UNCHANGED <<chart, coaNow, coaRow, coaMark, moved>>

CoaNext ==
    \/ \E a \in Accounts, parent \in Accounts \cup {NoParent}, active, deleted \in BOOLEAN :
          EditAccount(a, parent, active, deleted)
    \/ \E r \in CoaRuns :
          \/ StartBackfill(r)
          \/ \E since \in 0..CoaEdits, width \in 0..CoaDepth + 2 :
                StartIncremental(r, since, width)
          \/ FetchAccountPage(r)
          \/ FetchAccountChanges(r)
          \/ LoadRows(r)
          \/ WriteRows(r)
          \/ ResolveParents(r)
          \/ MarkAccounts(r)
          \/ RunBreaks(r)

CoaSpec == CoaInit /\ [][CoaNext]_coaVars

CoaTypeOK ==
    /\ chart \in [Accounts -> Remote]
    /\ coaNow \in 0..CoaEdits
    /\ coaRow \in [Accounts -> AccountRow]
    /\ coaMark \in -1..CoaEdits
    /\ \A r \in CoaRuns : coaRun[r].pc \in CoaSteps
    /\ moved \subseteq Accounts

-----------------------------------------------------------------------------
(* Properties.                                                             *)

\* A backfill that completes while nothing else writes and nothing changes
\* leaves every account of its range as QuickBooks has it, whatever older runs
\* left behind; of one that cannot be normalized it leaves the snapshot.
AccountsAreCurrent ==
    \A r \in CoaRuns, a \in Accounts :
        LET row == coaRow[a]
        IN /\ coaRun[r].pc = "done" /\ coaRun[r].mode = "BACKFILL" /\ coaRun[r].alone
           /\ InRange(a, coaRun[r].end)
           => /\ row.snap = chart[a].token
              /\ \/ <<a, chart[a].token>> \in Odd
                 \/ /\ row.token = chart[a].token /\ row.parent = chart[a].parent
                    /\ row.active = chart[a].active /\ ~row.deleted

\* When runs have completed and none has failed, an account with a parent is
\* linked, in whatever order pages and runs brought the two; an account that was
\* never moved is linked to its parent.  (One that was moved keeps its first link:
\* upsert_account does not clear it and only empty links are resolved.)
ParentsAreLinked ==
    (\A r \in CoaRuns : coaRun[r].pc \in {"new", "done"})
    => \A a \in Accounts :
          LET row == coaRow[a]
          IN /\ row.token > 0 /\ ~row.deleted /\ row.parent # NoParent
             /\ coaRow[row.parent].token > 0
             => /\ row.link # NoParent
                /\ a \notin moved => row.link = row.parent

\* Whoever is among the ancestors of an account has it in his tree, also when the
\* rows form a cycle because they were fetched at different times; deleted
\* accounts have ancestors but are in no tree, and hide what is below them.
HierarchyAgrees ==
    \A a \in {b \in Accounts : coaRow[b].token > 0} :
        LET up   == Ancestors(coaRow, a)
            Hidden(i) == \E k \in 1..i : coaRow[up[k]].deleted
        IN \A i \in DOMAIN up :
              (i = 1 \/ ~Hidden(i - 1)) => a \in Tree(coaRow, up[i])
=============================================================================
