-------------------------- MODULE TransactionSync --------------------------
(***************************************************************************)
(* Synchronisation of QuickBooks transactions by concurrent runs           *)
(* (integrations/quickbooks/sync/service.py and repository.py).            *)
(*                                                                         *)
(* A run takes its entity types one after the other in one database        *)
(* session.  A backfill fetches pages of a query by position; an           *)
(* incremental run asks for everything changed since a window's start and  *)
(* splits the window when the answer is near the limit of the remote.      *)
(* Each answer is persisted record by record and committed, and the        *)
(* checkpoint of the entity type is moved in a transaction of its own.     *)
(* Nothing keeps two runs apart, a run may die between any two steps, and  *)
(* the remote changes all the while.                                       *)
(*                                                                         *)
(* One realm.  Times are ticks of a clock that client and remote share.    *)
(***************************************************************************)
EXTENDS OrmSession, Integers, FiniteSets, FiniteSetsExt, Sequences

CONSTANTS
    Txns,         \* remote transactions, numbered in the order of TxnDate
    Old,          \* those that exist from before the first tick
    Entities,     \* entity types
    EntityOf,     \* the entity type of each transaction
    Unreadable,   \* pairs <<transaction, version>> the normalizer rejects
    Runs,         \* runs; each is made at most once
    Requests,     \* pairs of a mode and the entity_types it is asked for
    PageSize,     \* page_size of a backfill
    Limit,        \* objects the remote returns to one CDC request
    SplitAt,      \* _CDC_MAX_OBJECTS * 0.9
    Overlap,      \* cdc_overlap_seconds
    MinWindow,    \* cdc_min_window_seconds
    MaxDepth,     \* cdc_max_split_depth
    Lookback,     \* _CDC_LOOKBACK_DAYS
    FirstWindow,  \* the window of a first incremental run
    Day,          \* ticks in a day
    MaxChanges,   \* bound: the remote makes this many changes
    Horizon,      \* bound: the last tick
    None          \* NULL

ASSUME SyncAssumption ==
    /\ Txns \subseteq Nat /\ IsFiniteSet(Txns)
    /\ Old \subseteq Txns
    /\ EntityOf \in [Txns -> Entities]
    /\ Requests \subseteq {"BACKFILL", "INCREMENTAL"}
                       \X (Seq(Entities) \ {<< >>})
    /\ PageSize \in Nat \ {0}
    /\ Limit \in Nat /\ SplitAt \in 1..Limit
    /\ {Overlap, MinWindow, MaxDepth, Lookback, FirstWindow, Horizon} \subseteq Nat
    /\ Day \in Nat \ {0} /\ MaxChanges \in Nat
    /\ None \notin Runs \cup [at : Int, version : Nat]

VARIABLES
    clock,
    remote,      \* QuickBooks: version, time of the last change, existence
    snapshot,    \* committed qb_source_snapshot rows; version 0 is no row
    txn,         \* versions of the committed qb_transaction rows, 0 for no row
    checkpoint,  \* committed qb_sync_checkpoint rows, or None
    syncRun,     \* committed qb_sync_run rows with their entity rows
    lock,        \* the run that holds the lock of each snapshot row
    pc,          \* where each run stands
    run,         \* what each run knows
    draft,       \* uncommitted rows of each run
    kept,        \* history: the newest version of each snapshot ever committed
    coveredFrom  \* history: where the times begin that a checkpoint stands for

vars == <<clock, remote, snapshot, txn, checkpoint, syncRun, lock, pc, run,
          draft, kept, coveredFrom>>

Keys   == Entities \X {"BACKFILL", "INCREMENTAL"}
Status == {"ABSENT", "RUNNING", "COMPLETED", "PARTIAL", "FAILED"}

\* The payload of a record is told apart by its sync token.
Record   == [id : Txns, version : Nat, deleted : BOOLEAN]
Snapshot == [version : Nat, deleted : BOOLEAN]
Window   == [start : Int, end : Int, depth : Nat]
Mark     == [at : Int, version : Nat]
Report   == [status : Status, entities : Seq(Status)]

Run == [mode     : {"BACKFILL", "INCREMENTAL"},
        list     : {request[2] : request \in Requests},
        n        : Nat,                   \* position in list
        cp       : Mark \cup {None},      \* the checkpoint as it was loaded
        windows  : Seq(Window),           \* CDC windows still to fetch
        until    : Int,                   \* what the checkpoint moves to
        since    : Int,                   \* history: where its promise begins
        pos      : Nat,                   \* start_position
        more     : BOOLEAN,               \* whether there is another page
        page     : SUBSET Record,         \* records still to persist
        answer   : SUBSET Record,         \* the last answer of the remote
        looked   : Snapshot \cup {None},  \* snapshot the SELECT returned
        seen     : SUBSET Record,         \* every record fetched for the entity
        result   : Status,                \* status of the run so far
        report   : Report,                \* its own rows, perhaps uncommitted
        initial  : Seq([Txns -> Nat])]    \* history: what each pass has to find

Places == {"new", "entity", "fetch", "look", "write", "commit", "mark",
           "insert", "finish", "ended"}

NoDraft == [t \in {} |-> None]

NoReport == [status |-> "ABSENT", entities |-> << >>]

NothingToFind == [t \in Txns |-> 0]

TypeOK ==
    /\ clock \in Int
    /\ remote \in [Txns -> [version : Nat, at : Int, live : BOOLEAN]]
    /\ snapshot \in [Txns -> Snapshot]
    /\ txn \in [Txns -> Nat]
    /\ checkpoint \in [Keys -> Mark \cup {None}]
    /\ syncRun \in [Runs -> Report]
    /\ lock \in [Txns -> Runs \cup {None}]
    /\ pc \in [Runs -> Places]
    /\ run \in [Runs -> Run \cup {None}]
    /\ \A r \in Runs :
          /\ DOMAIN draft[r] \subseteq Txns
          /\ draft[r] \in [DOMAIN draft[r] -> [snapshot : Snapshot, txn : Nat]]
    /\ kept \in [Txns -> Nat]
    /\ coveredFrom \in [Entities -> Int]

Init ==
    /\ clock = 0
    /\ remote = [t \in Txns |-> [version |-> IF t \in Old THEN 1 ELSE 0,
                                 at |-> -1, live |-> t \in Old]]
    /\ snapshot = [t \in Txns |-> [version |-> 0, deleted |-> FALSE]]
    /\ txn = [t \in Txns |-> 0]
    /\ checkpoint = [k \in Keys |-> None]
    /\ syncRun = [r \in Runs |-> NoReport]
    /\ lock = [t \in Txns |-> None]
    /\ pc = [r \in Runs |-> "new"]
    /\ run = [r \in Runs |-> None]
    /\ draft = [r \in Runs |-> NoDraft]
    /\ kept = [t \in Txns |-> 0]
    /\ coveredFrom = [e \in Entities |-> 0]

-----------------------------------------------------------------------------
(* The remote, and time.                                                   *)

Tick ==
    /\ clock < Horizon
    /\ clock' = clock + 1
    /\ UNCHANGED <<remote, snapshot, txn, checkpoint, syncRun, lock,
                   pc, run, draft, kept, coveredFrom>>

\* The changes so far.
Changes == MapThenSumSet(LAMBDA t : remote[t].version, Txns) - Cardinality(Old)

\* A transaction is created or edited.
Edit(t) ==
    /\ Changes < MaxChanges
    /\ remote[t].version = 0 \/ remote[t].live
    /\ remote' = [remote EXCEPT ![t] = [version |-> @.version + 1,
                                        at |-> clock, live |-> TRUE]]
    /\ UNCHANGED <<clock, snapshot, txn, checkpoint, syncRun, lock, pc,
                   run, draft, kept, coveredFrom>>

Active(r) == pc[r] \notin {"new", "ended"}

\* Whether a run is at an entity type.
IsAt(r, e) ==
    /\ Active(r) /\ pc[r] \notin {"entity", "finish"}
    /\ run[r].list[run[r].n] = e

\* A deletion shifts the pages: a backfill under way has nothing to promise.
Delete(t) ==
    /\ remote[t].live
    /\ Changes < MaxChanges
    /\ remote' = [remote EXCEPT ![t] = [version |-> @.version + 1,
                                        at |-> clock, live |-> FALSE]]
    /\ run' = [r \in Runs |->
                 IF IsAt(r, EntityOf[t])
                 THEN [run[r] EXCEPT !.initial[run[r].n] = NothingToFind]
                 ELSE run[r]]
    /\ UNCHANGED <<clock, snapshot, txn, checkpoint, syncRun, lock, pc,
                   draft, kept, coveredFrom>>

-----------------------------------------------------------------------------
(* Time and windows.                                                       *)

\* format_date keeps the day: what the remote is asked for starts at midnight.
format_date(time) == time - (time % Day)

\* The window of an incremental run that loaded checkpoint cp.
WindowFrom(cp) ==
    LET since == IF cp # None THEN cp.at - Overlap ELSE clock - FirstWindow
        limit == clock - Lookback
    IN [start |-> IF since < limit THEN limit ELSE since,
        end |-> clock, depth |-> 0]

split(w) ==
    LET mid == w.start + ((w.end - w.start) \div 2)
    IN <<[start |-> w.start, end |-> mid, depth |-> w.depth + 1],
         [start |-> mid, end |-> w.end, depth |-> w.depth + 1]>>

\* The two checks before a CDC request, the first window included.
WindowAllowed(w) ==
    /\ w.depth <= MaxDepth
    /\ w.end - w.start >= MinWindow

-----------------------------------------------------------------------------
(* A run and its entities.                                                 *)

Entity(r) == run[r].list[run[r].n]
Key(r)    == <<Entity(r), run[r].mode>>

OfEntity(e) == {t \in Txns : EntityOf[t] = e}

\* create_sync_run
Begin(r) ==
    /\ pc[r] = "new"
    /\ \E request \in Requests :
          run' = [run EXCEPT ![r] =
            [mode |-> request[1], list |-> request[2], n |-> 1, cp |-> None,
             windows |-> << >>,
             until |-> 0, since |-> 0, pos |-> 0,
             more |-> FALSE, page |-> {}, answer |-> {}, looked |-> None,
             seen |-> {}, result |-> "RUNNING",
             report |-> [NoReport EXCEPT !.status = "RUNNING"],
             initial |-> << >>]]
    /\ pc' = [pc EXCEPT ![r] = "entity"]
    /\ UNCHANGED <<clock, remote, snapshot, txn, checkpoint, syncRun, lock, draft, kept, coveredFrom>>

\* What exists when a backfill begins with an entity type.
ToFind(mode, e) ==
    [t \in Txns |-> IF mode = "BACKFILL" /\ EntityOf[t] = e /\ remote[t].live
                    THEN remote[t].version ELSE 0]

\* What a checkpoint stands for reaches back to the first window, or to the
\* lookback limit when the checkpoint loaded is older; else as far as that did.
Promise(cp, before) ==
    IF cp = None
    THEN clock - (IF FirstWindow < Lookback THEN FirstWindow ELSE Lookback)
    ELSE IF cp.at < clock - Lookback THEN clock - Lookback
    ELSE before

\* create_sync_run_entity; an incremental run loads the checkpoint and keeps it
\* in its session, a backfill fixes its end date.
EnterEntity(r) ==
    LET e  == Entity(r)
        cp == IF run[r].mode = "INCREMENTAL" THEN checkpoint[Key(r)] ELSE None
    IN
    /\ pc[r] = "entity"
    /\ run' = [run EXCEPT ![r] =
         [run[r] EXCEPT !.cp = cp,
                   !.windows = IF run[r].mode = "INCREMENTAL"
                               THEN <<WindowFrom(cp)>> ELSE << >>,
                   !.until = clock,
                   !.since = IF run[r].mode = "INCREMENTAL"
                             THEN Promise(cp, coveredFrom[e]) ELSE 0,
                   !.pos = 0, !.more = FALSE, !.seen = {},
                   !.report.entities = Append(@, "RUNNING"),
                   !.initial = Append(@, ToFind(run[r].mode, e))]]
    /\ pc' = [pc EXCEPT ![r] = "fetch"]
    /\ UNCHANGED <<clock, remote, snapshot, txn, checkpoint, syncRun, lock, draft, kept, coveredFrom>>

\* update_sync_run_entity, and the status of the run so far: one failed entity
\* makes it PARTIAL for good.
RunStatus_LastEntity(sofar, outcome) ==
    IF outcome = "FAILED" THEN "PARTIAL" ELSE "COMPLETED"

RunStatus(sofar, outcome) ==
    IF outcome = "FAILED" \/ sofar = "PARTIAL" THEN "PARTIAL" ELSE "COMPLETED"

\* What an entity leaves behind in its run decides nothing any more.
Cleared(a) ==
    [a EXCEPT !.cp = None, !.windows = << >>,
              !.until = 0, !.since = 0, !.pos = 0, !.more = FALSE, !.page = {},
              !.answer = {}, !.looked = None, !.seen = {}]

Over(a) == [Cleared(a) EXCEPT !.n = 1, !.result = "RUNNING", !.report = NoReport]

\* The run after an entity, and where it goes on.
Left(r, outcome) ==
    [Cleared(run[r]) EXCEPT !.result = RunStatus(@, outcome),
                   !.report.entities[run[r].n] = outcome,
                   !.n = IF @ < Len(run[r].list) THEN @ + 1 ELSE @]

AfterEntity(r) == IF run[r].n < Len(run[r].list) THEN "entity" ELSE "finish"

LeaveEntity(r, outcome) ==
    /\ run' = [run EXCEPT ![r] = Left(r, outcome)]
    /\ pc' = [pc EXCEPT ![r] = AfterEntity(r)]
    /\ UNCHANGED <<clock, remote, snapshot, txn, checkpoint, syncRun, lock, draft, kept, coveredFrom>>

-----------------------------------------------------------------------------
(* Fetching.                                                               *)

AsRecord(t) == [id |-> t, version |-> remote[t].version,
                deleted |-> ~remote[t].live]


\* What the remote holds of an entity type that changed at or after a time.  A
\* CDC answer names at most Limit of them, an arbitrary choice.
Changed(e, since) ==
    {t \in OfEntity(e) : remote[t].version > 0 /\ remote[t].at >= since}

Answers(e, since) ==
    LET C == Changed(e, since) IN
    IF Cardinality(C) <= Limit THEN {C}
    ELSE {S \in SUBSET C : Cardinality(S) = Limit}

\* GET .../cdc: the window's start is all that is sent.
FetchChanges(r) ==
    LET w == Head(run[r].windows) IN
    /\ pc[r] = "fetch"
    /\ run[r].mode = "INCREMENTAL"
    /\ WindowAllowed(w)
    /\ \E S \in Answers(Entity(r), format_date(w.start)) :
          LET answer == {AsRecord(t) : t \in S} IN
          /\ run' = [run EXCEPT ![r] =
                       [run[r] EXCEPT !.page = answer, !.answer = answer,
                                      !.seen = run[r].seen \cup answer]]
          /\ pc' = [pc EXCEPT ![r] = IF answer = {} THEN "commit" ELSE "look"]
    /\ UNCHANGED <<clock, remote, snapshot, txn, checkpoint, syncRun, lock, draft, kept, coveredFrom>>

\* QuickBooksCdcWindowError
RefuseWindow(r) ==
    /\ pc[r] = "fetch"
    /\ run[r].mode = "INCREMENTAL"
    /\ ~WindowAllowed(Head(run[r].windows))
    /\ LeaveEntity(r, "FAILED")

\* The query of a backfill sees the transactions that exist, by TxnDate, which
\* an edit is taken to keep; positions count from 0 as in the code.
Existing(e) == {t \in OfEntity(e) : remote[t].live}
Position(t) == Cardinality({u \in Existing(EntityOf[t]) : u < t})
PageAt(e, pos) == {t \in Existing(e) : Position(t) \in pos..(pos + PageSize - 1)}

\* A short page is the last, and so is one that reaches the total count.
HasMore_FullPageIsLast(size, pos, total) ==
    /\ size > PageSize
    /\ pos + size < total

HasMore(size, pos, total) ==
    /\ size >= PageSize
    /\ pos + size < total

FetchPage(r) ==
    LET e == Entity(r)
        S == PageAt(e, run[r].pos)
        answer == {AsRecord(t) : t \in S}
    IN
    /\ pc[r] = "fetch"
    /\ run[r].mode = "BACKFILL"
    /\ S # {}
    /\ run' = [run EXCEPT ![r] =
         [run[r] EXCEPT !.page = answer, !.answer = answer,
                   !.seen = run[r].seen \cup answer,
                   !.more = HasMore(Cardinality(S), run[r].pos,
                                    Cardinality(Existing(e)))]]
    /\ pc' = [pc EXCEPT ![r] = "look"]
    /\ UNCHANGED <<clock, remote, snapshot, txn, checkpoint, syncRun, lock, draft, kept, coveredFrom>>

\* An empty page ends the backfill of the entity.
NoMorePages(r) ==
    /\ pc[r] = "fetch"
    /\ run[r].mode = "BACKFILL"
    /\ PageAt(Entity(r), run[r].pos) = {}
    /\ LeaveEntity(r, "COMPLETED")

\* The request fails for good.
RequestFails(r) ==
    /\ pc[r] = "fetch"
    /\ run[r].mode = "INCREMENTAL" => WindowAllowed(Head(run[r].windows))
    /\ LeaveEntity(r, "FAILED")

-----------------------------------------------------------------------------
(* Persisting (_persist_batch, upsert_source_snapshot, upsert_transaction).*)

\* Records are handled one after the other.
NextOf(page) == CHOOSE rec \in page : \A o \in page : rec.id <= o.id
Current(r) == NextOf(run[r].page)

VisibleSnapshot(r, t) ==
    IF t \in DOMAIN draft[r] THEN draft[r][t].snapshot ELSE snapshot[t]
VisibleTxn(r, t) == IF t \in DOMAIN draft[r] THEN draft[r][t].txn ELSE txn[t]

\* The SELECT of the snapshot row.
Look(r) ==
    /\ pc[r] = "look"
    /\ run' = [run EXCEPT ![r].looked = VisibleSnapshot(r, Current(r).id)]
    /\ pc' = [pc EXCEPT ![r] = "write"]
    /\ UNCHANGED <<clock, remote, snapshot, txn, checkpoint, syncRun, lock, draft, kept, coveredFrom>>

\* An insert beside a row someone else has inserted since the SELECT.
Duplicate(r) ==
    /\ run[r].looked.version = 0
    /\ VisibleSnapshot(r, Current(r).id).version # 0

NewSnapshot(rec) == [version |-> rec.version, deleted |-> rec.deleted]

\* upsert_transaction: whatever differs from the stored version replaces it.
\* A deletion does not come this far, nor what cannot be normalized; and since
\* no normalizer sets source_deleted_at, source_deleted is always false.
UpsertedTxn_UpdateOnly(rec, old) ==
    IF old = 0 \/ rec.deleted \/ <<rec.id, rec.version>> \in Unreadable THEN old
    ELSE rec.version

UpsertedTxn(rec, old) ==
    IF rec.deleted \/ <<rec.id, rec.version>> \in Unreadable THEN old
    ELSE rec.version

\* A record the normalizer rejects does not keep the others from being handled.
Rest_Stop(r) ==
    IF <<Current(r).id, Current(r).version>> \in Unreadable THEN {}
    ELSE run[r].page \ {Current(r)}

Rest(r) == run[r].page \ {Current(r)}

\* The flush of the snapshot row waits for its lock; the transaction is
\* selected and written under it.
Write(r) ==
    LET rec == Current(r)
        t   == rec.id
        row == [snapshot |-> Flushed(run[r].looked, NewSnapshot(rec),
                                     VisibleSnapshot(r, t)),
                txn      |-> UpsertedTxn(rec, VisibleTxn(r, t))]
        rest == Rest(r)
    IN
    /\ pc[r] = "write"
    /\ lock[t] \in {None, r}
    /\ ~Duplicate(r)
    /\ lock' = [lock EXCEPT ![t] = r]
    /\ draft' = [draft EXCEPT ![r] = [u \in DOMAIN draft[r] \cup {t} |->
                                         IF u = t THEN row ELSE draft[r][u]]]
    /\ run' = [run EXCEPT ![r].page = rest, ![r].looked = None]
    /\ pc' = [pc EXCEPT ![r] = IF rest = {} THEN "commit" ELSE "look"]
    /\ UNCHANGED <<clock, remote, snapshot, txn, checkpoint, syncRun,
                   kept, coveredFrom>>

\* What a transaction of the run leaves when it ends without a commit.
Abandon(r) ==
    /\ pc' = [pc EXCEPT ![r] = "ended"]
    /\ draft' = [draft EXCEPT ![r] = NoDraft]
    /\ lock' = [t \in Txns |-> IF lock[t] = r THEN None ELSE lock[t]]
    /\ run' = [run EXCEPT ![r] = Over(@)]
    /\ UNCHANGED <<clock, remote, snapshot, txn, checkpoint, syncRun, kept,
                   coveredFrom>>

\* An error of the database, a unique violation or the end of a deadlock
\* among them: the session refuses everything from then on, the updates of the
\* run's own rows included, and the error leaves the service.
DatabaseError(r) ==
    /\ pc[r] = "write"
    /\ lock[Current(r).id] \in {None, r} => Duplicate(r)
    /\ Abandon(r)

Crash(r) == Active(r) /\ Abandon(r)

-----------------------------------------------------------------------------
(* Commits and checkpoints.                                                *)

Newest(t, row) == IF row.version > kept[t] THEN row.version ELSE kept[t]

\* The answer is committed; a CDC answer near the limit splits its window.
NearLimit_Never(answer) == Cardinality(answer) > Limit

NearLimit(answer) == Cardinality(answer) >= SplitAt

CommitAnswer(r) ==
    LET a == run[r]
        near == a.mode = "INCREMENTAL" /\ NearLimit(a.answer)
        windows == IF a.mode = "BACKFILL" THEN << >>
                   ELSE IF near THEN split(Head(a.windows)) \o Tail(a.windows)
                   ELSE Tail(a.windows)
    IN
    /\ pc[r] = "commit"
    /\ snapshot' = [t \in Txns |-> VisibleSnapshot(r, t)]
    /\ txn' = [t \in Txns |-> VisibleTxn(r, t)]
    /\ kept' = [t \in Txns |-> Newest(t, VisibleSnapshot(r, t))]
    /\ syncRun' = [syncRun EXCEPT ![r] = a.report]
    /\ lock' = [t \in Txns |-> IF lock[t] = r THEN None ELSE lock[t]]
    /\ draft' = [draft EXCEPT ![r] = NoDraft]
    /\ run' = [run EXCEPT ![r].windows = windows]
    /\ pc' = [pc EXCEPT ![r] = IF windows = << >> THEN "mark" ELSE "fetch"]
    /\ UNCHANGED <<clock, remote, checkpoint, coveredFrom>>

\* advance_checkpoint selects the row FOR UPDATE: the row cannot change before
\* the commit, so the two are one step.  A row that is missing cannot be locked.
MissCheckpoint(r) ==
    /\ pc[r] = "mark"
    /\ checkpoint[Key(r)] = None
    /\ pc' = [pc EXCEPT ![r] = "insert"]
    /\ UNCHANGED <<clock, remote, snapshot, txn, checkpoint, syncRun, lock,
                   run, draft, kept, coveredFrom>>

\* The SELECT of an incremental run returns the object it loaded when it began,
\* which keeps its attributes.
Judged(loaded, row) == IF loaded # None THEN loaded ELSE row

\* Only forward, as far as the run can tell.
Advanced_Anyway(judged, until, row) ==
    IF judged = None THEN [at |-> until, version |-> 1]
    ELSE Flushed(judged, [at |-> until, version |-> judged.version + 1], row)

Advanced(judged, until, row) ==
    IF judged = None THEN [at |-> until, version |-> 1]
    ELSE IF until <= judged.at THEN row
    ELSE Flushed(judged, [at |-> until, version |-> judged.version + 1], row)

\* The new checkpoint: the end of the window, fixed before the remote was asked.
Target_AtTheEnd(r) == clock
Target_Unset(r) == None

Target(r) == run[r].until

\* advance_checkpoint and its commit; then the next page, or the next entity.
AdvanceCheckpoint(r) ==
    LET a == run[r] IN
    /\ \/ pc[r] = "mark" /\ checkpoint[Key(r)] # None
       \/ pc[r] = "insert" /\ checkpoint[Key(r)] = None
    /\ checkpoint' = [checkpoint EXCEPT ![Key(r)] =
                        Advanced(Judged(a.cp, @), Target(r), @)]
    /\ coveredFrom' =
         IF a.mode = "INCREMENTAL" /\ checkpoint'[Key(r)] # checkpoint[Key(r)]
         THEN [coveredFrom EXCEPT ![Entity(r)] = a.since]
         ELSE coveredFrom
    /\ syncRun' = [syncRun EXCEPT ![r] = a.report]
    /\ IF a.mode = "BACKFILL" /\ a.more
       THEN /\ run' = [run EXCEPT ![r].pos = @ + Cardinality(a.answer)]
            /\ pc' = [pc EXCEPT ![r] = "fetch"]
       ELSE /\ run' = [run EXCEPT ![r] = Left(r, "COMPLETED")]
            /\ pc' = [pc EXCEPT ![r] = AfterEntity(r)]
    /\ UNCHANGED <<clock, remote, snapshot, txn, lock, draft, kept>>

\* Two runs insert the first checkpoint.
CheckpointConflict(r) ==
    /\ pc[r] = "insert"
    /\ checkpoint[Key(r)] # None
    /\ Abandon(r)

\* complete_sync_run and the last commit.
Finish(r) ==
    LET report == [run[r].report EXCEPT !.status = run[r].result] IN
    /\ pc[r] = "finish"
    /\ run' = [run EXCEPT ![r] = Over(@)]
    /\ syncRun' = [syncRun EXCEPT ![r] = report]
    /\ pc' = [pc EXCEPT ![r] = "ended"]
    /\ UNCHANGED <<clock, remote, snapshot, txn, checkpoint, lock,
                   draft, kept, coveredFrom>>

-----------------------------------------------------------------------------
Step(r) ==
    \/ Begin(r)
    \/ EnterEntity(r)
    \/ FetchChanges(r)
    \/ RefuseWindow(r)
    \/ FetchPage(r)
    \/ NoMorePages(r)
    \/ RequestFails(r)
    \/ Look(r)
    \/ Write(r)
    \/ DatabaseError(r)
    \/ CommitAnswer(r)
    \/ MissCheckpoint(r)
    \/ AdvanceCheckpoint(r)
    \/ CheckpointConflict(r)
    \/ Finish(r)
    \/ Crash(r)

Next ==
    \/ \E r \in Runs : Step(r)
    \/ \E t \in Txns : Edit(t) \/ Delete(t)
    \/ Tick

Spec == Init /\ [][Next]_vars

-----------------------------------------------------------------------------
(* Properties.                                                             *)

\* Nothing is skipped: every change the remote made before an incremental
\* checkpoint, back to the first window or the lookback limit, was once stored
\* as a snapshot.  Failed requests, refused and split windows, crashes, other runs
\* and a checkpoint that moves backward leave no gap.
NothingSkipped ==
    \A e \in Entities :
        LET cp == checkpoint[<<e, "INCREMENTAL">>] IN
        cp # None =>
            \A t \in Changed(e, coveredFrom[e]) :
                remote[t].at < cp.at => kept[t] >= remote[t].version

\* A backfill of an entity that is reported COMPLETED has stored every
\* transaction it had to find, unless one of them was deleted remotely while it
\* ran and shifted the pages.
BackfillIsComplete ==
    \A r \in Runs : \A k \in DOMAIN syncRun[r].entities :
        syncRun[r].entities[k] = "COMPLETED"
            => \A t \in Txns : kept[t] >= run[r].initial[k][t]

\* Every stored snapshot of a version that was no deletion and can be read has a
\* transaction, although runs select both rows before others change them and may
\* die in between.
SnapshotsAreNormalized ==
    \A t \in Txns :
        LET v == snapshot[t].version IN
        /\ v # 0 /\ (v < remote[t].version \/ remote[t].live)
        /\ <<t, v>> \notin Unreadable
        => txn[t] # 0

\* "Checkpoints advance only after successful database commit": whatever the
\* run that moves a checkpoint fetched for the entity is committed by then.
CheckpointFollowsCommit ==
    [][\A k \in Keys : checkpoint'[k] # checkpoint[k] =>
          \E r \in Runs :
             /\ pc[r] \in {"mark", "insert"} /\ Key(r) = k
             /\ \A rec \in run[r].seen : kept[rec.id] >= rec.version]_vars

\* The report of a run that ended by itself: COMPLETED when all its entities
\* are, PARTIAL when one failed.
ReportIsHonest ==
    \A r \in Runs :
        LET s == syncRun[r] IN
        s.status \in {"COMPLETED", "PARTIAL"} =>
            /\ Len(s.entities) = Len(run[r].list)
            /\ \A k \in DOMAIN s.entities : s.entities[k] \in {"COMPLETED", "FAILED"}
            /\ s.status = "PARTIAL" <=>
                  \E k \in DOMAIN s.entities : s.entities[k] = "FAILED"

\* The checkpoint of a backfill, which is judged by the locked row, never moves
\* backward, also when a backfill with an older end date ends later.
BackfillCheckpointIsMonotone ==
    [][\A e \in Entities :
          LET cp == checkpoint[<<e, "BACKFILL">>] IN
          cp # None => checkpoint'[<<e, "BACKFILL">>].at >= cp.at]_vars

\* advance_checkpoint: "Only advances forward, never moves a checkpoint
\* backward".
CheckpointIsMonotone ==
    [][\A k \in Keys :
          checkpoint[k] # None => checkpoint'[k].at >= checkpoint[k].at]_vars
=============================================================================
