------------------------- MODULE AccountSyncProofs -------------------------
(***************************************************************************)
(* Proofs about AccountSync and AccountQueries, for any chart, any number  *)
(* of runs, any page size and any height.  CoaInv gives the types and what *)
(* a run holds where it stands; on it rest three invariants: LinksAreOwed  *)
(* (whoever left a row without its link resolves before it ends), Lineage  *)
(* (an account that was never moved has one parent wherever a record or a  *)
(* row of it is) and Undisturbed (what a backfill that is alone has still  *)
(* to fetch).  What the hierarchy and the other questions answer is shown  *)
(* of every table of rows.                                                 *)
(***************************************************************************)
EXTENDS AccountQueries, OrderLemmas, SequenceTheorems

CoaWindow == [start : Nat, end : Nat, depth : Nat, width : Int]

RunRecord == [pc      : CoaSteps,
              mode    : {"BACKFILL", "INCREMENTAL"},
              pos     : Nat,
              more    : BOOLEAN,
              end     : 0..CoaEdits,
              windows : Seq(CoaWindow),
              answer  : SUBSET (Accounts \X Remote),
              loaded  : SUBSET (Accounts \X AccountRow),
              alone   : BOOLEAN]

Functional(S) == \A x, y \in S : x[1] = y[1] => x = y
Ids(S) == {x[1] : x \in S}

\* A run has an answer until it has written it, and rows while it writes.
RunSound(a) ==
    /\ Functional(a.answer) /\ Functional(a.loaded)
    /\ \A x \in a.answer : x[2].token > 0
    /\ a.pc \notin {"load", "write"} => a.answer = {}
    /\ a.pc # "write" => a.loaded = {}
    /\ a.pc = "write" => Ids(a.loaded) = Ids(a.answer)
    /\ a.mode = "INCREMENTAL" /\ a.pc \in {"fetch", "load", "write"} => a.windows # << >>
    /\ a.mode = "INCREMENTAL" => ~a.more

CoaInv ==
    /\ chart \in [Accounts -> Remote]
    /\ coaNow \in 0..CoaEdits
    /\ coaRow \in [Accounts -> AccountRow]
    /\ coaMark \in -1..CoaEdits
    /\ moved \subseteq Accounts
    /\ coaRun \in [CoaRuns -> RunRecord]
    /\ \A r \in CoaRuns : RunSound(coaRun[r])

-----------------------------------------------------------------------------
(* Types.                                                                  *)

LEMMA ConstantFacts ==
  /\ Accounts \subseteq Nat /\ NoParent \notin Accounts /\ IsFiniteSet(Accounts)
  /\ CoaPage \in Nat \ {0} /\ CoaSplitAt \in Nat \ {0} /\ CoaDay \in Nat \ {0}
  /\ CoaEdits \in Nat /\ CoaDepth \in Nat
  BY CoaAssumption DEF NoParent

LEMMA NewCoaRunFacts == NewCoaRun \in RunRecord /\ RunSound(NewCoaRun)
<1>1. /\ 0 \in 0..CoaEdits /\ << >> \in Seq(CoaWindow)
      /\ {} \subseteq Accounts \X Remote /\ {} \subseteq Accounts \X AccountRow
  BY ConstantFacts
<1> QED
  BY <1>1 DEF NewCoaRun, RunRecord, RunSound, CoaSteps, Functional, Ids

LEMMA OverFacts ==
  ASSUME NEW a \in RunRecord, NEW where \in {"done", "failed"}
  PROVE  /\ Over(a, where) \in RunRecord /\ RunSound(Over(a, where))
         /\ Over(a, where).pc = where /\ Over(a, where).mode = a.mode
         /\ Over(a, where).end = a.end /\ Over(a, where).alone = a.alone
         /\ Over(a, where).answer = {} /\ Over(a, where).loaded = {}
<1>1. NewCoaRun \in RunRecord /\ RunSound(NewCoaRun) /\ NewCoaRun.answer = {} /\ NewCoaRun.loaded = {}
      /\ ~NewCoaRun.more
  BY NewCoaRunFacts DEF NewCoaRun
<1>2. where \in CoaSteps
  BY DEF CoaSteps
<1> QED
  BY <1>1, <1>2 DEF Over, RunRecord, RunSound, Functional, Ids

LEMMA CoaRunStep ==
  ASSUME CoaInv, NEW r \in CoaRuns, NEW a \in RunRecord, RunSound(a), Ranks(r, a)
  PROVE  /\ coaRun' \in [CoaRuns -> RunRecord]
         /\ \A s \in CoaRuns : RunSound(coaRun'[s])
         /\ coaRun'[r] = a /\ \A s \in CoaRuns \ {r} : coaRun'[s] = coaRun[s]
  BY DEF CoaInv, Ranks

\* A step of one run that writes no rows.
LEMMA CoaQuiet ==
  ASSUME CoaInv, NEW r \in CoaRuns, NEW a \in RunRecord, RunSound(a), Ranks(r, a),
         UNCHANGED <<chart, coaNow, coaRow, coaMark, moved>>
  PROVE  CoaInv'
<1>1. coaRun' \in [CoaRuns -> RunRecord] /\ \A s \in CoaRuns : RunSound(coaRun'[s])
  BY CoaRunStep
<1> QED
  BY <1>1 DEF CoaInv

LEMMA AloneFacts ==
  ASSUME NEW b \in RunRecord, NEW x \in BOOLEAN
  PROVE  LET c == [b EXCEPT !.alone = x] IN
         /\ c \in RunRecord
         /\ RunSound(b) => RunSound(c)
         /\ c.pc = b.pc /\ c.mode = b.mode /\ c.pos = b.pos /\ c.more = b.more
         /\ c.end = b.end /\ c.windows = b.windows /\ c.answer = b.answer
         /\ c.loaded = b.loaded /\ c.alone = x
<1> DEFINE c == [b EXCEPT !.alone = x]
<1>1. /\ c \in RunRecord /\ c.pc = b.pc /\ c.mode = b.mode /\ c.pos = b.pos
      /\ c.more = b.more /\ c.end = b.end /\ c.windows = b.windows
      /\ c.answer = b.answer /\ c.loaded = b.loaded /\ c.alone = x
  BY DEF RunRecord
<1> HIDE DEF c
<1>2. RunSound(b) => RunSound(c)
  BY <1>1 DEF RunSound
<1> QED
  BY <1>1, <1>2 DEF c

LEMMA CoaStart ==
  ASSUME CoaInv, NEW r \in CoaRuns, NEW a \in RunRecord, RunSound(a),
         StartRunOf(r, a), UNCHANGED <<chart, coaNow, coaRow, coaMark, moved>>
  PROVE  CoaInv'
<1>1. ASSUME NEW b \in RunRecord, NEW x \in BOOLEAN
      PROVE  /\ [b EXCEPT !.alone = x] \in RunRecord
             /\ RunSound(b) => RunSound([b EXCEPT !.alone = x])
  BY AloneFacts
<1>2. coaRun' \in [CoaRuns -> RunRecord] /\ \A s \in CoaRuns : RunSound(coaRun'[s])
  <2>1. (\A o \in CoaRuns : ~CoaActive(o)) \in BOOLEAN
    OBVIOUS
  <2> QED
    BY <1>1, <2>1 DEF StartRunOf, CoaInv
<1> QED
  BY <1>2 DEF CoaInv

LEMMA StartBackfillFacts ==
  ASSUME CoaInv, NEW r \in CoaRuns, StartBackfill(r)
  PROVE  \E a \in RunRecord :
           /\ StartRunOf(r, a) /\ RunSound(a)
           /\ a.pc = "fetch" /\ a.mode = "BACKFILL" /\ a.pos = 0 /\ a.end = coaNow
           /\ a.answer = {} /\ a.loaded = {}
<1> DEFINE a == [NewCoaRun EXCEPT !.pc = "fetch", !.end = coaNow]
<1>1. StartRunOf(r, a)
  BY DEF StartBackfill
<1>2. NewCoaRun \in RunRecord /\ coaNow \in 0..CoaEdits
  BY NewCoaRunFacts DEF CoaInv
<1>3. a \in RunRecord /\ RunSound(a)
  BY <1>2, NewCoaRunFacts DEF RunRecord, RunSound, CoaSteps, NewCoaRun
<1>4. a.pc = "fetch" /\ a.mode = "BACKFILL" /\ a.pos = 0 /\ a.end = coaNow
      /\ a.answer = {} /\ a.loaded = {}
  BY DEF NewCoaRun
<1> QED
  BY <1>1, <1>3, <1>4

LEMMA StartIncrementalFacts ==
  ASSUME CoaInv, NEW r \in CoaRuns, NEW since \in 0..CoaEdits, NEW width \in Nat,
         StartIncremental(r, since, width)
  PROVE  \E a \in RunRecord :
           /\ StartRunOf(r, a) /\ RunSound(a)
           /\ a.pc = "fetch" /\ a.mode = "INCREMENTAL"
           /\ a.answer = {} /\ a.loaded = {}
<1> DEFINE w == [start |-> since, end |-> coaNow, depth |-> 0, width |-> width]
           a == [NewCoaRun EXCEPT !.pc = "fetch", !.mode = "INCREMENTAL", !.end = coaNow,
                                  !.windows = <<w>>]
<1>1. StartRunOf(r, a)
  BY DEF StartIncremental
<1>2. NewCoaRun \in RunRecord /\ coaNow \in 0..CoaEdits
  BY NewCoaRunFacts DEF CoaInv
<1>3. w \in CoaWindow
  BY <1>2, ConstantFacts DEF CoaWindow
<1> HIDE DEF w
<1>4. <<w>> \in Seq(CoaWindow) /\ <<w>> # << >>
  BY <1>3
<1>5. a \in RunRecord /\ RunSound(a)
  BY <1>2, <1>4, NewCoaRunFacts DEF RunRecord, RunSound, CoaSteps, NewCoaRun
<1>6. a.pc = "fetch" /\ a.mode = "INCREMENTAL" /\ a.answer = {} /\ a.loaded = {}
  BY DEF NewCoaRun
<1> QED
  BY <1>1, <1>5, <1>6

\* A page, or the end.
Page(a) ==
    LET all == {b \in Accounts : InRange(b, a.end)}
    IN {b \in all : Place(b, a.end) \in a.pos..(a.pos + CoaPage - 1)}

LEMMA FetchPageFacts ==
  ASSUME CoaInv, NEW r \in CoaRuns, FetchAccountPage(r)
  PROVE  LET a == coaRun[r]
             b == coaRun'[r] IN
         /\ Ranks(r, b) /\ b \in RunRecord /\ RunSound(b)
         /\ a.pc = "fetch" /\ a.mode = "BACKFILL" /\ b.mode = a.mode
         /\ b.end = a.end /\ b.alone = a.alone /\ b.loaded = {}
         /\ b.answer = {<<c, chart[c]>> : c \in Page(a)}
         /\ Page(a) = {} => b.pc = "done"
         /\ Page(a) # {} =>
               /\ b.pc = "load"
               /\ b.pos = a.pos + Cardinality(Page(a))
               /\ b.more = (/\ Cardinality(Page(a)) = CoaPage
                            /\ a.pos + Cardinality(Page(a))
                                 < Cardinality({c \in Accounts : InRange(c, a.end)}))
<1> DEFINE a == coaRun[r]
           page == Page(a)
           all == {c \in Accounts : InRange(c, a.end)}
           more == /\ Cardinality(page) = CoaPage
                   /\ a.pos + Cardinality(page) < Cardinality(all)
           next == [a EXCEPT !.pc = "load", !.answer = {<<c, chart[c]>> : c \in page},
                             !.more = more, !.pos = @ + Cardinality(page)]
<1>1. /\ a \in RunRecord /\ RunSound(a) /\ a.pc = "fetch" /\ a.mode = "BACKFILL"
      /\ Ranks(r, IF page = {} THEN Over(a, "done") ELSE next)
  BY DEF FetchAccountPage, Page, CoaInv
<1>2. /\ \A c \in page : c \in Accounts /\ chart[c] \in Remote /\ chart[c].token > 0
      /\ Cardinality(page) \in Nat /\ more \in BOOLEAN
  <2>1. page \in SUBSET Accounts
    BY DEF Page
  <2>2. IsFiniteSet(page)
    BY <2>1, ConstantFacts, FS_Subset
  <2>3. Cardinality(page) \in Nat
    BY <2>2, FS_CardinalityType
  <2>4. \A c \in page : chart[c].token > 0
    BY DEF Page, InRange, Live
  <2> QED
    BY <2>1, <2>3, <2>4 DEF CoaInv
<1> DEFINE answer == {<<c, chart[c]>> : c \in page}
<1>3. /\ answer \subseteq Accounts \X Remote /\ Functional(answer)
      /\ \A x \in answer : x[2].token > 0
      /\ page = {} => answer = {}
  BY <1>2 DEF Functional
<1> HIDE DEF page, more
<1>4. CASE page = {}
  <2>1. coaRun'[r] = Over(a, "done") /\ Ranks(r, Over(a, "done"))
    BY <1>1, <1>4 DEF Ranks, CoaInv
  <2> QED
    BY <1>1, <1>3, <1>4, <2>1, OverFacts DEF page
<1>5. CASE page # {}
  <2>1. coaRun'[r] = next /\ Ranks(r, next)
    BY <1>1, <1>5 DEF Ranks, CoaInv
  <2> HIDE DEF answer
  <2>2. next = [a EXCEPT !.pc = "load", !.answer = answer, !.more = more,
                         !.pos = a.pos + Cardinality(page)]
    BY DEF answer
  <2>3. a.pos + Cardinality(page) \in Nat /\ "load" \in CoaSteps
    BY <1>1, <1>2 DEF RunRecord, CoaSteps
  <2> HIDE DEF next
  <2>4. /\ next \in RunRecord /\ next.pc = "load" /\ next.answer = answer
        /\ next.more = more /\ next.pos = a.pos + Cardinality(page)
        /\ next.mode = a.mode /\ next.end = a.end /\ next.alone = a.alone
        /\ next.loaded = a.loaded /\ next.windows = a.windows
    BY <1>1, <1>2, <1>3, <2>2, <2>3 DEF RunRecord
  <2>5. RunSound(next) /\ next.loaded = {}
    BY <1>1, <1>3, <2>4 DEF RunSound
  <2> QED
    BY <1>1, <1>5, <2>1, <2>4, <2>5 DEF page, more, answer
<1> QED
  BY <1>4, <1>5

LEMMA FetchChangesFacts ==
  ASSUME CoaInv, NEW r \in CoaRuns, FetchAccountChanges(r)
  PROVE  LET a == coaRun[r]
             b == coaRun'[r] IN
         /\ Ranks(r, b) /\ b \in RunRecord /\ RunSound(b)
         /\ a.pc = "fetch" /\ a.mode = "INCREMENTAL" /\ b.mode = a.mode
         /\ b.alone = a.alone /\ b.loaded = {} /\ b.pc \in {"load", "failed"}
         /\ \A x \in b.answer : x[2] = chart[x[1]]
<1> DEFINE a == coaRun[r]
           changed == {c \in Accounts : /\ chart[c].token > 0
                                        /\ chart[c].at >= FormatDay(Head(a.windows).start)}
           answer == {<<c, chart[c]>> : c \in changed}
           next == [a EXCEPT !.pc = "load", !.answer = answer]
<1>1. /\ a \in RunRecord /\ RunSound(a) /\ a.pc = "fetch" /\ a.mode = "INCREMENTAL"
      /\ Ranks(r, IF WindowRefused(Head(a.windows)) THEN Over(a, "failed") ELSE next)
  BY DEF FetchAccountChanges, CoaInv
<1>2. /\ answer \subseteq Accounts \X Remote /\ Functional(answer)
      /\ \A x \in answer : x[2].token > 0 /\ x[2] = chart[x[1]]
  <2>1. \A c \in changed : c \in Accounts /\ chart[c] \in Remote /\ chart[c].token > 0
    BY DEF CoaInv
  <2> HIDE DEF changed
  <2> QED
    BY <2>1 DEF Functional
<1> HIDE DEF answer
<1>3. CASE WindowRefused(Head(a.windows))
  <2>1. coaRun'[r] = Over(a, "failed") /\ Ranks(r, Over(a, "failed"))
    BY <1>1, <1>3 DEF Ranks, CoaInv
  <2> QED
    BY <1>1, <2>1, OverFacts
<1>4. CASE ~WindowRefused(Head(a.windows))
  <2>1. coaRun'[r] = next /\ Ranks(r, next)
    BY <1>1, <1>4 DEF Ranks, CoaInv
  <2>2. "load" \in CoaSteps
    BY DEF CoaSteps
  <2>3. /\ next \in RunRecord /\ next.pc = "load" /\ next.answer = answer
        /\ next.mode = a.mode /\ next.alone = a.alone /\ next.more = a.more
        /\ next.loaded = a.loaded /\ next.windows = a.windows
    BY <1>1, <1>2, <2>2 DEF RunRecord
  <2> HIDE DEF next
  <2>4. RunSound(next) /\ next.loaded = {}
    BY <1>1, <1>2, <2>3 DEF RunSound
  <2> QED
    BY <1>1, <1>2, <2>1, <2>3, <2>4
<1> QED
  BY <1>3, <1>4

LEMMA LoadFacts ==
  ASSUME CoaInv, NEW r \in CoaRuns, LoadRows(r)
  PROVE  LET a == coaRun[r]
             b == coaRun'[r] IN
         /\ Ranks(r, b) /\ b \in RunRecord /\ RunSound(b)
         /\ a.pc = "load" /\ b.pc = "write" /\ b.mode = a.mode /\ b.pos = a.pos
         /\ b.more = a.more /\ b.end = a.end /\ b.alone = a.alone
         /\ b.answer = a.answer
         /\ \A x \in b.loaded : x[1] \in Accounts /\ x[2] = coaRow[x[1]]
<1> DEFINE a == coaRun[r]
           loaded == {<<x[1], coaRow[x[1]]>> : x \in a.answer}
           next == [a EXCEPT !.pc = "write", !.loaded = loaded]
<1>1. a \in RunRecord /\ RunSound(a) /\ a.pc = "load" /\ Ranks(r, next)
  BY DEF LoadRows, CoaInv
<1>2. \A x \in a.answer : x[1] \in Accounts /\ coaRow[x[1]] \in AccountRow
  BY <1>1 DEF RunRecord, CoaInv
<1>3. /\ loaded \subseteq Accounts \X AccountRow /\ Functional(loaded)
      /\ \A x \in loaded : x[1] \in Accounts /\ x[2] = coaRow[x[1]]
  <2> HIDE DEF a
  <2> QED
    BY <1>2 DEF Functional
<1>4. Ids(loaded) = Ids(a.answer)
  <2> HIDE DEF a
  <2>1. \A x \in loaded : \E y \in a.answer : x[1] = y[1]
    OBVIOUS
  <2>2. \A y \in a.answer : \E x \in loaded : x[1] = y[1]
    <3> SUFFICES ASSUME NEW y \in a.answer PROVE \E x \in loaded : x[1] = y[1]
      OBVIOUS
    <3>1. <<y[1], coaRow[y[1]]>> \in loaded
      OBVIOUS
    <3> HIDE DEF loaded
    <3> QED
      BY <3>1
  <2> HIDE DEF loaded
  <2> QED
    BY <2>1, <2>2 DEF Ids
<1> HIDE DEF loaded
<1>5. "write" \in CoaSteps
  BY DEF CoaSteps
<1>6. /\ next \in RunRecord /\ next.pc = "write" /\ next.answer = a.answer
      /\ next.mode = a.mode /\ next.alone = a.alone /\ next.pos = a.pos
      /\ next.more = a.more /\ next.end = a.end
      /\ next.loaded = loaded /\ next.windows = a.windows
  BY <1>1, <1>3, <1>5 DEF RunRecord
<1>7. coaRun'[r] = next
  BY <1>1 DEF Ranks, CoaInv
<1> HIDE DEF next
<1>8. RunSound(next)
  BY <1>1, <1>3, <1>4, <1>6 DEF RunSound
<1> QED
  BY <1>1, <1>3, <1>6, <1>7, <1>8

\* The row that a batch means to leave, from the one it loaded.
NewRow(a, row, record) ==
    IF <<a, record.token>> \in Odd THEN [row EXCEPT !.snap = record.token]
    ELSE Upserted(row, record)

LEMMA NewRowFacts ==
  ASSUME NEW a \in Accounts, NEW row \in AccountRow, NEW record \in Remote
  PROVE  LET new == NewRow(a, row, record) IN
         /\ new \in AccountRow /\ new.link = row.link /\ new.snap = record.token
         /\ <<a, record.token>> \in Odd =>
               /\ new.token = row.token /\ new.parent = row.parent
               /\ new.active = row.active /\ new.deleted = row.deleted
         /\ <<a, record.token>> \notin Odd =>
               /\ new.token = record.token /\ new.parent = record.parent
               /\ new.active = record.active /\ new.deleted = record.deleted
<1>1. CASE <<a, record.token>> \in Odd
  BY <1>1 DEF NewRow, AccountRow, Remote
<1>2. CASE <<a, record.token>> \notin Odd
  BY <1>2 DEF NewRow, Upserted, AccountRow, Remote
<1> QED
  BY <1>1, <1>2

\* A column is the new value, or one that another run has left there.
LEMMA FlushedRow ==
  ASSUME NEW old \in AccountRow, NEW new \in AccountRow, NEW now \in AccountRow
  PROVE  LET row == Flushed(old, new, now) IN
         /\ row \in AccountRow
         /\ row.token = IF new.token # old.token THEN new.token ELSE now.token
         /\ row.parent = IF new.parent # old.parent THEN new.parent ELSE now.parent
         /\ row.link = IF new.link # old.link THEN new.link ELSE now.link
         /\ row.snap = IF new.snap # old.snap THEN new.snap ELSE now.snap
         /\ old = now => row = new
<1>1. DOMAIN now = {"token", "parent", "active", "deleted", "link", "snap"}
  BY DEF AccountRow
<1> DEFINE row == Flushed(old, new, now)
<1>2. row = [col \in {"token", "parent", "active", "deleted", "link", "snap"} |->
               IF new[col] # old[col] THEN new[col] ELSE now[col]]
  BY <1>1 DEF Flushed
<1>3. /\ row.token = IF new.token # old.token THEN new.token ELSE now.token
      /\ row.parent = IF new.parent # old.parent THEN new.parent ELSE now.parent
      /\ row.link = IF new.link # old.link THEN new.link ELSE now.link
      /\ row.snap = IF new.snap # old.snap THEN new.snap ELSE now.snap
      /\ row.active \in {new.active, now.active}
      /\ row.deleted \in {new.deleted, now.deleted}
  BY <1>2
<1>4. row \in AccountRow
  <2>1. row.active \in BOOLEAN /\ row.deleted \in BOOLEAN
    BY <1>3 DEF AccountRow
  <2>2. /\ row.token \in Nat /\ row.parent \in Accounts \cup {NoParent}
        /\ row.link \in Accounts \cup {NoParent} /\ row.snap \in Nat
    BY <1>3 DEF AccountRow
  <2>3. row = [token |-> row.token, parent |-> row.parent, active |-> row.active,
               deleted |-> row.deleted, link |-> row.link, snap |-> row.snap]
    BY <1>2
  <2> HIDE DEF row
  <2> QED
    BY <2>1, <2>2, <2>3 DEF AccountRow
<1>5. old = now => row = new
  <2> SUFFICES ASSUME old = now PROVE row = new
    OBVIOUS
  <2>1. new = [col \in {"token", "parent", "active", "deleted", "link", "snap"} |-> new[col]]
    BY DEF AccountRow
  <2>2. \A col : (IF new[col] # old[col] THEN new[col] ELSE now[col]) = new[col]
    OBVIOUS
  <2> QED
    BY <1>2, <2>1, <2>2
<1> QED
  BY <1>3, <1>4, <1>5

LEMMA HalvesFacts ==
  ASSUME NEW w \in CoaWindow
  PROVE  Halves(w) \in Seq(CoaWindow) /\ Halves(w) # << >>
<1> DEFINE mid == (w.start + w.end) \div 2
           first == [start |-> w.start, end |-> mid, depth |-> w.depth + 1, width |-> w.width - 1]
           second == [start |-> mid, end |-> w.end, depth |-> w.depth + 1, width |-> w.width - 1]
<1>1. /\ w.start \in Nat /\ w.end \in Nat /\ w.depth + 1 \in Nat /\ w.width - 1 \in Int
  BY DEF CoaWindow
<1>2. mid \in Nat
  BY <1>1
<1>3. Halves(w) = <<first, second>>
  BY DEF Halves
<1> HIDE DEF mid
<1>4. first \in CoaWindow /\ second \in CoaWindow
  BY <1>1, <1>2 DEF CoaWindow
<1> HIDE DEF first, second
<1> QED
  BY <1>3, <1>4

\* What is left of the windows after a batch.
LEMMA RestFacts ==
  ASSUME NEW a \in RunRecord, RunSound(a), a.pc = "write"
  PROVE  LET rest == IF a.mode = "BACKFILL" THEN << >>
                     ELSE IF Cardinality(a.answer) >= CoaSplitAt
                          THEN Halves(Head(a.windows)) \o Tail(a.windows)
                          ELSE Tail(a.windows)
         IN rest \in Seq(CoaWindow)
<1> SUFFICES ASSUME a.mode # "BACKFILL"
             PROVE  /\ Halves(Head(a.windows)) \o Tail(a.windows) \in Seq(CoaWindow)
                    /\ Tail(a.windows) \in Seq(CoaWindow)
  <2>1. << >> \in Seq(CoaWindow)
    OBVIOUS
  <2> QED
    BY <2>1
<1>1. a.windows \in Seq(CoaWindow) /\ a.windows # << >>
  BY DEF RunRecord, RunSound
<1>2. Head(a.windows) \in CoaWindow /\ Tail(a.windows) \in Seq(CoaWindow)
  BY <1>1
<1>3. Halves(Head(a.windows)) \in Seq(CoaWindow)
  BY <1>2, HalvesFacts
<1> QED
  BY <1>2, <1>3

LEMMA WriteFacts ==
  ASSUME CoaInv, NEW r \in CoaRuns, WriteRows(r)
  PROVE  LET a == coaRun[r]
             b == coaRun'[r] IN
         /\ Ranks(r, b) /\ b \in RunRecord /\ RunSound(b)
         /\ a.pc = "write" /\ b.mode = a.mode /\ b.pos = a.pos
         /\ b.more = a.more /\ b.end = a.end /\ b.alone = a.alone
         /\ b.answer = {} /\ b.loaded = {}
         /\ b.pc = "resolve" \/ (b.pc = "fetch" /\ b.mode = "INCREMENTAL")
         /\ coaRow' \in [Accounts -> AccountRow]
         /\ \A c \in Accounts : c \notin Ids(a.answer) => coaRow'[c] = coaRow[c]
         /\ \A x \in a.loaded, y \in a.answer : x[1] = y[1] =>
               coaRow'[x[1]] = Flushed(x[2], NewRow(x[1], x[2], y[2]), coaRow[x[1]])
<1> DEFINE a == coaRun[r]
           loaded == [c \in {x[1] : x \in a.loaded} |->
                        (CHOOSE x \in a.loaded : x[1] = c)[2]]
           record == [c \in DOMAIN loaded |-> (CHOOSE x \in a.answer : x[1] = c)[2]]
           rest   == IF a.mode = "BACKFILL" THEN << >>
                     ELSE IF Cardinality(a.answer) >= CoaSplitAt
                          THEN Halves(Head(a.windows)) \o Tail(a.windows)
                          ELSE Tail(a.windows)
           new(c) == IF <<c, record[c].token>> \in Odd
                     THEN [loaded[c] EXCEPT !.snap = record[c].token]
                     ELSE Upserted(loaded[c], record[c])
           next == [a EXCEPT !.pc = IF rest # << >> THEN "fetch" ELSE "resolve",
                             !.windows = rest, !.answer = {}, !.loaded = {}]
<1>1. /\ a \in RunRecord /\ RunSound(a) /\ a.pc = "write" /\ Ranks(r, next)
      /\ coaRow' = [c \in Accounts |-> IF c \in DOMAIN loaded
                                       THEN Flushed(loaded[c], new(c), coaRow[c])
                                       ELSE coaRow[c]]
  BY DEF WriteRows, CoaInv
<1>2. rest \in Seq(CoaWindow) /\ (rest # << >> => a.mode = "INCREMENTAL")
  <2>1. a.mode \in {"BACKFILL", "INCREMENTAL"}
    BY <1>1 DEF RunRecord
  <2> QED
    BY <1>1, <2>1, RestFacts
<1> HIDE DEF rest
<1>3. /\ next \in RunRecord /\ next.windows = rest
      /\ next.pc = (IF rest # << >> THEN "fetch" ELSE "resolve")
      /\ next.answer = {} /\ next.loaded = {}
      /\ next.mode = a.mode /\ next.alone = a.alone /\ next.pos = a.pos
      /\ next.more = a.more /\ next.end = a.end
  <2>1. "fetch" \in CoaSteps /\ "resolve" \in CoaSteps
    BY DEF CoaSteps
  <2> QED
    BY <1>1, <1>2, <2>1 DEF RunRecord
<1>4. coaRun'[r] = next
  BY <1>1 DEF Ranks, CoaInv
<1> HIDE DEF next
<1>5. RunSound(next)
  BY <1>1, <1>3 DEF RunSound, Functional, Ids
<1>6. Functional(a.answer) /\ Functional(a.loaded) /\ Ids(a.loaded) = Ids(a.answer)
  BY <1>1 DEF RunSound
<1>7. ASSUME NEW x \in a.loaded
      PROVE  x[1] \in DOMAIN loaded /\ loaded[x[1]] = x[2]
  <2>1. (CHOOSE z \in a.loaded : z[1] = x[1]) = x
    BY <1>6 DEF Functional
  <2> QED
    BY <2>1
<1>8. ASSUME NEW x \in a.loaded, NEW y \in a.answer, x[1] = y[1]
      PROVE  record[x[1]] = y[2]
  <2>1. (CHOOSE z \in a.answer : z[1] = x[1]) = y
    BY <1>6, <1>8 DEF Functional
  <2>2. x[1] \in DOMAIN loaded
    BY <1>7
  <2> QED
    BY <2>1, <2>2
<1>9. DOMAIN loaded = Ids(a.answer)
  BY <1>6 DEF Ids
<1> HIDE DEF loaded, record
<1>10. ASSUME NEW x \in a.loaded, NEW y \in a.answer, x[1] = y[1]
       PROVE  coaRow'[x[1]] = Flushed(x[2], NewRow(x[1], x[2], y[2]), coaRow[x[1]])
  <2>1. x[1] \in Accounts /\ x[1] \in DOMAIN loaded /\ loaded[x[1]] = x[2] /\ record[x[1]] = y[2]
    BY <1>1, <1>7, <1>8, <1>10 DEF RunRecord
  <2>2. new(x[1]) = NewRow(x[1], x[2], y[2])
    BY <2>1 DEF NewRow
  <2> HIDE DEF new
  <2> QED
    BY <1>1, <2>1, <2>2
<1>11. coaRow' \in [Accounts -> AccountRow]
  <2> SUFFICES ASSUME NEW c \in Accounts PROVE coaRow'[c] \in AccountRow
    BY <1>1
  <2>1. coaRow[c] \in AccountRow
    BY DEF CoaInv
  <2>2. CASE c \notin DOMAIN loaded
    BY <1>1, <2>1, <2>2
  <2>3. CASE c \in DOMAIN loaded
    <3>1. PICK y \in a.answer, x \in a.loaded : y[1] = c /\ x[1] = c
      <4>1. c \in Ids(a.answer) /\ c \in Ids(a.loaded)
        BY <1>6, <1>9, <2>3
      <4> QED
        BY <4>1 DEF Ids
    <3>2. y[2] \in Remote /\ x[2] \in AccountRow
      BY <1>1 DEF RunRecord
    <3>3. coaRow'[c] = Flushed(x[2], NewRow(c, x[2], y[2]), coaRow[c])
      BY <1>10, <3>1
    <3>4. NewRow(c, x[2], y[2]) \in AccountRow
      BY <3>2, NewRowFacts
    <3> QED
      BY <2>1, <3>2, <3>3, <3>4, FlushedRow
  <2> QED
    BY <2>2, <2>3
<1>12. \A c \in Accounts : c \notin Ids(a.answer) => coaRow'[c] = coaRow[c]
  BY <1>1, <1>9
<1>13. Ranks(r, coaRun'[r])
  BY <1>1, <1>4
<1> QED
  BY <1>1, <1>2, <1>3, <1>4, <1>5, <1>10, <1>11, <1>12, <1>13

LEMMA LinkedFacts ==
  ASSUME CoaInv, NEW a \in Accounts
  PROVE  LET row == coaRow[a]
             new == Linked(a) IN
         /\ new \in AccountRow
         /\ new.token = row.token /\ new.parent = row.parent /\ new.active = row.active
         /\ new.deleted = row.deleted /\ new.snap = row.snap
         /\ new.link = row.link \/ (row.link = NoParent /\ new.link = row.parent)
         /\ row.link = NoParent /\ row.token > 0 /\ row.parent # NoParent /\ ~row.deleted
            /\ coaRow[row.parent].token > 0 => new.link = row.parent
<1>1. coaRow[a] \in AccountRow
  BY DEF CoaInv
<1> QED
  BY <1>1 DEF Linked, AccountRow

\* The other steps of a run.
LEMMA ResolveFacts ==
  ASSUME CoaInv, NEW r \in CoaRuns, ResolveParents(r)
  PROVE  LET a == coaRun[r]
             b == coaRun'[r] IN
         /\ Ranks(r, b) /\ b \in RunRecord /\ RunSound(b)
         /\ a.pc = "resolve" /\ b.pc = "mark" /\ b.mode = a.mode /\ b.pos = a.pos
         /\ b.more = a.more /\ b.end = a.end /\ b.alone = a.alone
         /\ b.answer = {} /\ b.loaded = {}
         /\ coaRow' \in [Accounts -> AccountRow]
<1> DEFINE a == coaRun[r]
           next == [a EXCEPT !.pc = "mark"]
<1>1. a \in RunRecord /\ RunSound(a) /\ a.pc = "resolve" /\ Ranks(r, next) /\ "mark" \in CoaSteps
  BY DEF ResolveParents, CoaInv, CoaSteps
<1>2. /\ next \in RunRecord /\ next.pc = "mark" /\ next.windows = a.windows
      /\ next.answer = a.answer /\ next.loaded = a.loaded
      /\ next.mode = a.mode /\ next.alone = a.alone /\ next.pos = a.pos
      /\ next.more = a.more /\ next.end = a.end
  BY <1>1 DEF RunRecord
<1>3. coaRun'[r] = next
  BY <1>1 DEF Ranks, CoaInv
<1> HIDE DEF next
<1>4. RunSound(next) /\ next.answer = {} /\ next.loaded = {}
  BY <1>1, <1>2 DEF RunSound
<1>5. coaRow' \in [Accounts -> AccountRow]
  BY LinkedFacts DEF ResolveParents
<1> QED
  BY <1>1, <1>2, <1>3, <1>4, <1>5

LEMMA MarkFacts ==
  ASSUME CoaInv, NEW r \in CoaRuns, MarkAccounts(r)
  PROVE  LET a == coaRun[r]
             b == coaRun'[r] IN
         /\ Ranks(r, b) /\ b \in RunRecord /\ RunSound(b)
         /\ a.pc = "mark" /\ b.mode = a.mode /\ b.end = a.end /\ b.alone = a.alone
         /\ b.answer = {} /\ b.loaded = {}
         /\ a.more => b.pc = "fetch" /\ b.pos = a.pos
         /\ ~a.more => b.pc = "done"
         /\ coaMark' \in -1..CoaEdits
<1> DEFINE a == coaRun[r]
           next == [a EXCEPT !.pc = "fetch"]
<1>1. /\ a \in RunRecord /\ RunSound(a) /\ a.pc = "mark"
      /\ Ranks(r, IF a.more THEN next ELSE Over(a, "done"))
  BY DEF MarkAccounts, CoaInv
<1>2. coaMark' \in -1..CoaEdits
  <2>1. a.end \in -1..CoaEdits /\ coaMark \in -1..CoaEdits
    BY <1>1 DEF RunRecord, CoaInv
  <2> QED
    BY <2>1 DEF MarkAccounts
<1>3. CASE a.more
  <2>1. coaRun'[r] = next /\ Ranks(r, next) /\ "fetch" \in CoaSteps
    BY <1>1, <1>3 DEF Ranks, CoaInv, CoaSteps
  <2>2. /\ next \in RunRecord /\ next.pc = "fetch" /\ next.windows = a.windows
        /\ next.answer = a.answer /\ next.loaded = a.loaded
        /\ next.mode = a.mode /\ next.alone = a.alone /\ next.pos = a.pos
        /\ next.more = a.more /\ next.end = a.end
    BY <1>1, <2>1 DEF RunRecord
  <2> HIDE DEF next
  <2>3. RunSound(next) /\ next.answer = {} /\ next.loaded = {}
    BY <1>1, <1>3, <2>2 DEF RunSound
  <2> QED
    BY <1>1, <1>2, <1>3, <2>1, <2>2, <2>3
<1>4. CASE ~a.more
  <2>1. coaRun'[r] = Over(a, "done") /\ Ranks(r, Over(a, "done"))
    BY <1>1, <1>4 DEF Ranks, CoaInv
  <2> QED
    BY <1>1, <1>2, <1>4, <2>1, OverFacts
<1> QED
  BY <1>3, <1>4

LEMMA BreakFacts ==
  ASSUME CoaInv, NEW r \in CoaRuns, RunBreaks(r)
  PROVE  LET a == coaRun[r]
             b == coaRun'[r] IN
         /\ Ranks(r, b) /\ b \in RunRecord /\ RunSound(b)
         /\ CoaActive(r) /\ b.pc = "failed" /\ b.mode = a.mode /\ b.alone = a.alone
         /\ b.answer = {} /\ b.loaded = {}
<1>1. coaRun[r] \in RunRecord /\ Ranks(r, Over(coaRun[r], "failed"))
  BY DEF RunBreaks, CoaInv
<1>2. coaRun'[r] = Over(coaRun[r], "failed")
  BY <1>1 DEF Ranks, CoaInv
<1> QED
  BY <1>1, <1>2, OverFacts DEF RunBreaks

LEMMA EditFacts ==
  ASSUME CoaInv, NEW a \in Accounts, NEW parent \in Accounts \cup {NoParent},
         NEW active \in BOOLEAN, NEW deleted \in BOOLEAN,
         EditAccount(a, parent, active, deleted)
  PROVE  /\ chart' \in [Accounts -> Remote] /\ coaNow' \in 0..CoaEdits
         /\ coaRun' \in [CoaRuns -> RunRecord]
         /\ \A r \in CoaRuns : LET b == coaRun[r]
                                   c == coaRun'[r] IN
               /\ RunSound(c)
               /\ c.pc = b.pc /\ c.mode = b.mode /\ c.pos = b.pos /\ c.more = b.more
               /\ c.end = b.end /\ c.answer = b.answer
               /\ c.loaded = b.loaded /\ c.alone = FALSE
         /\ chart'[a].token > 0 /\ chart'[a].parent = parent
         /\ \A b \in Accounts \ {a} : chart'[b] = chart[b]
         /\ moved' = IF chart[a].token > 0 /\ parent # chart[a].parent
                     THEN moved \cup {a} ELSE moved
<1>1. coaNow + 1 \in 0..CoaEdits /\ coaNow + 1 \in Nat /\ chart[a].token + 1 \in Nat
      /\ chart[a].token + 1 > 0
  BY ConstantFacts DEF EditAccount, CoaInv, Remote
<1>2. chart' = [chart EXCEPT ![a] = [token |-> chart[a].token + 1, parent |-> parent,
                                     active |-> active, deleted |-> deleted,
                                     at |-> coaNow + 1]]
  BY DEF EditAccount, CoaInv
<1>3. [token |-> chart[a].token + 1, parent |-> parent, active |-> active,
       deleted |-> deleted, at |-> coaNow + 1] \in Remote
  BY <1>1 DEF Remote
<1>4. chart' \in [Accounts -> Remote] /\ coaNow' \in 0..CoaEdits
  BY <1>1, <1>2, <1>3 DEF CoaInv, EditAccount
<1>5. /\ coaRun' = [r \in CoaRuns |-> [coaRun[r] EXCEPT !.alone = FALSE]]
      /\ \A r \in CoaRuns : coaRun[r] \in RunRecord /\ RunSound(coaRun[r])
  BY DEF CoaInv, EditAccount
<1>6. \A r \in CoaRuns : [coaRun[r] EXCEPT !.alone = FALSE] \in RunRecord
  BY <1>5, AloneFacts
<1>7. chart'[a].token > 0 /\ chart'[a].parent = parent
      /\ \A b \in Accounts \ {a} : chart'[b] = chart[b]
  BY <1>1, <1>2 DEF CoaInv
<1>8. ASSUME NEW r \in CoaRuns
      PROVE  LET b == coaRun[r]
                 c == coaRun'[r] IN
             /\ RunSound(c)
             /\ c.pc = b.pc /\ c.mode = b.mode /\ c.pos = b.pos /\ c.more = b.more
             /\ c.end = b.end /\ c.answer = b.answer
             /\ c.loaded = b.loaded /\ c.alone = FALSE
  <2>1. coaRun'[r] = [coaRun[r] EXCEPT !.alone = FALSE]
        /\ coaRun[r] \in RunRecord /\ RunSound(coaRun[r])
    BY <1>5
  <2> QED
    BY <2>1, AloneFacts
<1>9. coaRun' \in [CoaRuns -> RunRecord]
  BY <1>5, <1>6
<1>10. moved' = IF chart[a].token > 0 /\ parent # chart[a].parent
                THEN moved \cup {a} ELSE moved
  BY DEF EditAccount
<1> QED
  BY <1>4, <1>7, <1>8, <1>9, <1>10

\* Everybody's share of a start.
LEMMA StartFacts ==
  ASSUME CoaInv, NEW r \in CoaRuns, NEW a \in RunRecord, RunSound(a), StartRunOf(r, a)
  PROVE  /\ LET c == coaRun'[r] IN
            /\ RunSound(c) /\ c.pc = a.pc /\ c.mode = a.mode /\ c.pos = a.pos /\ c.end = a.end
            /\ c.answer = a.answer /\ c.loaded = a.loaded
            /\ c.alone = (\A o \in CoaRuns : ~CoaActive(o))
         /\ \A s \in CoaRuns \ {r} : LET b == coaRun[s]
                                         c == coaRun'[s] IN
               /\ c.pc = b.pc /\ c.mode = b.mode /\ c.pos = b.pos /\ c.more = b.more
               /\ c.end = b.end /\ c.answer = b.answer
               /\ c.loaded = b.loaded /\ c.alone = FALSE
<1>1. (\A o \in CoaRuns : ~CoaActive(o)) \in BOOLEAN
  OBVIOUS
<1>2. \A s \in CoaRuns : coaRun[s] \in RunRecord
  BY DEF CoaInv
<1>3. /\ coaRun'[r] = [a EXCEPT !.alone = \A o \in CoaRuns : ~CoaActive(o)]
      /\ \A s \in CoaRuns \ {r} : coaRun'[s] = [coaRun[s] EXCEPT !.alone = FALSE]
  BY DEF StartRunOf
<1>4. ASSUME NEW s \in CoaRuns \ {r}
      PROVE  LET b == coaRun[s]
                 c == coaRun'[s] IN
             /\ c.pc = b.pc /\ c.mode = b.mode /\ c.pos = b.pos /\ c.more = b.more
             /\ c.end = b.end /\ c.answer = b.answer
             /\ c.loaded = b.loaded /\ c.alone = FALSE
  <2>1. coaRun'[s] = [coaRun[s] EXCEPT !.alone = FALSE] /\ coaRun[s] \in RunRecord
    BY <1>2, <1>3
  <2> QED
    BY <2>1 DEF RunRecord
<1>5. LET c == coaRun'[r] IN
      /\ RunSound(c) /\ c.pc = a.pc /\ c.mode = a.mode /\ c.pos = a.pos /\ c.end = a.end
      /\ c.answer = a.answer /\ c.loaded = a.loaded
      /\ c.alone = (\A o \in CoaRuns : ~CoaActive(o))
  <2> DEFINE x == \A o \in CoaRuns : ~CoaActive(o)
  <2>1. coaRun'[r] = [a EXCEPT !.alone = x] /\ x \in BOOLEAN
    BY <1>1, <1>3
  <2> HIDE DEF x
  <2>2. LET c == coaRun'[r] IN
        /\ RunSound(c) /\ c.pc = a.pc /\ c.mode = a.mode /\ c.pos = a.pos /\ c.end = a.end
        /\ c.answer = a.answer /\ c.loaded = a.loaded /\ c.alone = x
    BY <2>1, AloneFacts
  <2> QED
    BY <2>2 DEF x
<1> QED
  BY <1>4, <1>5

LEMMA CoaInvInit == CoaInit => CoaInv
<1> SUFFICES ASSUME CoaInit PROVE CoaInv
  OBVIOUS
<1>1. ASSUME NEW a \in Accounts PROVE chart[a] \in Remote
  <2>1. a \in DOMAIN FirstParent => FirstParent[a] \in Accounts \cup {NoParent}
    BY CoaAssumption DEF NoParent
  <2> QED
    BY <2>1 DEF CoaInit, Remote, NoParent
<1>2. NoRow \in AccountRow
  BY DEF NoRow, AccountRow, NoParent
<1>3. 0 \in 0..CoaEdits /\ -1 \in -1..CoaEdits
  BY ConstantFacts
<1> QED
  BY <1>1, <1>2, <1>3, NewCoaRunFacts DEF CoaInit, CoaInv

LEMMA CoaInvNext == CoaInv /\ [CoaNext]_coaVars => CoaInv'
<1> SUFFICES ASSUME CoaInv, [CoaNext]_coaVars PROVE CoaInv'
  OBVIOUS
<1>1. CASE UNCHANGED coaVars
  BY <1>1 DEF coaVars, CoaInv
<1>2. ASSUME NEW a \in Accounts, NEW parent \in Accounts \cup {NoParent},
             NEW active \in BOOLEAN, NEW deleted \in BOOLEAN,
             EditAccount(a, parent, active, deleted)
      PROVE  CoaInv'
  <2>1. UNCHANGED <<coaRow, coaMark>> /\ moved' \subseteq Accounts
    BY <1>2, EditFacts DEF EditAccount, CoaInv
  <2> QED
    BY <1>2, <2>1, EditFacts DEF CoaInv
<1>3. ASSUME NEW r \in CoaRuns,
             \/ StartBackfill(r) \/ FetchAccountPage(r) \/ FetchAccountChanges(r)
             \/ LoadRows(r) \/ WriteRows(r) \/ ResolveParents(r) \/ MarkAccounts(r)
             \/ RunBreaks(r)
             \/ \E since \in 0..CoaEdits, width \in 0..CoaDepth + 2 :
                   StartIncremental(r, since, width)
      PROVE  CoaInv'
  <2>1. CASE StartBackfill(r)
    BY <2>1, StartBackfillFacts, CoaStart DEF StartBackfill
  <2>2. ASSUME NEW since \in 0..CoaEdits, NEW width \in 0..CoaDepth + 2,
               StartIncremental(r, since, width)
        PROVE  CoaInv'
    <3>1. width \in Nat
      BY ConstantFacts
    <3> QED
      BY <2>2, <3>1, StartIncrementalFacts, CoaStart DEF StartIncremental
  <2>3. CASE FetchAccountPage(r)
    BY <2>3, FetchPageFacts, CoaQuiet DEF FetchAccountPage
  <2>4. CASE FetchAccountChanges(r)
    BY <2>4, FetchChangesFacts, CoaQuiet DEF FetchAccountChanges
  <2>5. CASE LoadRows(r)
    BY <2>5, LoadFacts, CoaQuiet DEF LoadRows
  <2>6. CASE RunBreaks(r)
    BY <2>6, BreakFacts, CoaQuiet DEF RunBreaks
  <2>7. CASE WriteRows(r) \/ ResolveParents(r) \/ MarkAccounts(r)
    <3>1. /\ Ranks(r, coaRun'[r]) /\ coaRun'[r] \in RunRecord /\ RunSound(coaRun'[r])
          /\ coaRow' \in [Accounts -> AccountRow] /\ coaMark' \in -1..CoaEdits
          /\ UNCHANGED <<chart, coaNow, moved>>
      <4>1. CASE WriteRows(r)
        BY <4>1, WriteFacts DEF WriteRows, CoaInv
      <4>2. CASE ResolveParents(r)
        BY <4>2, ResolveFacts DEF ResolveParents, CoaInv
      <4>3. CASE MarkAccounts(r)
        BY <4>3, MarkFacts DEF MarkAccounts, CoaInv
      <4> QED
        BY <2>7, <4>1, <4>2, <4>3
    <3>2. coaRun' \in [CoaRuns -> RunRecord] /\ \A s \in CoaRuns : RunSound(coaRun'[s])
      BY <3>1, CoaRunStep
    <3> QED
      BY <3>1, <3>2 DEF CoaInv
  <2> QED
    BY <1>3, <2>1, <2>2, <2>3, <2>4, <2>5, <2>6, <2>7
<1> QED
  BY <1>1, <1>2, <1>3 DEF CoaNext

THEOREM CoaTypeCorrect == CoaSpec => []CoaTypeOK
<1>1. CoaInv => CoaTypeOK
  BY DEF CoaInv, CoaTypeOK, RunRecord
<1> QED
  BY <1>1, CoaInvInit, CoaInvNext, PTL DEF CoaSpec

-----------------------------------------------------------------------------
(* Links that are owed.                                                    *)

\* A run that will resolve before it can be done.
Owes(a) ==
    \/ a.pc \in {"failed", "resolve"}
    \/ a.mode = "INCREMENTAL" /\ a.pc \in {"fetch", "load", "write"}

Unlinked(a) ==
    LET row == coaRow[a] IN
    /\ row.token > 0 /\ ~row.deleted /\ row.parent # NoParent
    /\ coaRow[row.parent].token > 0 /\ row.link = NoParent

LinksAreOwed ==
    \/ \E r \in CoaRuns : Owes(coaRun[r])
    \/ \A a \in Accounts : ~Unlinked(a)

LEMMA OwedStays ==
  ASSUME CoaInv, LinksAreOwed, coaRow' = coaRow,
         \A r \in CoaRuns : Owes(coaRun[r]) => Owes(coaRun'[r])
  PROVE  LinksAreOwed'
<1>1. CASE \E r \in CoaRuns : Owes(coaRun[r])
  BY <1>1 DEF LinksAreOwed, Owes
<1>2. CASE \A a \in Accounts : ~Unlinked(a)
  BY <1>2 DEF LinksAreOwed, Unlinked
<1> QED
  BY <1>1, <1>2 DEF LinksAreOwed

LEMMA OwedRunStep ==
  ASSUME CoaInv, LinksAreOwed, coaRow' = coaRow, NEW r \in CoaRuns,
         NEW a, Ranks(r, a), Owes(coaRun[r]) => Owes(a)
  PROVE  LinksAreOwed'
<1>1. coaRun'[r] = a /\ \A s \in CoaRuns \ {r} : coaRun'[s] = coaRun[s]
  BY DEF Ranks, CoaInv
<1>2. \A s \in CoaRuns : Owes(coaRun[s]) => Owes(coaRun'[s])
  BY <1>1
<1> QED
  BY <1>2, OwedStays

LEMMA LinksNext ==
  ASSUME CoaInv, LinksAreOwed, [CoaNext]_coaVars
  PROVE  LinksAreOwed'
<1>1. CASE UNCHANGED coaVars
  BY <1>1, OwedStays DEF coaVars
<1>2. ASSUME NEW a \in Accounts, NEW parent \in Accounts \cup {NoParent},
             NEW active \in BOOLEAN, NEW deleted \in BOOLEAN,
             EditAccount(a, parent, active, deleted)
      PROVE  LinksAreOwed'
  <2>1. \A r \in CoaRuns : Owes(coaRun[r]) => Owes(coaRun'[r])
    BY <1>2, EditFacts DEF Owes
  <2> QED
    BY <1>2, <2>1, OwedStays DEF EditAccount
<1>3. ASSUME NEW r \in CoaRuns, coaRun[r].pc = "new", NEW a \in RunRecord, RunSound(a),
             StartRunOf(r, a), coaRow' = coaRow
      PROVE  LinksAreOwed'
  <2>1. \A s \in CoaRuns : Owes(coaRun[s]) => Owes(coaRun'[s])
    BY <1>3, StartFacts DEF Owes
  <2> QED
    BY <1>3, <2>1, OwedStays
<1>4. ASSUME NEW r \in CoaRuns, StartBackfill(r) PROVE LinksAreOwed'
  BY <1>3, <1>4, StartBackfillFacts DEF StartBackfill
<1>5. ASSUME NEW r \in CoaRuns, NEW since \in 0..CoaEdits, NEW width \in 0..CoaDepth + 2,
             StartIncremental(r, since, width)
      PROVE  LinksAreOwed'
  <2>1. width \in Nat
    BY ConstantFacts
  <2> QED
    BY <1>3, <1>5, <2>1, StartIncrementalFacts DEF StartIncremental
<1>6. ASSUME NEW r \in CoaRuns,
             \/ FetchAccountPage(r) \/ FetchAccountChanges(r) \/ LoadRows(r)
             \/ MarkAccounts(r) \/ RunBreaks(r)
      PROVE  LinksAreOwed'
  <2>1. /\ coaRow' = coaRow /\ Ranks(r, coaRun'[r])
        /\ Owes(coaRun[r]) => Owes(coaRun'[r])
    <3>1. CASE FetchAccountPage(r)
      BY <3>1, FetchPageFacts DEF FetchAccountPage, Owes
    <3>2. CASE FetchAccountChanges(r)
      BY <3>2, FetchChangesFacts DEF FetchAccountChanges, Owes
    <3>3. CASE LoadRows(r)
      BY <3>3, LoadFacts DEF LoadRows, Owes
    <3>4. CASE MarkAccounts(r)
      BY <3>4, MarkFacts DEF MarkAccounts, Owes
    <3>5. CASE RunBreaks(r)
      BY <3>5, BreakFacts DEF RunBreaks, Owes
    <3> QED
      BY <1>6, <3>1, <3>2, <3>3, <3>4, <3>5
  <2> QED
    BY <2>1, OwedRunStep
<1>7. ASSUME NEW r \in CoaRuns, WriteRows(r) PROVE LinksAreOwed'
  BY <1>7, WriteFacts DEF LinksAreOwed, Owes
<1>8. ASSUME NEW r \in CoaRuns, ResolveParents(r) PROVE LinksAreOwed'
  <2> SUFFICES ASSUME NEW a \in Accounts, Unlinked(a)' PROVE FALSE
    BY DEF LinksAreOwed
  <2>1. \A b \in Accounts : coaRow'[b] = Linked(b)
    BY <1>8 DEF ResolveParents
  <2>2. coaRow[a] \in AccountRow /\ coaRow'[a] = Linked(a)
    BY <2>1 DEF CoaInv
  <2>3. /\ coaRow[a].token > 0 /\ ~coaRow[a].deleted /\ coaRow[a].parent # NoParent
        /\ coaRow'[coaRow[a].parent].token > 0 /\ coaRow'[a].link = NoParent
    BY <2>2, LinkedFacts DEF Unlinked
  <2>4. coaRow[a].parent \in Accounts
    BY <2>2, <2>3 DEF AccountRow
  <2>5. coaRow[coaRow[a].parent].token > 0
    BY <2>1, <2>3, <2>4, LinkedFacts
  <2> QED
    BY <2>2, <2>3, <2>5, LinkedFacts
<1> QED
  BY <1>1, <1>2, <1>4, <1>5, <1>6, <1>7, <1>8 DEF CoaNext

-----------------------------------------------------------------------------
(* Accounts that were never moved.                                         *)

RowInherits(a, row) ==
    /\ row.token = 0 => row.parent = NoParent
    /\ row.token > 0 => /\ chart[a].token > 0
                        /\ a \notin moved => row.parent = chart[a].parent

RecordInherits(a, record) ==
    /\ chart[a].token > 0
    /\ a \notin moved => record.parent = chart[a].parent

Lineage ==
    /\ \A a \in Accounts :
          LET row == coaRow[a] IN
          /\ RowInherits(a, row)
          /\ row.token = 0 => row.link = NoParent
          /\ a \notin moved => row.link \in {NoParent, row.parent}
    /\ \A r \in CoaRuns :
          /\ \A x \in coaRun[r].answer : RecordInherits(x[1], x[2])
          /\ \A x \in coaRun[r].loaded :
                /\ RowInherits(x[1], x[2])
                /\ x[2].token > 0 => coaRow[x[1]].token > 0

\* QuickBooks: whoever is not moved keeps its parent, and nobody had seen one that
\* is new.
LEMMA LineageEdit ==
  ASSUME CoaInv, Lineage, NEW a \in Accounts, NEW parent \in Accounts \cup {NoParent},
         NEW active \in BOOLEAN, NEW deleted \in BOOLEAN,
         EditAccount(a, parent, active, deleted)
  PROVE  Lineage'
<1>1. coaRow' = coaRow
  BY DEF EditAccount
<1>2. \A b \in Accounts : /\ chart[b].token > 0 => chart'[b].token > 0
                          /\ b \notin moved' => b \notin moved
                          /\ b \notin moved' /\ chart[b].token > 0
                                => chart'[b].parent = chart[b].parent
  BY EditFacts
<1>3. \A b \in Accounts : \A row : RowInherits(b, row) => RowInherits(b, row)'
  BY <1>2 DEF RowInherits
<1>4. \A b \in Accounts : \A record : RecordInherits(b, record) => RecordInherits(b, record)'
  BY <1>2 DEF RecordInherits
<1>5. ASSUME NEW b \in Accounts
      PROVE  LET row == coaRow[b] IN
             /\ RowInherits(b, row)'
             /\ row.token = 0 => row.link = NoParent
             /\ b \notin moved' => row.link \in {NoParent, row.parent}
  <2>1. RowInherits(b, coaRow[b])
    BY DEF Lineage
  <2>2. PICK row : row = coaRow[b]
    OBVIOUS
  <2>3. RowInherits(b, row)'
    BY <1>3, <2>1, <2>2
  <2> QED
    BY <1>1, <1>2, <2>2, <2>3 DEF Lineage, RowInherits
<1>6. ASSUME NEW r \in CoaRuns
      PROVE  /\ \A x \in coaRun'[r].answer : RecordInherits(x[1], x[2])'
             /\ \A x \in coaRun'[r].loaded :
                   /\ RowInherits(x[1], x[2])'
                   /\ x[2].token > 0 => coaRow'[x[1]].token > 0
  <2>1. /\ coaRun'[r].answer = coaRun[r].answer /\ coaRun'[r].loaded = coaRun[r].loaded
        /\ \A x \in coaRun[r].answer : x[1] \in Accounts
        /\ \A x \in coaRun[r].loaded : x[1] \in Accounts
    <3>1. coaRun[r] \in RunRecord
      BY DEF CoaInv
    <3>2. coaRun'[r].answer = coaRun[r].answer /\ coaRun'[r].loaded = coaRun[r].loaded
      BY EditFacts
    <3> QED
      BY <3>1, <3>2 DEF RunRecord
  <2> QED
    BY <1>1, <1>3, <1>4, <2>1 DEF Lineage
<1> QED
  BY <1>1, <1>5, <1>6 DEF Lineage, RowInherits

\* A step of a run, which may write.
LEMMA LineageStep ==
  ASSUME CoaInv, Lineage, UNCHANGED <<chart, moved>>,
         \A a \in Accounts :
            /\ RowInherits(a, coaRow'[a])
            /\ coaRow[a].token > 0 => coaRow'[a].token > 0
            /\ coaRow'[a].token = 0 => coaRow'[a].link = NoParent
            /\ a \notin moved => coaRow'[a].link \in {NoParent, coaRow'[a].parent},
         \A r \in CoaRuns :
            /\ \A x \in coaRun'[r].answer : RecordInherits(x[1], x[2])
            /\ \A x \in coaRun'[r].loaded :
                  /\ RowInherits(x[1], x[2])
                  /\ x[2].token > 0 => coaRow'[x[1]].token > 0
  PROVE  Lineage'
  BY DEF Lineage, RowInherits, RecordInherits

LEMMA LineageQuiet ==
  ASSUME CoaInv, Lineage, UNCHANGED <<chart, moved, coaRow>>,
         \A r \in CoaRuns :
            /\ \A x \in coaRun'[r].answer :
                  \/ x \in coaRun[r].answer
                  \/ x[1] \in Accounts /\ x[2] = chart[x[1]] /\ x[2].token > 0
            /\ \A x \in coaRun'[r].loaded :
                  \/ x \in coaRun[r].loaded
                  \/ x[1] \in Accounts /\ x[2] = coaRow[x[1]]
  PROVE  Lineage'
<1>1. \A a \in Accounts : RowInherits(a, coaRow[a])
  BY DEF Lineage
<1>2. \A a \in Accounts : chart[a].token > 0 => RecordInherits(a, chart[a])
  BY DEF RecordInherits
<1>3. ASSUME NEW r \in CoaRuns
      PROVE  /\ \A x \in coaRun'[r].answer : RecordInherits(x[1], x[2])
             /\ \A x \in coaRun'[r].loaded :
                   /\ RowInherits(x[1], x[2])
                   /\ x[2].token > 0 => coaRow[x[1]].token > 0
  BY <1>1, <1>2 DEF Lineage
<1>4. \A a \in Accounts :
         /\ coaRow[a].token = 0 => coaRow[a].link = NoParent
         /\ a \notin moved => coaRow[a].link \in {NoParent, coaRow[a].parent}
  BY DEF Lineage
<1> HIDE DEF Lineage
<1> QED
  BY <1>1, <1>3, <1>4, LineageStep

\* A batch writes what it was told, or leaves what another one was told.
LEMMA LineageWrite ==
  ASSUME CoaInv, Lineage, NEW r \in CoaRuns, WriteRows(r)
  PROVE  Lineage'
<1> DEFINE run == coaRun[r]
<1>1. UNCHANGED <<chart, moved>> /\ run \in RunRecord /\ RunSound(run) /\ run.pc = "write"
  BY DEF WriteRows, CoaInv
<1>2. ASSUME NEW a \in Accounts
      PROVE  /\ RowInherits(a, coaRow'[a])
             /\ coaRow[a].token > 0 => coaRow'[a].token > 0
             /\ coaRow'[a].token = 0 => coaRow'[a].link = NoParent
             /\ a \notin moved => coaRow'[a].link \in {NoParent, coaRow'[a].parent}
  <2>1. /\ RowInherits(a, coaRow[a])
        /\ coaRow[a].token = 0 => coaRow[a].link = NoParent
        /\ a \notin moved => coaRow[a].link \in {NoParent, coaRow[a].parent}
        /\ coaRow[a] \in AccountRow /\ chart[a] \in Remote
    BY DEF Lineage, CoaInv
  <2>2. CASE a \notin Ids(run.answer)
    <3>1. coaRow'[a] = coaRow[a]
      BY <2>2, WriteFacts
    <3> QED
      BY <2>1, <3>1
  <2>3. CASE a \in Ids(run.answer)
    <3>1. PICK y \in run.answer, x \in run.loaded : y[1] = a /\ x[1] = a
      <4>1. a \in Ids(run.answer) /\ a \in Ids(run.loaded)
        BY <1>1, <2>3 DEF RunSound
      <4> QED
        BY <4>1 DEF Ids
    <3>2. /\ y[2] \in Remote /\ x[2] \in AccountRow /\ y[2].token > 0
          /\ RecordInherits(a, y[2]) /\ RowInherits(a, x[2])
          /\ x[2].token > 0 => coaRow[a].token > 0
      BY <1>1, <3>1 DEF RunRecord, RunSound, Lineage
    <3> DEFINE new == NewRow(a, x[2], y[2])
               row == Flushed(x[2], new, coaRow[a])
    <3>3. coaRow'[a] = row
      BY <3>1, WriteFacts
    <3>4. new \in AccountRow
      BY <3>2, NewRowFacts
    <3>5. /\ row.token = IF new.token # x[2].token THEN new.token ELSE coaRow[a].token
          /\ row.parent = IF new.parent # x[2].parent THEN new.parent ELSE coaRow[a].parent
          /\ row.link = IF new.link # x[2].link THEN new.link ELSE coaRow[a].link
      BY <2>1, <3>2, <3>4, FlushedRow
    <3>6. /\ new.link = x[2].link
          /\ <<a, y[2].token>> \in Odd => new.token = x[2].token /\ new.parent = x[2].parent
          /\ <<a, y[2].token>> \notin Odd =>
                new.token = y[2].token /\ new.parent = y[2].parent
      BY <3>2, NewRowFacts
    <3> HIDE DEF row, new
    <3>7. row.link = coaRow[a].link
      BY <3>5, <3>6
    <3>8. /\ y[2].token \in Nat /\ x[2].token \in Nat /\ coaRow[a].token \in Nat
          /\ chart[a].token \in Nat
      BY <2>1, <3>2 DEF Remote, AccountRow
    <3>9. CASE <<a, y[2].token>> \in Odd
      <4>1. row.token = coaRow[a].token /\ row.parent = coaRow[a].parent
        BY <3>5, <3>6, <3>9
      <4> QED
        BY <2>1, <3>3, <3>7, <4>1 DEF RowInherits
    <3>10. CASE <<a, y[2].token>> \notin Odd
      <4>1. row.token > 0
        BY <3>2, <3>5, <3>6, <3>8, <3>10
      <4>2. row.parent = y[2].parent \/ (y[2].parent = x[2].parent /\ row.parent = coaRow[a].parent)
        BY <3>5, <3>6, <3>10
      <4>3. a \notin moved => row.parent = chart[a].parent
        BY <2>1, <3>2, <3>8, <4>2 DEF RowInherits, RecordInherits
      <4>4. a \notin moved => coaRow[a].link \in {NoParent, chart[a].parent}
        BY <2>1, <3>8 DEF RowInherits
      <4>5. chart[a].token > 0 /\ row.token # 0
        BY <3>2, <4>1 DEF RecordInherits
      <4> QED
        BY <3>3, <3>7, <4>1, <4>3, <4>4, <4>5 DEF RowInherits
    <3> QED
      BY <3>9, <3>10
  <2> QED
    BY <2>2, <2>3
<1>3. ASSUME NEW s \in CoaRuns
      PROVE  /\ \A x \in coaRun'[s].answer : RecordInherits(x[1], x[2])
             /\ \A x \in coaRun'[s].loaded :
                   /\ RowInherits(x[1], x[2])
                   /\ x[2].token > 0 => coaRow'[x[1]].token > 0
  <2>1. CASE s = r
    <3>1. coaRun'[s].answer = {} /\ coaRun'[s].loaded = {}
      BY <2>1, WriteFacts
    <3> QED
      BY <3>1
  <2>2. CASE s # r
    <3>1. Ranks(r, coaRun'[r])
      BY WriteFacts
    <3>2. coaRun'[s] = coaRun[s] /\ coaRun[s] \in RunRecord
      BY <2>2, <3>1 DEF Ranks, CoaInv
    <3>3. \A x \in coaRun[s].loaded : x[1] \in Accounts
      BY <3>2 DEF RunRecord
    <3> QED
      BY <1>2, <3>2, <3>3 DEF Lineage
  <2> QED
    BY <2>1, <2>2
<1> HIDE DEF Lineage
<1> QED
  BY <1>1, <1>2, <1>3, LineageStep

LEMMA LineageResolve ==
  ASSUME CoaInv, Lineage, NEW r \in CoaRuns, ResolveParents(r)
  PROVE  Lineage'
<1>1. UNCHANGED <<chart, moved>> /\ \A a \in Accounts : coaRow'[a] = Linked(a)
  BY DEF ResolveParents
<1>2. ASSUME NEW a \in Accounts
      PROVE  /\ RowInherits(a, coaRow'[a])
             /\ coaRow[a].token > 0 => coaRow'[a].token > 0
             /\ coaRow'[a].token = 0 => coaRow'[a].link = NoParent
             /\ a \notin moved => coaRow'[a].link \in {NoParent, coaRow'[a].parent}
  <2>1. /\ RowInherits(a, coaRow[a])
        /\ coaRow[a].token = 0 => coaRow[a].link = NoParent
        /\ a \notin moved => coaRow[a].link \in {NoParent, coaRow[a].parent}
    BY DEF Lineage
  <2> QED
    BY <1>1, <2>1, LinkedFacts DEF RowInherits
<1>3. ASSUME NEW s \in CoaRuns
      PROVE  /\ \A x \in coaRun'[s].answer : RecordInherits(x[1], x[2])
             /\ \A x \in coaRun'[s].loaded :
                   /\ RowInherits(x[1], x[2])
                   /\ x[2].token > 0 => coaRow'[x[1]].token > 0
  <2>1. CASE s = r
    <3>1. coaRun'[s].answer = {} /\ coaRun'[s].loaded = {}
      BY <2>1, ResolveFacts
    <3> QED
      BY <3>1
  <2>2. CASE s # r
    <3>1. Ranks(r, coaRun'[r])
      BY ResolveFacts
    <3>2. coaRun'[s] = coaRun[s] /\ coaRun[s] \in RunRecord
      BY <2>2, <3>1 DEF Ranks, CoaInv
    <3>3. \A x \in coaRun[s].loaded : x[1] \in Accounts
      BY <3>2 DEF RunRecord
    <3> QED
      BY <1>2, <3>2, <3>3 DEF Lineage
  <2> QED
    BY <2>1, <2>2
<1> HIDE DEF Lineage
<1> QED
  BY <1>1, <1>2, <1>3, LineageStep

LEMMA LineageNext ==
  ASSUME CoaInv, Lineage, [CoaNext]_coaVars
  PROVE  Lineage'
<1>1. CASE UNCHANGED coaVars
  BY <1>1 DEF coaVars, Lineage, RowInherits, RecordInherits
<1>2. ASSUME NEW a \in Accounts, NEW parent \in Accounts \cup {NoParent},
             NEW active \in BOOLEAN, NEW deleted \in BOOLEAN,
             EditAccount(a, parent, active, deleted)
      PROVE  Lineage'
  BY <1>2, LineageEdit
<1>3. ASSUME NEW r \in CoaRuns, NEW a \in RunRecord, RunSound(a), StartRunOf(r, a),
             a.answer = {}, a.loaded = {}, UNCHANGED <<chart, moved, coaRow>>
      PROVE  Lineage'
  <2>1. ASSUME NEW s \in CoaRuns
        PROVE  /\ coaRun'[s].answer \subseteq coaRun[s].answer
               /\ coaRun'[s].loaded \subseteq coaRun[s].loaded
    BY <1>3, StartFacts
  <2> QED
    BY <1>3, <2>1, LineageQuiet
<1>4. ASSUME NEW r \in CoaRuns, StartBackfill(r) PROVE Lineage'
  BY <1>3, <1>4, StartBackfillFacts DEF StartBackfill
<1>5. ASSUME NEW r \in CoaRuns, NEW since \in 0..CoaEdits, NEW width \in 0..CoaDepth + 2,
             StartIncremental(r, since, width)
      PROVE  Lineage'
  <2>1. width \in Nat
    BY ConstantFacts
  <2> QED
    BY <1>3, <1>5, <2>1, StartIncrementalFacts DEF StartIncremental
<1>6. ASSUME NEW r \in CoaRuns,
             \/ FetchAccountPage(r) \/ FetchAccountChanges(r) \/ LoadRows(r)
             \/ MarkAccounts(r) \/ RunBreaks(r)
      PROVE  Lineage'
  <2>1. /\ UNCHANGED <<chart, moved, coaRow>> /\ Ranks(r, coaRun'[r])
        /\ coaRun'[r] \in RunRecord /\ RunSound(coaRun'[r])
        /\ \A x \in coaRun'[r].answer : x \in coaRun[r].answer \/ x[2] = chart[x[1]]
        /\ \A x \in coaRun'[r].loaded : x \in coaRun[r].loaded \/ x[2] = coaRow[x[1]]
    <3>1. CASE FetchAccountPage(r)
      <4>1. \A x \in coaRun'[r].answer : x[2] = chart[x[1]]
        <5>1. PICK P : coaRun'[r].answer = {<<c, chart[c]>> : c \in P}
          BY <3>1, FetchPageFacts
        <5> QED
          BY <5>1
      <4> QED
        BY <3>1, <4>1, FetchPageFacts DEF FetchAccountPage
    <3>2. CASE FetchAccountChanges(r)
      BY <3>2, FetchChangesFacts DEF FetchAccountChanges
    <3>3. CASE LoadRows(r)
      BY <3>3, LoadFacts DEF LoadRows
    <3>4. CASE MarkAccounts(r)
      BY <3>4, MarkFacts DEF MarkAccounts
    <3>5. CASE RunBreaks(r)
      BY <3>5, BreakFacts DEF RunBreaks
    <3> QED
      BY <1>6, <3>1, <3>2, <3>3, <3>4, <3>5
  <2>2. /\ \A x \in coaRun'[r].answer : x[1] \in Accounts /\ x[2].token > 0
        /\ \A x \in coaRun'[r].loaded : x[1] \in Accounts
    BY <2>1 DEF RunRecord, RunSound
  <2>3. \A s \in CoaRuns \ {r} : coaRun'[s] = coaRun[s]
    BY <2>1 DEF Ranks, CoaInv
  <2> QED
    BY <2>1, <2>2, <2>3, LineageQuiet
<1> QED
  BY <1>1, <1>2, <1>4, <1>5, <1>6, LineageWrite, LineageResolve DEF CoaNext

\* When all runs are through and none has failed, every account that can be linked
\* is, and one that was never moved is linked to its parent: whichever of the two
\* came first, on whatever page, in whichever of the overlapping runs.
THEOREM ParentsAreLinkedHolds == CoaSpec => []ParentsAreLinked
<1>1. CoaInit => LinksAreOwed /\ Lineage
  <2> SUFFICES ASSUME CoaInit PROVE LinksAreOwed /\ Lineage
    OBVIOUS
  <2>1. \A a \in Accounts : coaRow[a] = NoRow
    BY DEF CoaInit
  <2>2. \A r \in CoaRuns : coaRun[r].answer = {} /\ coaRun[r].loaded = {}
    BY DEF CoaInit, NewCoaRun
  <2>3. LinksAreOwed
    BY <2>1 DEF LinksAreOwed, Unlinked, NoRow
  <2>4. Lineage
    BY <2>1, <2>2 DEF Lineage, RowInherits, NoRow
  <2> QED
    BY <2>3, <2>4
<1>2. CoaInv /\ LinksAreOwed /\ Lineage /\ [CoaNext]_coaVars => LinksAreOwed' /\ Lineage'
  BY LinksNext, LineageNext
<1>3. CoaInv /\ LinksAreOwed /\ Lineage => ParentsAreLinked
  <2> SUFFICES ASSUME LinksAreOwed, Lineage,
                      \A r \in CoaRuns : coaRun[r].pc \in {"new", "done"},
                      NEW a \in Accounts,
                      coaRow[a].token > 0, ~coaRow[a].deleted, coaRow[a].parent # NoParent,
                      coaRow[coaRow[a].parent].token > 0
               PROVE  /\ coaRow[a].link # NoParent
                      /\ a \notin moved => coaRow[a].link = coaRow[a].parent
    BY DEF ParentsAreLinked
  <2>1. coaRow[a].link # NoParent
    BY DEF LinksAreOwed, Owes, Unlinked
  <2> QED
    BY <2>1 DEF Lineage
<1> QED
  BY <1>1, <1>2, <1>3, CoaInvInit, CoaInvNext, PTL DEF CoaSpec

-----------------------------------------------------------------------------
(* A backfill that is alone.                                               *)

Current(a) ==
    LET row == coaRow[a] IN
    /\ row.snap = chart[a].token
    /\ \/ <<a, chart[a].token>> \in Odd
       \/ /\ row.token = chart[a].token /\ row.parent = chart[a].parent
          /\ row.active = chart[a].active /\ ~row.deleted

\* What a backfill has still to fetch, or to write.
Ahead(a, b) ==
    \/ b.pc = "fetch" /\ b.pos <= Place(a, b.end)
    \/ b.pc \in {"load", "write", "resolve", "mark"} /\ b.more /\ b.pos <= Place(a, b.end)
    \/ a \in Ids(b.answer)

Covered(b) ==
    /\ \A x \in b.answer : x[2] = chart[x[1]]
    /\ \A x \in b.loaded : x[2] = coaRow[x[1]]
    /\ b.pc # "failed" =>
          \A a \in Accounts : InRange(a, b.end) => Current(a) \/ Ahead(a, b)

Undisturbed ==
    \A r \in CoaRuns : coaRun[r].alone =>
        /\ coaRun[r].pc # "new"
        /\ \A s \in CoaRuns \ {r} : ~CoaActive(s)
        /\ coaRun[r].mode = "BACKFILL" => Covered(coaRun[r])

\* A step of a run concerns nobody who was alone, but itself.
LEMMA UndisturbedStep ==
  ASSUME CoaInv, Undisturbed, NEW r \in CoaRuns, CoaActive(r), Ranks(r, coaRun'[r]),
         coaRun'[r].pc # "new", coaRun'[r].alone = coaRun[r].alone,
         coaRun'[r].mode = coaRun[r].mode,
         coaRun[r].alone /\ coaRun[r].mode = "BACKFILL" => Covered(coaRun[r])'
  PROVE  Undisturbed'
<1>1. \A s \in CoaRuns \ {r} : coaRun'[s] = coaRun[s] /\ ~coaRun[s].alone
  BY DEF Undisturbed, Ranks, CoaInv
<1>2. \A s \in CoaRuns \ {r} : CoaActive(s)' <=> CoaActive(s)
  BY <1>1 DEF CoaActive
<1>3. coaRun[r].alone => \A s \in CoaRuns \ {r} : ~CoaActive(s)
  BY DEF Undisturbed
<1> QED
  BY <1>1, <1>2, <1>3 DEF Undisturbed

LEMMA UndisturbedStart ==
  ASSUME CoaInv, Undisturbed, NEW r \in CoaRuns, NEW a \in RunRecord, RunSound(a),
         StartRunOf(r, a), a.pc = "fetch", a.answer = {}, a.loaded = {},
         a.mode = "BACKFILL" => a.pos = 0, UNCHANGED <<chart, coaRow>>
  PROVE  Undisturbed'
<1>1. \A s \in CoaRuns \ {r} : ~coaRun'[s].alone /\ coaRun'[s].pc = coaRun[s].pc
  BY StartFacts
<1>2. /\ coaRun'[r].pc = "fetch" /\ coaRun'[r].mode = a.mode /\ coaRun'[r].pos = a.pos
      /\ coaRun'[r].answer = {} /\ coaRun'[r].loaded = {}
      /\ coaRun'[r].alone => \A o \in CoaRuns : ~CoaActive(o)
  BY StartFacts
<1>3. \A b \in Accounts : \A end : (Place(b, end) \in Nat)'
  <2> SUFFICES ASSUME NEW b \in Accounts, NEW end PROVE (Place(b, end) \in Nat)'
    OBVIOUS
  <2>1. {c \in Accounts : InRange(c, end)' /\ c < b} \in SUBSET Accounts
    OBVIOUS
  <2>2. IsFiniteSet({c \in Accounts : InRange(c, end)' /\ c < b})
    BY <2>1, ConstantFacts, FS_Subset
  <2> QED
    BY <2>2, FS_CardinalityType DEF Place
<1>4. coaRun'[r].alone => \A s \in CoaRuns \ {r} : ~CoaActive(s)'
  BY <1>1, <1>2 DEF CoaActive
<1>5. coaRun'[r].mode = "BACKFILL" => Covered(coaRun[r])'
  <2> SUFFICES ASSUME a.mode = "BACKFILL"
               PROVE  \A b \in Accounts : Ahead(b, coaRun[r])'
    BY <1>2 DEF Covered
  <2>1. coaRun'[r].pc = "fetch" /\ coaRun'[r].pos = 0
    BY <1>2
  <2> QED
    BY <1>3, <2>1 DEF Ahead
<1>6. coaRun'[r].pc # "new"
  BY <1>2
<1> QED
  BY <1>1, <1>4, <1>5, <1>6 DEF Undisturbed

\* A page leaves nothing behind: whoever has not come yet is on it, or on a later
\* one.
LEMMA PageReachesAccounts ==
  ASSUME CoaInv, NEW a \in RunRecord, NEW c \in Accounts, InRange(c, a.end),
         a.pos <= Place(c, a.end), c \notin Page(a)
  PROVE  /\ Page(a) # {}
         /\ Cardinality(Page(a)) = CoaPage
         /\ a.pos + Cardinality(Page(a)) <= Place(c, a.end)
         /\ a.pos + Cardinality(Page(a)) < Cardinality({b \in Accounts : InRange(b, a.end)})
<1> DEFINE S == {b \in Accounts : InRange(b, a.end)}
<1>1. S \in SUBSET Accounts /\ S \in SUBSET Nat /\ IsFiniteSet(S) /\ c \in S
  <2>1. S \in SUBSET Accounts
    OBVIOUS
  <2> QED
    BY <2>1, ConstantFacts, FS_Subset
<1>2. ASSUME NEW b \in Accounts PROVE Place(b, a.end) = RankIn(S, b)
  <2>1. {u \in S : u < b} = {u \in Accounts : InRange(u, a.end) /\ u < b}
    OBVIOUS
  <2> QED
    BY <2>1 DEF Place, RankIn
<1>3. a.pos \in Nat /\ CoaPage \in Nat \ {0}
  BY ConstantFacts DEF RunRecord
<1>4. Page(a) = RankPage(S, a.pos, CoaPage)
  BY <1>2 DEF Page, RankPage
<1> HIDE DEF S
<1>5. RankIn(S, c) \in 0..(Cardinality(S) - 1) /\ Cardinality(S) \in Nat
  BY <1>1, RankBelowSize, FS_CardinalityType
<1>6. RankIn(S, c) = Place(c, a.end)
  BY <1>2
<1>7. a.pos + CoaPage <= RankIn(S, c)
  BY <1>1, <1>3, <1>4, <1>5, <1>6 DEF RankPage
<1>8. Cardinality(Page(a)) = CoaPage
  <2>1. CoaPage \in Nat /\ a.pos + CoaPage <= Cardinality(S)
    BY <1>3, <1>5, <1>7
  <2> HIDE DEF Page
  <2> QED
    BY <1>1, <1>3, <1>4, <2>1, RankPageSize
<1>9. Page(a) # {}
  BY <1>3, <1>8, FS_EmptySet
<1> QED
  BY <1>3, <1>5, <1>6, <1>7, <1>8, <1>9 DEF S

LEMMA UndisturbedFetch ==
  ASSUME CoaInv, Undisturbed, NEW r \in CoaRuns, FetchAccountPage(r)
  PROVE  Undisturbed'
<1> DEFINE a == coaRun[r]
           b == coaRun'[r]
<1>1. /\ Ranks(r, b) /\ a \in RunRecord /\ a.pc = "fetch" /\ CoaActive(r) /\ b.mode = a.mode
      /\ b.end = a.end /\ b.alone = a.alone /\ b.loaded = {}
      /\ b.pc # "new"
  BY FetchPageFacts DEF CoaActive, CoaInv
<1>2. UNCHANGED <<chart, coaRow>>
  BY DEF FetchAccountPage
<1>3. ASSUME a.alone, a.mode = "BACKFILL" PROVE Covered(coaRun[r])'
  <2>1. b.answer = {<<c, chart[c]>> : c \in Page(a)}
    BY FetchPageFacts
  <2>2. \A x \in b.answer : x[2] = chart[x[1]]
    BY <2>1
  <2>3. ASSUME NEW c \in Accounts, InRange(c, a.end), ~Current(c)
        PROVE  Ahead(c, b)
    <3>1. a.pos <= Place(c, a.end) \/ c \in Ids(a.answer)
      BY <1>1, <1>3, <2>3 DEF Undisturbed, Covered, Ahead
    <3>2. a.answer = {}
      BY <1>1 DEF CoaInv, RunSound
    <3>3. CASE c \in Page(a)
      <4>1. <<c, chart[c]>> \in b.answer
        BY <2>1, <3>3
      <4>2. c \in Ids(b.answer)
        BY <4>1 DEF Ids
      <4> QED
        BY <4>2 DEF Ahead
    <3>4. CASE c \notin Page(a)
      <4>1. /\ Page(a) # {} /\ Cardinality(Page(a)) = CoaPage
            /\ a.pos + Cardinality(Page(a)) <= Place(c, a.end)
            /\ a.pos + Cardinality(Page(a)) < Cardinality({d \in Accounts : InRange(d, a.end)})
        BY <1>1, <2>3, <3>1, <3>2, <3>4, PageReachesAccounts DEF Ids
      <4>2. b.pc = "load" /\ b.pos = a.pos + Cardinality(Page(a)) /\ b.more
        BY <4>1, FetchPageFacts
      <4> QED
        BY <1>1, <4>1, <4>2 DEF Ahead
    <3> QED
      BY <3>3, <3>4
  <2>4. \A c \in Accounts : InRange(c, a.end) => Current(c) \/ Ahead(c, b)
    BY <2>3
  <2> QED
    BY <1>1, <1>2, <2>2, <2>4 DEF Covered, InRange, Live, Current, Ahead, Place
<1> QED
  BY <1>1, <1>3, UndisturbedStep

\* The steps between a fetch and the next one.
LEMMA CoveredLoad ==
  ASSUME CoaInv, NEW r \in CoaRuns, LoadRows(r), Covered(coaRun[r])
  PROVE  Covered(coaRun[r])'
<1> DEFINE a == coaRun[r]
           b == coaRun'[r]
<1>1. /\ a.pc = "load" /\ b.pc = "write" /\ b.pos = a.pos /\ b.more = a.more
      /\ b.end = a.end /\ b.answer = a.answer
      /\ \A x \in b.loaded : x[2] = coaRow[x[1]]
  BY LoadFacts
<1>2. UNCHANGED <<chart, coaRow>>
  BY DEF LoadRows
<1>3. ASSUME NEW c \in Accounts, InRange(c, a.end) PROVE Current(c) \/ Ahead(c, b)
  <2>1. Current(c) \/ Ahead(c, a)
    BY <1>1, <1>3 DEF Covered
  <2> QED
    BY <1>1, <2>1 DEF Ahead
<1> QED
  BY <1>1, <1>2, <1>3 DEF Covered, InRange, Live, Current, Ahead, Place

LEMMA CoveredWrite ==
  ASSUME CoaInv, NEW r \in CoaRuns, WriteRows(r), Covered(coaRun[r]),
         coaRun[r].mode = "BACKFILL"
  PROVE  Covered(coaRun[r])'
<1> DEFINE a == coaRun[r]
           b == coaRun'[r]
<1>1. /\ a \in RunRecord /\ RunSound(a)
      /\ a.pc = "write" /\ b.pc = "resolve" /\ b.pos = a.pos /\ b.more = a.more
      /\ b.end = a.end /\ b.answer = {} /\ b.loaded = {}
  BY WriteFacts DEF CoaInv
<1>2. UNCHANGED chart
  BY DEF WriteRows
<1>3. ASSUME NEW c \in Accounts, InRange(c, a.end) PROVE Current(c)' \/ Ahead(c, b)
  <2>1. Current(c) \/ Ahead(c, a)
    BY <1>1, <1>3 DEF Covered
  <2>2. CASE c \in Ids(a.answer)
    <3>1. PICK x \in a.loaded, y \in a.answer : x[1] = c /\ y[1] = c
      BY <1>1, <2>2 DEF RunSound, Ids
    <3>2. x[2] = coaRow[c] /\ y[2] = chart[c] /\ coaRow[c] \in AccountRow /\ chart[c] \in Remote
      BY <3>1 DEF Covered, CoaInv
    <3> DEFINE new == NewRow(c, coaRow[c], chart[c])
    <3>3. new \in AccountRow
      BY <3>2, NewRowFacts
    <3>4. coaRow'[c] = new
      <4>1. coaRow'[c] = Flushed(coaRow[c], new, coaRow[c])
        BY <3>1, <3>2, WriteFacts
      <4> HIDE DEF new
      <4> QED
        BY <3>2, <3>3, <4>1, FlushedRow
    <3>5. /\ new.snap = chart[c].token
          /\ <<c, chart[c].token>> \notin Odd =>
               /\ new.token = chart[c].token /\ new.parent = chart[c].parent
               /\ new.active = chart[c].active /\ new.deleted = chart[c].deleted
      BY <3>2, NewRowFacts
    <3>6. ~chart[c].deleted
      BY <1>3 DEF InRange, Live
    <3> HIDE DEF new
    <3> QED
      BY <1>2, <3>4, <3>5, <3>6 DEF Current
  <2>3. CASE c \notin Ids(a.answer)
    <3>1. coaRow'[c] = coaRow[c]
      BY <2>3, WriteFacts
    <3>2. Ahead(c, a) => Ahead(c, b)
      BY <1>1, <2>3 DEF Ahead
    <3>3. Current(c) => Current(c)'
      BY <1>2, <3>1 DEF Current
    <3> QED
      BY <2>1, <3>2, <3>3
  <2> QED
    BY <2>2, <2>3
<1>4. \A c \in Accounts : (InRange(c, coaRun[r].end)' <=> InRange(c, a.end))
                          /\ (Ahead(c, coaRun[r])' <=> Ahead(c, b))
  BY <1>1, <1>2 DEF InRange, Live, Ahead, Place
<1> QED
  BY <1>1, <1>3, <1>4 DEF Covered

LEMMA CoveredResolve ==
  ASSUME CoaInv, NEW r \in CoaRuns, ResolveParents(r), Covered(coaRun[r])
  PROVE  Covered(coaRun[r])'
<1> DEFINE a == coaRun[r]
           b == coaRun'[r]
<1>1. /\ RunSound(a) /\ a.pc = "resolve" /\ b.pc = "mark" /\ b.pos = a.pos /\ b.more = a.more
      /\ b.end = a.end /\ b.answer = {} /\ b.loaded = {}
  BY ResolveFacts DEF CoaInv
<1>2. UNCHANGED chart /\ \A c \in Accounts : coaRow'[c] = Linked(c)
  BY DEF ResolveParents
<1>3. ASSUME NEW c \in Accounts, InRange(c, a.end) PROVE Current(c)' \/ Ahead(c, b)
  <2>1. Current(c) \/ Ahead(c, a)
    BY <1>1, <1>3 DEF Covered
  <2>2. a.answer = {}
    BY <1>1 DEF RunSound
  <2>3. Ahead(c, a) => Ahead(c, b)
    BY <1>1, <2>2 DEF Ahead
  <2>4. /\ coaRow'[c].token = coaRow[c].token /\ coaRow'[c].parent = coaRow[c].parent
        /\ coaRow'[c].active = coaRow[c].active /\ coaRow'[c].deleted = coaRow[c].deleted
        /\ coaRow'[c].snap = coaRow[c].snap
    BY <1>2, LinkedFacts
  <2>5. Current(c) => Current(c)'
    BY <1>2, <2>4 DEF Current
  <2> QED
    BY <2>1, <2>3, <2>5
<1>4. \A c \in Accounts : (InRange(c, coaRun[r].end)' <=> InRange(c, a.end))
                          /\ (Ahead(c, coaRun[r])' <=> Ahead(c, b))
  BY <1>1, <1>2 DEF InRange, Live, Ahead, Place
<1> QED
  BY <1>1, <1>3, <1>4 DEF Covered

LEMMA CoveredMark ==
  ASSUME CoaInv, NEW r \in CoaRuns, MarkAccounts(r), Covered(coaRun[r])
  PROVE  Covered(coaRun[r])'
<1> DEFINE a == coaRun[r]
           b == coaRun'[r]
<1>1. /\ RunSound(a) /\ a.pc = "mark" /\ b.end = a.end /\ b.answer = {} /\ b.loaded = {}
      /\ a.more => b.pc = "fetch" /\ b.pos = a.pos
  BY MarkFacts DEF CoaInv
<1>2. UNCHANGED <<chart, coaRow>>
  BY DEF MarkAccounts
<1>3. ASSUME NEW c \in Accounts, InRange(c, a.end) PROVE Current(c) \/ Ahead(c, b)
  <2>1. Current(c) \/ Ahead(c, a)
    BY <1>1, <1>3 DEF Covered
  <2>2. a.answer = {}
    BY <1>1 DEF RunSound
  <2> QED
    BY <1>1, <2>1, <2>2 DEF Ahead, Ids
<1> QED
  BY <1>1, <1>2, <1>3 DEF Covered, InRange, Live, Current, Ahead, Place

LEMMA UndisturbedNext ==
  ASSUME CoaInv, Undisturbed, [CoaNext]_coaVars
  PROVE  Undisturbed'
<1>1. CASE UNCHANGED coaVars
  BY <1>1 DEF coaVars, Undisturbed, Covered, CoaActive, InRange, Live, Current, Ahead, Place
<1>2. ASSUME NEW a \in Accounts, NEW parent \in Accounts \cup {NoParent},
             NEW active \in BOOLEAN, NEW deleted \in BOOLEAN,
             EditAccount(a, parent, active, deleted)
      PROVE  Undisturbed'
  <2>1. \A r \in CoaRuns : ~coaRun'[r].alone
    BY <1>2, EditFacts
  <2> QED
    BY <2>1 DEF Undisturbed
<1>3. ASSUME NEW r \in CoaRuns, StartBackfill(r) PROVE Undisturbed'
  <2>1. UNCHANGED <<chart, coaRow>>
    BY <1>3 DEF StartBackfill
  <2> QED
    BY <1>3, <2>1, StartBackfillFacts, UndisturbedStart
<1>4. ASSUME NEW r \in CoaRuns, NEW since \in 0..CoaEdits, NEW width \in 0..CoaDepth + 2,
             StartIncremental(r, since, width)
      PROVE  Undisturbed'
  <2>1. UNCHANGED <<chart, coaRow>> /\ width \in Nat
    BY <1>4, ConstantFacts DEF StartIncremental
  <2>2. PICK a \in RunRecord :
           /\ StartRunOf(r, a) /\ RunSound(a) /\ a.pc = "fetch" /\ a.mode = "INCREMENTAL"
           /\ a.answer = {} /\ a.loaded = {}
    BY <1>4, <2>1, StartIncrementalFacts
  <2> QED
    BY <2>1, <2>2, UndisturbedStart
<1>5. ASSUME NEW r \in CoaRuns, FetchAccountChanges(r) PROVE Undisturbed'
  <2>1. /\ CoaActive(r) /\ Ranks(r, coaRun'[r]) /\ coaRun'[r].pc # "new"
        /\ coaRun'[r].alone = coaRun[r].alone /\ coaRun'[r].mode = coaRun[r].mode
        /\ coaRun[r].mode # "BACKFILL"
    BY <1>5, FetchChangesFacts DEF CoaActive
  <2> QED
    BY <2>1, UndisturbedStep
<1>6. ASSUME NEW r \in CoaRuns, LoadRows(r) PROVE Undisturbed'
  <2>1. /\ CoaActive(r) /\ Ranks(r, coaRun'[r]) /\ coaRun'[r].pc # "new"
        /\ coaRun'[r].alone = coaRun[r].alone /\ coaRun'[r].mode = coaRun[r].mode
    BY <1>6, LoadFacts DEF CoaActive
  <2>2. coaRun[r].alone /\ coaRun[r].mode = "BACKFILL" => Covered(coaRun[r])'
    BY <1>6, CoveredLoad DEF Undisturbed
  <2> QED
    BY <2>1, <2>2, UndisturbedStep
<1>7. ASSUME NEW r \in CoaRuns, WriteRows(r) PROVE Undisturbed'
  <2>1. /\ CoaActive(r) /\ Ranks(r, coaRun'[r]) /\ coaRun'[r].pc # "new"
        /\ coaRun'[r].alone = coaRun[r].alone /\ coaRun'[r].mode = coaRun[r].mode
    BY <1>7, WriteFacts DEF CoaActive
  <2>2. coaRun[r].alone /\ coaRun[r].mode = "BACKFILL" => Covered(coaRun[r])'
    BY <1>7, CoveredWrite DEF Undisturbed
  <2> QED
    BY <2>1, <2>2, UndisturbedStep
<1>8. ASSUME NEW r \in CoaRuns, ResolveParents(r) PROVE Undisturbed'
  <2>1. /\ CoaActive(r) /\ Ranks(r, coaRun'[r]) /\ coaRun'[r].pc # "new"
        /\ coaRun'[r].alone = coaRun[r].alone /\ coaRun'[r].mode = coaRun[r].mode
    BY <1>8, ResolveFacts DEF CoaActive
  <2>2. coaRun[r].alone /\ coaRun[r].mode = "BACKFILL" => Covered(coaRun[r])'
    BY <1>8, CoveredResolve DEF Undisturbed
  <2> QED
    BY <2>1, <2>2, UndisturbedStep
<1>9. ASSUME NEW r \in CoaRuns, MarkAccounts(r) PROVE Undisturbed'
  <2>1. /\ CoaActive(r) /\ Ranks(r, coaRun'[r]) /\ coaRun'[r].pc # "new"
        /\ coaRun'[r].alone = coaRun[r].alone /\ coaRun'[r].mode = coaRun[r].mode
    BY <1>9, MarkFacts DEF CoaActive
  <2>2. coaRun[r].alone /\ coaRun[r].mode = "BACKFILL" => Covered(coaRun[r])'
    BY <1>9, CoveredMark DEF Undisturbed
  <2> QED
    BY <2>1, <2>2, UndisturbedStep
<1>10. ASSUME NEW r \in CoaRuns, RunBreaks(r) PROVE Undisturbed'
  <2>1. /\ CoaActive(r) /\ Ranks(r, coaRun'[r]) /\ coaRun'[r].pc = "failed"
        /\ coaRun'[r].alone = coaRun[r].alone /\ coaRun'[r].mode = coaRun[r].mode
        /\ coaRun'[r].answer = {} /\ coaRun'[r].loaded = {}
    BY <1>10, BreakFacts
  <2>2. Covered(coaRun[r])'
    BY <2>1 DEF Covered
  <2> QED
    BY <2>1, <2>2, UndisturbedStep
<1> QED
  BY <1>1, <1>2, <1>3, <1>4, <1>5, <1>6, <1>7, <1>8, <1>9, <1>10, UndisturbedFetch DEF CoaNext

\* A backfill that completes undisturbed leaves every account of its range as the
\* chart has it: no page skips one, none is taken for the last too early, and what
\* older runs wrote is replaced.
THEOREM AccountsAreCurrentHolds == CoaSpec => []AccountsAreCurrent
<1>1. CoaInit => Undisturbed
  BY DEF CoaInit, NewCoaRun, Undisturbed
<1>2. CoaInv /\ Undisturbed /\ [CoaNext]_coaVars => Undisturbed'
  BY UndisturbedNext
<1>3. CoaInv /\ Undisturbed => AccountsAreCurrent
  <2> SUFFICES ASSUME CoaInv, Undisturbed, NEW r \in CoaRuns, NEW a \in Accounts,
                      coaRun[r].pc = "done", coaRun[r].mode = "BACKFILL", coaRun[r].alone,
                      InRange(a, coaRun[r].end)
               PROVE  Current(a)
    BY DEF AccountsAreCurrent, Current
  <2>1. Current(a) \/ Ahead(a, coaRun[r])
    BY DEF Undisturbed, Covered
  <2>2. coaRun[r].answer = {}
    BY DEF CoaInv, RunSound
  <2> QED
    BY <2>1, <2>2 DEF Ahead, Ids
<1> QED
  BY <1>1, <1>2, <1>3, CoaInvInit, CoaInvNext, PTL DEF CoaSpec

-----------------------------------------------------------------------------
(* The hierarchy.  Levels and chains are recursive functions: they exist   *)
(* because a repeated step does, and what holds of them is shown along     *)
(* their steps.                                                            *)

LEMMA LevelsOf ==
  ASSUME NEW table, NEW account \in Accounts
  PROVE  \E f \in [0..CoaHeight -> SUBSET Accounts] :
           /\ Tree(table, account) = f[CoaHeight]
           /\ f[0] = IF Known(table, account) THEN {account} ELSE {}
           /\ \A k \in 0..(CoaHeight - 1) : f[k + 1] = f[k] \cup Children(table, f[k])
<1> DEFINE base == IF Known(table, account) THEN {account} ELSE {}
           step == [X \in SUBSET Accounts |-> X \cup Children(table, X)]
<1>1. /\ CoaHeight \in Nat /\ base \in SUBSET Accounts
      /\ step \in [SUBSET Accounts -> SUBSET Accounts]
  BY CoaAssumption DEF Children
<1> HIDE DEF base, step
<1>2. PICK f \in [0..CoaHeight -> SUBSET Accounts] :
         f[0] = base /\ \A k \in 0..(CoaHeight - 1) : f[k + 1] = step[f[k]]
  <2> DEFINE S == SUBSET Accounts
  <2>1. step \in [S -> S] /\ base \in S /\ CoaHeight \in Nat
    BY <1>1
  <2> HIDE DEF S
  <2>2. Orbit(S, step, base, CoaHeight) # {}
    BY <2>1, Iterates
  <2> QED
    BY <2>2 DEF S, Orbit
<1>3. \A k \in 0..(CoaHeight - 1) : f[k + 1] = f[k] \cup Children(table, f[k])
  <2> SUFFICES ASSUME NEW k \in 0..(CoaHeight - 1)
               PROVE  f[k + 1] = f[k] \cup Children(table, f[k])
    OBVIOUS
  <2>1. f[k] \in SUBSET Accounts /\ f[k + 1] = step[f[k]]
    BY <1>1, <1>2
  <2> QED
    BY <2>1 DEF step
<1>4. f = [n \in 0..CoaHeight |-> IF n = 0 THEN IF Known(table, account) THEN {account} ELSE {}
                                  ELSE f[n - 1] \cup Children(table, f[n - 1])]
  <2>1. ASSUME NEW n \in 0..CoaHeight
        PROVE  f[n] = IF n = 0 THEN IF Known(table, account) THEN {account} ELSE {}
                      ELSE f[n - 1] \cup Children(table, f[n - 1])
    <3>1. CASE n = 0
      BY <1>2, <3>1 DEF base
    <3>2. CASE n # 0
      <4>1. n - 1 \in 0..(CoaHeight - 1) /\ (n - 1) + 1 = n
        BY <1>1, <3>2
      <4> QED
        BY <1>3, <3>2, <4>1
    <3> QED
      BY <3>1, <3>2
  <2> QED
    BY <2>1
<1>5. \E g : g = [n \in 0..CoaHeight |-> IF n = 0 THEN IF Known(table, account) THEN {account} ELSE {}
                                         ELSE g[n - 1] \cup Children(table, g[n - 1])]
  BY <1>4
<1>6. PICK h : /\ h = [n \in 0..CoaHeight |-> IF n = 0 THEN IF Known(table, account) THEN {account} ELSE {}
                                              ELSE h[n - 1] \cup Children(table, h[n - 1])]
               /\ Tree(table, account) = h[CoaHeight]
  BY <1>5, Zenon DEF Tree
<1>7. h[0] = base
  BY <1>1, <1>6 DEF base
<1>8. \A k \in 0..(CoaHeight - 1) : h[k + 1] = h[k] \cup Children(table, h[k])
  <2> SUFFICES ASSUME NEW k \in 0..(CoaHeight - 1)
               PROVE  h[k + 1] = h[k] \cup Children(table, h[k])
    OBVIOUS
  <2>1. k + 1 \in 0..CoaHeight /\ k + 1 # 0 /\ (k + 1) - 1 = k
    BY <1>1
  <2> QED
    BY <1>6, <2>1
<1>9. h \in [0..CoaHeight -> SUBSET Accounts]
  <2> DEFINE T == {n \in Nat : n <= CoaHeight => h[n] \in SUBSET Accounts}
  <2>1. 0 \in T
    BY <1>1, <1>7
  <2>2. ASSUME NEW n \in Nat, n \in T PROVE n + 1 \in T
    <3> SUFFICES ASSUME n + 1 <= CoaHeight PROVE h[n + 1] \in SUBSET Accounts
      OBVIOUS
    <3>1. n \in 0..(CoaHeight - 1) /\ h[n] \in SUBSET Accounts
      BY <1>1, <2>2
    <3> QED
      BY <1>8, <3>1 DEF Children
  <2> HIDE DEF T
  <2>3. Nat \subseteq T
    BY <2>1, <2>2, SuccessorClosed
  <2>4. \A n \in 0..CoaHeight : h[n] \in SUBSET Accounts
    BY <1>1, <2>3 DEF T
  <2>5. h = [n \in 0..CoaHeight |-> h[n]]
    BY <1>6
  <2> QED
    BY <2>4, <2>5
<1> QED
  BY <1>6, <1>7, <1>8, <1>9 DEF base

LEMMA ChainOf ==
  ASSUME NEW table, NEW account
  PROVE  \E h : /\ Ancestors(table, account) = h[CoaHeight]
                /\ h[1] = IF Known(table, account) THEN <<account>> ELSE << >>
                /\ \A k \in 1..(CoaHeight - 1) : h[k + 1] = Climbed(table, h[k])
<1>1. CoaHeight \in Nat \ {0}
  BY CoaAssumption
<1>2. \E f : f = [n \in 1..CoaHeight |->
                    IF n = 1 THEN IF Known(table, account) THEN <<account>> ELSE << >>
                    ELSE Climbed(table, f[n - 1])]
  <2> DEFINE Rec(f, m) == f = [n \in 1..m |->
                    IF n = 1 THEN IF Known(table, account) THEN <<account>> ELSE << >>
                    ELSE Climbed(table, f[n - 1])]
             T == {m \in Nat : \E f : Rec(f, m)}
  <2>1. 0 \in T
    <3>1. Rec([n \in 1..0 |-> 0], 0)
      OBVIOUS
    <3> HIDE DEF Rec
    <3> QED
      BY <3>1
  <2>2. ASSUME NEW m \in Nat, m \in T PROVE m + 1 \in T
    <3>1. PICK f : Rec(f, m)
      BY <2>2
    <3> DEFINE g == [n \in 1..(m + 1) |->
                       IF n = m + 1
                       THEN IF n = 1 THEN IF Known(table, account) THEN <<account>> ELSE << >>
                            ELSE Climbed(table, f[n - 1])
                       ELSE f[n]]
    <3>2. ASSUME NEW n \in 1..(m + 1)
          PROVE  g[n] = IF n = 1 THEN IF Known(table, account) THEN <<account>> ELSE << >>
                        ELSE Climbed(table, g[n - 1])
      <4>1. n # 1 => n - 1 \in 1..m /\ g[n - 1] = f[n - 1]
        OBVIOUS
      <4>2. CASE n = m + 1
        BY <4>1, <4>2
      <4>3. CASE n # m + 1
        <5>1. n \in 1..m /\ g[n] = f[n]
          BY <4>3
        <5> HIDE DEF g
        <5> QED
          BY <3>1, <4>1, <5>1
      <4> QED
        BY <4>2, <4>3
    <3>3. g = [n \in 1..(m + 1) |-> g[n]]
      OBVIOUS
    <3> HIDE DEF g
    <3>4. Rec(g, m + 1)
      BY <3>2, <3>3
    <3> HIDE DEF Rec
    <3> QED
      BY <3>4
  <2> HIDE DEF T, Rec
  <2>3. CoaHeight \in T
    BY <1>1, <2>1, <2>2, SuccessorClosed
  <2> QED
    BY <2>3 DEF T, Rec
<1>3. PICK h : /\ h = [n \in 1..CoaHeight |->
                         IF n = 1 THEN IF Known(table, account) THEN <<account>> ELSE << >>
                         ELSE Climbed(table, h[n - 1])]
               /\ Ancestors(table, account) = h[CoaHeight]
  BY <1>2, Zenon DEF Ancestors
<1>4. h[1] = IF Known(table, account) THEN <<account>> ELSE << >>
  BY <1>1, <1>3
<1>5. \A k \in 1..(CoaHeight - 1) : h[k + 1] = Climbed(table, h[k])
  <2> SUFFICES ASSUME NEW k \in 1..(CoaHeight - 1) PROVE h[k + 1] = Climbed(table, h[k])
    OBVIOUS
  <2>1. k + 1 \in 1..CoaHeight /\ k + 1 # 1 /\ (k + 1) - 1 = k
    BY <1>1
  <2> QED
    BY <1>3, <2>1
<1> QED
  BY <1>3, <1>4, <1>5

\* What a chain of ancestors is: known accounts, each the parent of the one before.
IsChain(table, account, c) ==
    /\ c \in Seq(Accounts) /\ c # << >> /\ c[1] = account
    /\ \A k \in 1..Len(c) : Known(table, c[k])
    /\ \A k \in 1..(Len(c) - 1) : table[c[k]].parent = c[k + 1]

LEMMA ClimbedIsChain ==
  ASSUME NEW table \in [Accounts -> AccountRow], NEW account, NEW c, IsChain(table, account, c)
  PROVE  /\ IsChain(table, account, Climbed(table, c))
         /\ Len(Climbed(table, c)) <= Len(c) + 1
<1> DEFINE next == table[c[Len(c)]].parent
<1>1. /\ c \in Seq(Accounts) /\ c # << >> /\ Len(c) \in Nat \ {0}
      /\ c[Len(c)] \in Accounts
  BY DEF IsChain
<1>2. next \in Accounts \cup {NoParent}
  BY <1>1 DEF AccountRow
<1>3. \/ Climbed(table, c) = c
      \/ Known(table, next) /\ Climbed(table, c) = Append(c, next)
  BY <1>1 DEF Climbed, Last
<1> HIDE DEF next
<1>4. CASE Climbed(table, c) = c
  BY <1>1, <1>4
<1>5. CASE Known(table, next) /\ Climbed(table, c) = Append(c, next)
  <2> DEFINE d == Append(c, next)
  <2>1. next \in Accounts
    BY <1>2, <1>5 DEF Known
  <2>2. /\ d \in Seq(Accounts) /\ d # << >> /\ Len(d) = Len(c) + 1
        /\ \A k \in 1..Len(c) : d[k] = c[k]
        /\ d[Len(c) + 1] = next
    BY <1>1, <2>1
  <2> HIDE DEF d
  <2>3. d[1] = account
    BY <1>1, <2>2 DEF IsChain
  <2>4. ASSUME NEW k \in 1..Len(d) PROVE Known(table, d[k])
    <3>1. CASE k = Len(c) + 1
      BY <1>5, <2>2, <3>1
    <3>2. CASE k # Len(c) + 1
      <4>1. k \in 1..Len(c)
        BY <1>1, <2>2, <3>2
      <4> QED
        BY <2>2, <4>1 DEF IsChain
    <3> QED
      BY <3>1, <3>2
  <2>5. ASSUME NEW k \in 1..(Len(d) - 1) PROVE table[d[k]].parent = d[k + 1]
    <3>1. k \in 1..Len(c) /\ d[k] = c[k]
      BY <1>1, <2>2
    <3>2. CASE k = Len(c)
      BY <2>2, <3>1, <3>2 DEF next
    <3>3. CASE k # Len(c)
      <4>1. k \in 1..(Len(c) - 1) /\ k + 1 \in 1..Len(c)
        BY <1>1, <3>1, <3>3
      <4> QED
        BY <2>2, <4>1 DEF IsChain
    <3> QED
      BY <3>2, <3>3
  <2>6. IsChain(table, account, d)
    BY <2>2, <2>3, <2>4, <2>5 DEF IsChain
  <2> QED
    BY <1>1, <1>5, <2>2, <2>6 DEF d
<1> QED
  BY <1>3, <1>4, <1>5

LEMMA AncestorsAreChain ==
  ASSUME NEW table \in [Accounts -> AccountRow], NEW account \in Accounts,
         Known(table, account)
  PROVE  /\ IsChain(table, account, Ancestors(table, account))
         /\ Len(Ancestors(table, account)) <= CoaHeight
<1>1. CoaHeight \in Nat \ {0}
  BY CoaAssumption
<1>2. PICK h : /\ Ancestors(table, account) = h[CoaHeight]
               /\ h[1] = <<account>>
               /\ \A k \in 1..(CoaHeight - 1) : h[k + 1] = Climbed(table, h[k])
  BY ChainOf
<1> DEFINE Fine(n) == IsChain(table, account, h[n]) /\ Len(h[n]) <= n
           T == {n \in Nat : n + 1 <= CoaHeight => Fine(n + 1)}
<1>3. 0 \in T
  <2>1. <<account>> \in Seq(Accounts) /\ Len(<<account>>) = 1 /\ <<account>>[1] = account
    OBVIOUS
  <2>2. IsChain(table, account, <<account>>)
    BY <2>1 DEF IsChain
  <2>3. h[0 + 1] = <<account>> /\ Len(<<account>>) <= 0 + 1
    BY <1>2, <2>1
  <2>4. Fine(0 + 1)
    BY <2>2, <2>3
  <2> HIDE DEF Fine
  <2> QED
    BY <2>4
<1>4. ASSUME NEW n \in Nat, n \in T PROVE n + 1 \in T
  <2> SUFFICES ASSUME (n + 1) + 1 <= CoaHeight PROVE Fine((n + 1) + 1)
    OBVIOUS
  <2>1. Fine(n + 1) /\ n + 1 \in 1..(CoaHeight - 1)
    BY <1>1, <1>4
  <2>2. h[(n + 1) + 1] = Climbed(table, h[n + 1])
    BY <1>2, <2>1
  <2>3. /\ IsChain(table, account, Climbed(table, h[n + 1]))
        /\ Len(Climbed(table, h[n + 1])) <= Len(h[n + 1]) + 1
    BY <2>1, ClimbedIsChain
  <2>4. Len(h[n + 1]) \in Nat /\ Len(Climbed(table, h[n + 1])) \in Nat
    BY <2>1, <2>3 DEF IsChain
  <2> QED
    BY <2>1, <2>2, <2>3, <2>4
<1> HIDE DEF T
<1>5. CoaHeight - 1 \in T
  BY <1>1, <1>3, <1>4, SuccessorClosed
<1> QED
  BY <1>1, <1>2, <1>5 DEF T

\* Down a chain without a deleted account below its top, level by level, and no
\* level loses what an earlier one had.
LEMMA ChainIsInTree ==
  ASSUME NEW table \in [Accounts -> AccountRow], NEW account, NEW c,
         IsChain(table, account, c), Len(c) <= CoaHeight, NEW i \in 1..Len(c),
         \A k \in 1..(i - 1) : ~table[c[k]].deleted
  PROVE  account \in Tree(table, c[i])
<1>1. /\ CoaHeight \in Nat /\ Len(c) \in Nat /\ i \in Nat /\ i <= CoaHeight
      /\ \A k \in 1..Len(c) : c[k] \in Accounts
  BY CoaAssumption DEF IsChain
<1>2. PICK f \in [0..CoaHeight -> SUBSET Accounts] :
        /\ Tree(table, c[i]) = f[CoaHeight]
        /\ f[0] = IF Known(table, c[i]) THEN {c[i]} ELSE {}
        /\ \A k \in 0..(CoaHeight - 1) : f[k + 1] = f[k] \cup Children(table, f[k])
  BY <1>1, LevelsOf
<1> DEFINE T == {n \in Nat : n <= i - 1 => c[i - n] \in f[n]}
           U == {n \in Nat : (i - 1) + n <= CoaHeight => account \in f[(i - 1) + n]}
<1>3. 0 \in T
  <2>1. i - 0 = i
    BY <1>1
  <2> QED
    BY <1>2, <2>1 DEF IsChain
<1>4. ASSUME NEW n \in Nat, n \in T PROVE n + 1 \in T
  <2> SUFFICES ASSUME n + 1 <= i - 1 PROVE c[i - (n + 1)] \in f[n + 1]
    OBVIOUS
  <2> DEFINE low == i - (n + 1)
  <2>1. /\ low \in 1..(i - 1) /\ low \in 1..(Len(c) - 1) /\ low \in 1..Len(c)
        /\ low + 1 = i - n /\ n \in 0..(CoaHeight - 1) /\ n <= i - 1
    BY <1>1
  <2> HIDE DEF low
  <2>2. c[low + 1] \in f[n]
    BY <1>4, <2>1
  <2>3. /\ table[c[low]].parent = c[low + 1] /\ ~table[c[low]].deleted
        /\ table[c[low]].token > 0 /\ c[low] \in Accounts
    BY <1>1, <2>1 DEF IsChain, Known
  <2>4. c[low] \in Children(table, f[n])
    BY <2>2, <2>3 DEF Children
  <2>5. f[n + 1] = f[n] \cup Children(table, f[n])
    BY <1>2, <2>1
  <2> QED
    BY <2>4, <2>5 DEF low
<1>5. i - 1 \in T
  <2> HIDE DEF T
  <2> QED
    BY <1>1, <1>3, <1>4, SuccessorClosed
<1>6. account \in f[i - 1]
  <2>1. i - (i - 1) = 1
    BY <1>1
  <2> QED
    BY <1>1, <1>5, <2>1 DEF IsChain
<1>7. 0 \in U
  <2>1. (i - 1) + 0 = i - 1
    BY <1>1
  <2> QED
    BY <1>6, <2>1
<1>8. ASSUME NEW n \in Nat, n \in U PROVE n + 1 \in U
  <2> SUFFICES ASSUME (i - 1) + (n + 1) <= CoaHeight PROVE account \in f[(i - 1) + (n + 1)]
    OBVIOUS
  <2> DEFINE m == (i - 1) + n
  <2>1. m \in 0..(CoaHeight - 1) /\ m <= CoaHeight /\ (i - 1) + (n + 1) = m + 1
    BY <1>1
  <2>2. account \in f[m]
    BY <1>8, <2>1
  <2> HIDE DEF m
  <2>3. f[m + 1] = f[m] \cup Children(table, f[m])
    BY <1>2, <2>1
  <2> QED
    BY <2>1, <2>2, <2>3
<1>9. CoaHeight - (i - 1) \in U
  <2>1. CoaHeight - (i - 1) \in Nat
    BY <1>1
  <2> HIDE DEF U
  <2> QED
    BY <1>7, <1>8, <2>1, SuccessorClosed
<1>10. (i - 1) + (CoaHeight - (i - 1)) = CoaHeight
  BY <1>1
<1> QED
  BY <1>1, <1>2, <1>9, <1>10

\* The two endpoints describe one tree: an account is among the descendants of
\* each of its ancestors, unless a deleted one is between them, however high the
\* climb is allowed to go and even where the parents form a cycle.
THEOREM HierarchyAgreesHolds == CoaSpec => []HierarchyAgrees
<1>1. CoaInv => HierarchyAgrees
  <2> SUFFICES ASSUME coaRow \in [Accounts -> AccountRow], NEW a \in Accounts,
                      coaRow[a].token > 0,
                      NEW i \in DOMAIN Ancestors(coaRow, a),
                      \/ i = 1
                      \/ ~ \E k \in 1..(i - 1) : coaRow[Ancestors(coaRow, a)[k]].deleted
               PROVE  a \in Tree(coaRow, Ancestors(coaRow, a)[i])
    BY DEF CoaInv, HierarchyAgrees
  <2> DEFINE up == Ancestors(coaRow, a)
  <2>1. Known(coaRow, a)
    BY CoaAssumption DEF Known, NoParent
  <2>2. PICK table \in [Accounts -> AccountRow] : table = coaRow
    OBVIOUS
  <2>3. IsChain(table, a, Ancestors(table, a)) /\ Len(Ancestors(table, a)) <= CoaHeight
    BY <2>1, <2>2, AncestorsAreChain
  <2>4. i \in 1..Len(Ancestors(table, a)) /\ Len(Ancestors(table, a)) \in Nat
    BY <2>2, <2>3 DEF IsChain
  <2>5. \A k \in 1..(i - 1) : ~table[Ancestors(table, a)[k]].deleted
    BY <2>2, <2>4
  <2>6. a \in Tree(table, Ancestors(table, a)[i])
    BY <2>3, <2>4, <2>5, ChainIsInTree
  <2> QED
    BY <2>2, <2>6
<1> QED
  BY <1>1, CoaInvInit, CoaInvNext, PTL DEF CoaSpec

-----------------------------------------------------------------------------
(* The questions.                                                          *)

\* A set in order: every element has its place, and there are no others.
LEMMA InOrderIsSorted ==
  ASSUME NEW ids \in SUBSET Accounts
  PROVE  /\ IsFiniteSet(ids) /\ Cardinality(ids) \in Nat
         /\ Cardinality(ids) <= Cardinality(Accounts) /\ Cardinality(Accounts) \in Nat
         /\ InOrder(ids) \in Seq(ids) /\ Len(InOrder(ids)) = Cardinality(ids)
         /\ \A a \in ids : \E i \in 1..Cardinality(ids) : InOrder(ids)[i] = a
<1>1. /\ IsFiniteSet(ids) /\ Cardinality(ids) \in Nat
      /\ Cardinality(ids) <= Cardinality(Accounts) /\ Cardinality(Accounts) \in Nat
  BY CoaAssumption, FS_Subset, FS_CardinalityType
<1>2. ids \in SUBSET Nat
  BY CoaAssumption
<1>3. /\ \A t, u \in ids : RankIn(ids, t) = RankIn(ids, u) => t = u
      /\ \A n \in 0..(Cardinality(ids) - 1) : \E t \in ids : RankIn(ids, t) = n
  BY <1>1, <1>2, RankIsBijection
<1>4. InOrder(ids) = [i \in 1..Cardinality(ids) |-> CHOOSE a \in ids : RankIn(ids, a) = i - 1]
  BY DEF InOrder, RankIn
<1>5. ASSUME NEW i \in 1..Cardinality(ids)
      PROVE  InOrder(ids)[i] \in ids /\ RankIn(ids, InOrder(ids)[i]) = i - 1
  <2>1. i - 1 \in 0..(Cardinality(ids) - 1)
    BY <1>1
  <2>2. \E a \in ids : RankIn(ids, a) = i - 1
    BY <1>3, <2>1
  <2>3. InOrder(ids)[i] = CHOOSE a \in ids : RankIn(ids, a) = i - 1
    BY <1>4
  <2> QED
    BY <2>2, <2>3
<1>6. InOrder(ids) \in [1..Cardinality(ids) -> ids]
  BY <1>4, <1>5
<1>7. InOrder(ids) \in Seq(ids) /\ Len(InOrder(ids)) = Cardinality(ids)
  <2> HIDE DEF InOrder
  <2> QED
    BY <1>1, <1>6
<1>8. ASSUME NEW a \in ids PROVE \E i \in 1..Cardinality(ids) : InOrder(ids)[i] = a
  <2>1. RankIn(ids, a) \in 0..(Cardinality(ids) - 1)
    BY <1>1, <1>2, RankBelowSize
  <2>2. PICK i \in 1..Cardinality(ids) : i = RankIn(ids, a) + 1
    BY <1>1, <2>1
  <2>3. RankIn(ids, InOrder(ids)[i]) = RankIn(ids, a) /\ InOrder(ids)[i] \in ids
    BY <1>5, <2>1, <2>2
  <2> QED
    BY <1>3, <2>3
<1> QED
  BY <1>1, <1>7, <1>8

\* Page by page, one account each, or as the candidates without a filter of their
\* own: both find what the filter leaves, and nothing else.
LEMMA PagesAndCandidates ==
  ASSUME NEW wanted, NEW a
  PROVE  LET n == Cardinality(Accounts)
             f == Filter(TRUE, wanted)
         IN /\ (\E k \in 0..n - 1 : a \in ToSet(AccountPage(f, 1, k).items)) <=> a \in Hits(f)
            /\ a \in AccountCandidates(f, n) <=> a \in Hits(f)
<1> DEFINE n == Cardinality(Accounts)
           f == Filter(TRUE, wanted)
           H == Hits(f)
           L == InOrder(H)
           m == Cardinality(H)
<1>1. H \in SUBSET Accounts
  BY DEF Hits
<1>2. /\ m \in Nat /\ n \in Nat /\ m <= n
      /\ L \in Seq(H) /\ Len(L) = m
      /\ \A b \in H : \E i \in 1..m : L[i] = b
  BY <1>1, InOrderIsSorted
<1>3. f.tops = FALSE /\ f.parents = {}
  BY DEF Filter
<1>4. \A limit : AccountList(f, limit) = UpTo(L, limit)
  BY DEF AccountList
<1> HIDE DEF f, H, L, n, m
<1>5. AccountList(f, n) = L
  <2>1. UpTo(L, n) = SubSeq(L, 1, Len(L))
    BY <1>2 DEF UpTo
  <2>2. SubSeq(L, 1, Len(L)) = L
    BY <1>2
  <2> QED
    BY <1>4, <2>1, <2>2
<1>6. a \in AccountCandidates(f, n) <=> a \in H
  <2>1. AccountCandidates(f, n) = ToSet(L)
    BY <1>3, <1>5 DEF AccountCandidates, Matches, ToSet
  <2>2. ToSet(L) = H
    BY <1>2 DEF ToSet
  <2> QED
    BY <2>1, <2>2
<1>7. ASSUME NEW k \in 0..(n - 1)
      PROVE  AccountPage(f, 1, k).items = IF k < m THEN <<L[k + 1]>> ELSE << >>
  <2>1. AccountPage(f, 1, k).items
          = SubSeq(UpTo(L, 1 + k), k + 1, Len(UpTo(L, 1 + k)))
    BY <1>4 DEF AccountPage
  <2>2. k \in Nat
    BY <1>2
  <2>3. CASE k < m
    <3>1. UpTo(L, 1 + k) = SubSeq(L, 1, k + 1)
      BY <1>2, <2>2, <2>3 DEF UpTo
    <3>2. /\ SubSeq(L, 1, k + 1) \in Seq(H) /\ Len(SubSeq(L, 1, k + 1)) = k + 1
          /\ SubSeq(L, 1, k + 1)[k + 1] = L[k + 1]
      BY <1>2, <2>2, <2>3
    <3> DEFINE p == SubSeq(L, 1, k + 1)
    <3> HIDE DEF p
    <3>3. SubSeq(p, k + 1, k + 1) = <<p[k + 1]>>
      <4> DEFINE q == SubSeq(p, k + 1, k + 1)
      <4>1. p \in Seq(H) /\ Len(p) = k + 1 /\ k + 1 \in Nat
        BY <2>2, <3>2 DEF p
      <4>2. q \in Seq(H) /\ Len(q) = 1 /\ q[1] = p[k + 1]
        BY <2>2, <4>1
      <4> HIDE DEF q
      <4>3. q = <<p[k + 1]>>
        BY <4>2
      <4> QED
        BY <4>3 DEF q
    <3> QED
      BY <2>1, <2>3, <3>1, <3>2, <3>3 DEF p
  <2>4. CASE ~(k < m)
    <3>1. UpTo(L, 1 + k) = SubSeq(L, 1, m)
      BY <1>2, <2>2, <2>4 DEF UpTo
    <3>2. SubSeq(L, 1, m) = L
      BY <1>2
    <3>3. SubSeq(L, k + 1, m) = << >>
      BY <1>2, <2>2, <2>4
    <3> QED
      BY <1>2, <2>1, <2>4, <3>1, <3>2, <3>3
  <2> QED
    BY <2>3, <2>4
<1>8. (\E k \in 0..(n - 1) : a \in ToSet(AccountPage(f, 1, k).items)) <=> a \in H
  <2>1. ASSUME NEW k \in 0..(n - 1), a \in ToSet(AccountPage(f, 1, k).items)
        PROVE  a \in H
    <3>1. CASE k < m
      <4>1. ToSet(<<L[k + 1]>>) = {L[k + 1]} /\ k + 1 \in 1..m
        BY <1>2, <3>1 DEF ToSet
      <4>2. AccountPage(f, 1, k).items = <<L[k + 1]>>
        BY <1>7, <3>1
      <4>3. a = L[k + 1]
        BY <2>1, <4>1, <4>2
      <4> QED
        BY <1>2, <4>1, <4>3
    <3>2. CASE ~(k < m)
      <4>1. ToSet(<< >>) = {}
        BY DEF ToSet
      <4>2. AccountPage(f, 1, k).items = << >>
        BY <1>7, <3>2
      <4> QED
        BY <2>1, <4>1, <4>2
    <3> QED
      BY <3>1, <3>2
  <2>2. ASSUME a \in H
        PROVE  \E k \in 0..(n - 1) : a \in ToSet(AccountPage(f, 1, k).items)
    <3>1. PICK i \in 1..m : L[i] = a
      BY <1>2, <2>2
    <3>2. PICK k \in 0..(n - 1) : i = k + 1 /\ k < m
      BY <1>2
    <3>3. AccountPage(f, 1, k).items = <<a>>
      BY <1>7, <3>1, <3>2
    <3> QED
      BY <3>3 DEF ToSet
  <2> QED
    BY <2>1, <2>2
<1> QED
  BY <1>6, <1>8 DEF f, H, n

\* A reference validates for a set of classifications iff the account is there, is
\* neither deleted nor inactive, and what it has of a classification is among them.
LEMMA WhatValidates ==
  ASSUME NEW a, NEW classes
  PROVE  ValidateReference(a, TRUE, {}, classes) = "VALID"
           <=> /\ InChart(a) /\ ~coaRow[a].deleted /\ coaRow[a].active
               /\ ClassOf(a) = "" \/ classes = {} \/ ClassOf(a) \in classes
  BY DEF ValidateReference, Matches

\* Paging, candidates, validation, usage and resolution agree about every stored
\* account, for every chart and in every state of the synchronisation.
THEOREM AnswersAgreeHolds == CoaSpec => []AnswersAgree
<1>1. AnswersAgree
  <2> SUFFICES ASSUME NEW a \in Accounts, InChart(a), NEW class
               PROVE  LET wanted    == {class} \ {""}
                          n         == Cardinality(Accounts)
                          Valid(cs) == ValidateReference(a, TRUE, {}, cs) = "VALID"
                          listed    == \E k \in 0..n - 1 :
                                          a \in ToSet(AccountPage(Filter(TRUE, wanted), 1, k).items)
                      IN /\ listed <=> a \in AccountCandidates(Filter(TRUE, wanted), n)
                         /\ listed <=> Valid(wanted) /\ (wanted = {} \/ ClassOf(a) # "")
                         /\ Valid(wanted) => ResolveReference(a) = [resolved |-> TRUE, reason |-> "OK"]
                         /\ \A usage \in DOMAIN UsageRules :
                               /\ class \in UsageRules[usage] /\ ClassOf(a) # ""
                               => (Valid(UsageRules[usage])
                                     <=> UsageAnswer(a, usage) = [allowed |-> TRUE, warning |-> "none"])
    BY DEF AnswersAgree
  <2> DEFINE wanted    == {class} \ {""}
             n         == Cardinality(Accounts)
             Valid(cs) == ValidateReference(a, TRUE, {}, cs) = "VALID"
             listed    == \E k \in 0..n - 1 :
                             a \in ToSet(AccountPage(Filter(TRUE, wanted), 1, k).items)
  <2>1. /\ listed <=> a \in Hits(Filter(TRUE, wanted))
        /\ a \in AccountCandidates(Filter(TRUE, wanted), n) <=> a \in Hits(Filter(TRUE, wanted))
    BY PagesAndCandidates
  <2>2. a \in Hits(Filter(TRUE, wanted))
          <=> /\ ~coaRow[a].deleted /\ coaRow[a].active
              /\ wanted = {} \/ ClassOf(a) \in wanted
    BY DEF Hits, Filter, Matches
  <2>3. \A cs : Valid(cs) <=> /\ ~coaRow[a].deleted /\ coaRow[a].active
                              /\ ClassOf(a) = "" \/ cs = {} \/ ClassOf(a) \in cs
    BY WhatValidates
  <2>4. listed <=> Valid(wanted) /\ (wanted = {} \/ ClassOf(a) # "")
    <3> HIDE DEF listed, Valid
    <3> QED
      BY <2>1, <2>2, <2>3
  <2>5. Valid(wanted) => ResolveReference(a) = [resolved |-> TRUE, reason |-> "OK"]
    <3> HIDE DEF Valid
    <3> QED
      BY <2>3 DEF ResolveReference
  <2>6. ASSUME NEW usage \in DOMAIN UsageRules, class \in UsageRules[usage], ClassOf(a) # ""
        PROVE  Valid(UsageRules[usage])
                 <=> UsageAnswer(a, usage) = [allowed |-> TRUE, warning |-> "none"]
    <3> HIDE DEF Valid
    <3>1. Valid(UsageRules[usage]) <=> /\ ~coaRow[a].deleted /\ coaRow[a].active
                                       /\ ClassOf(a) \in UsageRules[usage]
      BY <2>3, <2>6
    <3>2. UsageAnswer(a, usage) = UsageEvaluation(a, usage)
      BY DEF UsageAnswer
    <3>3. UsageEvaluation(a, usage) = [allowed |-> TRUE, warning |-> "none"]
            <=> /\ ~coaRow[a].deleted /\ coaRow[a].active
                /\ ClassOf(a) \in UsageRules[usage]
      BY <2>6 DEF UsageEvaluation
    <3> QED
      BY <3>1, <3>2, <3>3
  <2> QED
    BY <2>1, <2>4, <2>5, <2>6
<1> QED
  BY <1>1, PTL

=============================================================================
