------------------------- MODULE SyncPromiseProofs --------------------------
(***************************************************************************)
(* Proofs about what TransactionSync promises to whoever reads its tables, *)
(* for any transactions, runs, page sizes, chunks and retries, on the      *)
(* invariants of TransactionSyncProofs.  What a report says of its run;    *)
(* what a backfill that is alone has still to find (UnderWay); that a      *)
(* snapshot and the transaction beside it are of one history (Agreement);  *)
(* and that a transaction nobody has stored is one that the next           *)
(* incremental run will still ask for.                                     *)
(***************************************************************************)
EXTENDS TransactionSyncProofs, OrderLemmas

-----------------------------------------------------------------------------
(* What the report of a run says, and what its backfills have still to     *)
(* find.  A pass is the time a run spends at one entity type of its list.  *)

InPass(where) == where \notin {"new", "entity", "finish", "ended"}

SomeFailed(entities) == \E i \in DOMAIN entities : entities[i] = "FAILED"

\* The rows of the passes of a list that is through.
Closed(rows, list) ==
    /\ Len(rows.entities) = Len(list)
    /\ \A i \in DOMAIN rows.entities : rows.entities[i] \in {"COMPLETED", "FAILED"}
    /\ rows.status = "PARTIAL" <=> SomeFailed(rows.entities)

\* The uncommitted report of a run under way: one row per pass.
Counted(a, where) ==
    /\ a.report.status = "RUNNING"
    /\ Len(a.report.entities) = Len(a.initial)
    /\ Len(a.initial) = IF where = "entity" THEN a.n - 1
                        ELSE IF where = "finish" THEN Len(a.list) ELSE a.n
    /\ \A i \in DOMAIN a.report.entities :
          IF InPass(where) /\ i = a.n THEN a.report.entities[i] = "RUNNING"
          ELSE a.report.entities[i] \in {"COMPLETED", "FAILED"}
    /\ a.result = "PARTIAL" <=> SomeFailed(a.report.entities)

\* The same with the committed rows.
Reported(a, where, rows) ==
    /\ where = "new" => rows = NoReport
    /\ where \notin {"new", "ended"} =>
          Counted(a, where) /\ rows.status \in {"ABSENT", "RUNNING"}
    /\ where = "ended" =>
          (rows.status \in {"COMPLETED", "PARTIAL"} => Closed(rows, a.list))
    /\ where # "new" => Len(rows.entities) <= Len(a.initial)

ReportsAreTrue == \A r \in Runs : Reported(run[r], pc[r], syncRun[r])

\* A transaction that is not kept as it was found is before a backfill still, or
\* among the records it has fetched.
Sought(a, where, t) ==
    /\ a.mode = "BACKFILL" /\ EntityOf[t] = a.list[a.n]
    /\ remote[t].live /\ a.initial[a.n][t] <= remote[t].version
    /\ \/ where = "fetch" /\ a.pos <= Position(t)
       \/ where # "fetch" /\ \E rec \in a.seen : rec.id = t /\ a.initial[a.n][t] <= rec.version
       \/ where # "fetch" /\ a.more /\ a.pos + Cardinality(a.answer) <= Position(t)

Stored(entities, initial, k) ==
    \A i \in DOMAIN entities :
        entities[i] = "COMPLETED" => \A t \in Txns : initial[i][t] <= k[t]

Finds(a, where, rows, k) ==
    /\ where # "new" => Stored(rows.entities, a.initial, k)
    /\ where \notin {"new", "ended"} => Stored(a.report.entities, a.initial, k)
    /\ InPass(where) =>
          \A t \in Txns : a.initial[a.n][t] <= k[t] \/ Sought(a, where, t)

BackfillsFind == \A r \in Runs : Finds(run[r], pc[r], syncRun[r], kept)

\* A step within a pass leaves the report and what is to be found alone.
LEMMA PassStep ==
  ASSUME SyncInv, NEW r \in Runs,
         \/ FetchChanges(r) \/ FetchPage(r) \/ Look(r) \/ Write(r)
         \/ CommitAnswer(r) \/ MissCheckpoint(r)
         \/ AdvanceCheckpoint(r) /\ run[r].mode = "BACKFILL" /\ run[r].more
  PROVE  /\ InPass(pc[r]) /\ InPass(pc'[r])
         /\ run' = [run EXCEPT ![r] = run'[r]]
         /\ pc' = [pc EXCEPT ![r] = pc'[r]]
         /\ run'[r].list = run[r].list /\ run'[r].n = run[r].n
         /\ run'[r].mode = run[r].mode /\ run'[r].initial = run[r].initial
         /\ run'[r].report = run[r].report /\ run'[r].result = run[r].result
         /\ \/ syncRun' = syncRun
            \/ syncRun' = [syncRun EXCEPT ![r] = run[r].report]
<1>1. /\ pc = [q \in Runs |-> pc[q]] /\ run = [q \in Runs |-> run[q]]
  BY DEF SyncInv, SharedOK
<1>2. pc[r] # "new" => run[r] \in Run
  BY RunFacts
<1>3. CASE FetchChanges(r)
  <2>1. PICK answer : \E where \in {"commit", "look"} :
          /\ run' = [run EXCEPT ![r] =
                       [run[r] EXCEPT !.page = answer, !.answer = answer,
                                      !.seen = run[r].seen \cup answer]]
          /\ pc' = [pc EXCEPT ![r] = where]
    BY <1>3 DEF FetchChanges
  <2>2. pc[r] = "fetch" /\ syncRun' = syncRun
    BY <1>3 DEF FetchChanges
  <2> QED
    BY <1>1, <1>2, <2>1, <2>2 DEF InPass, Run
<1>4. CASE FetchPage(r)
  BY <1>1, <1>2, <1>4 DEF FetchPage, InPass, Run
<1>5. CASE Look(r)
  BY <1>1, <1>2, <1>5 DEF Look, InPass, Run
<1>6. CASE Write(r)
  BY <1>1, <1>2, <1>6 DEF Write, InPass, Run
<1>7. CASE CommitAnswer(r)
  BY <1>1, <1>2, <1>7 DEF CommitAnswer, InPass, Run
<1>8. CASE MissCheckpoint(r)
  BY <1>1, <1>2, <1>8 DEF MissCheckpoint, InPass, Run
<1>9. CASE AdvanceCheckpoint(r) /\ run[r].mode = "BACKFILL" /\ run[r].more
  BY <1>1, <1>2, <1>9 DEF AdvanceCheckpoint, InPass, Run
<1> QED
  BY <1>3, <1>4, <1>5, <1>6, <1>7, <1>8, <1>9

-----------------------------------------------------------------------------
(* The report.                                                             *)

LEMMA ReportedStep ==
  ASSUME SyncInv, ReportsAreTrue, NEW r \in Runs, NEW a, NEW where, NEW rows,
         run' = [run EXCEPT ![r] = a],
         pc' = [pc EXCEPT ![r] = where],
         syncRun' = [syncRun EXCEPT ![r] = rows],
         Reported(a, where, rows)
  PROVE  ReportsAreTrue'
<1>1. /\ pc = [q \in Runs |-> pc[q]] /\ run = [q \in Runs |-> run[q]]
      /\ syncRun \in [Runs -> Report]
  BY DEF SyncInv, SharedOK
<1>2. ASSUME NEW q \in Runs PROVE Reported(run'[q], pc'[q], syncRun'[q])
  <2>1. CASE q = r
    BY <1>1, <2>1
  <2>2. CASE q # r
    BY <1>1, <2>2 DEF ReportsAreTrue
  <2> QED
    BY <2>1, <2>2
<1> QED
  BY <1>2 DEF ReportsAreTrue

\* Within a pass.
LEMMA ReportedInPass ==
  ASSUME NEW a, NEW where, NEW rows, Reported(a, where, rows), InPass(where),
         NEW b, NEW there, InPass(there),
         b.list = a.list, b.n = a.n, b.report = a.report, b.result = a.result,
         Len(b.initial) = Len(a.initial)
  PROVE  /\ Reported(b, there, rows)
         /\ Len(a.initial) \in Nat => Reported(b, there, a.report)
<1>1. Counted(a, where) /\ rows.status \in {"ABSENT", "RUNNING"}
      /\ Len(rows.entities) <= Len(a.initial)
  BY DEF Reported, InPass
<1>2. Counted(b, there)
  BY <1>1 DEF Counted, InPass
<1> QED
  BY <1>1, <1>2 DEF Reported, InPass, Counted

LEMMA ReportedPassStep ==
  ASSUME SyncInv, ReportsAreTrue, NEW r \in Runs,
         \/ FetchChanges(r) \/ FetchPage(r) \/ Look(r) \/ Write(r)
         \/ CommitAnswer(r) \/ MissCheckpoint(r)
         \/ AdvanceCheckpoint(r) /\ run[r].mode = "BACKFILL" /\ run[r].more
  PROVE  ReportsAreTrue'
<1>1. /\ InPass(pc[r]) /\ InPass(pc'[r])
      /\ run' = [run EXCEPT ![r] = run'[r]]
      /\ pc' = [pc EXCEPT ![r] = pc'[r]]
      /\ run'[r].list = run[r].list /\ run'[r].n = run[r].n
      /\ run'[r].initial = run[r].initial
      /\ run'[r].report = run[r].report /\ run'[r].result = run[r].result
      /\ \/ syncRun' = syncRun
         \/ syncRun' = [syncRun EXCEPT ![r] = run[r].report]
  BY PassStep
<1>2. Reported(run[r], pc[r], syncRun[r])
  BY DEF ReportsAreTrue
<1>3. Len(run[r].initial) \in Nat
  <2>1. run[r] \in Run
    BY <1>1, RunFacts DEF InPass
  <2> QED
    BY <2>1, LenProperties DEF Run
<1>4. Reported(run'[r], pc'[r], syncRun[r]) /\ Reported(run'[r], pc'[r], run[r].report)
  BY <1>1, <1>2, <1>3, ReportedInPass
<1>5. syncRun = [syncRun EXCEPT ![r] = syncRun[r]]
  BY DEF SyncInv, SharedOK
<1> QED
  BY <1>1, <1>4, <1>5, ReportedStep

\* Leaving an entity closes its pass.
LEMMA LeftFields ==
  ASSUME SyncInv, NEW r \in Runs, pc[r] # "new", NEW outcome \in {"COMPLETED", "FAILED"}
  PROVE  LET a == Left(r, outcome) IN
         /\ a.list = run[r].list /\ a.initial = run[r].initial
         /\ a.mode = run[r].mode
         /\ a.n = IF run[r].n < Len(run[r].list) THEN run[r].n + 1 ELSE run[r].n
         /\ a.result = RunStatus(run[r].result, outcome)
         /\ a.report.status = run[r].report.status
         /\ a.report.entities = [run[r].report.entities EXCEPT ![run[r].n] = outcome]
<1>1. run[r] \in Run
  BY RunFacts
<1> QED
  BY <1>1 DEF Left, Cleared, Run, Report

LEMMA LeftReported ==
  ASSUME SyncInv, NEW r \in Runs, InPass(pc[r]), NEW outcome \in {"COMPLETED", "FAILED"},
         NEW rows, Reported(run[r], pc[r], rows)
  PROVE  Reported(Left(r, outcome), AfterEntity(r), rows)
<1> DEFINE a == run[r]
           b == Left(r, outcome)
           there == AfterEntity(r)
           old == a.report.entities
           new == b.report.entities
<1>1. /\ a \in Run /\ Len(a.list) \in Nat \ {0} /\ a.n \in 1..Len(a.list)
      /\ pc[r] # "new"
  BY RunFacts DEF Started, InPass
<1>2. /\ old \in Seq(Status) /\ outcome \in Status /\ a.n \in Nat
  BY <1>1 DEF Run, Report, Status
<1>3. /\ b.list = a.list /\ b.initial = a.initial
      /\ b.n = IF a.n < Len(a.list) THEN a.n + 1 ELSE a.n
      /\ b.result = RunStatus(a.result, outcome)
      /\ b.report.status = a.report.status
      /\ new = [old EXCEPT ![a.n] = outcome]
  BY <1>1, LeftFields
<1>4. /\ Counted(a, pc[r]) /\ rows.status \in {"ABSENT", "RUNNING"}
      /\ Len(rows.entities) <= Len(a.initial)
  BY DEF Reported, InPass
<1>5. /\ new \in Seq(Status) /\ Len(new) = Len(old)
      /\ \A j \in 1..Len(old) : new[j] = IF j = a.n THEN outcome ELSE old[j]
  BY <1>2, <1>3, ReplacedIn
<1>6. DOMAIN new = 1..Len(old) /\ DOMAIN old = 1..Len(old)
  BY <1>2, <1>5
<1>7. there = IF a.n < Len(a.list) THEN "entity" ELSE "finish"
  BY DEF AfterEntity
<1> HIDE DEF a, b, there, old, new
<1>8. /\ a.report.status = "RUNNING"
      /\ Len(a.report.entities) = a.n /\ Len(a.initial) = a.n
      /\ \A i \in DOMAIN old : i # a.n => old[i] \in {"COMPLETED", "FAILED"}
      /\ a.n \in DOMAIN old => old[a.n] = "RUNNING"
      /\ a.result = "PARTIAL" <=> SomeFailed(old)
  BY <1>4, <1>6 DEF Counted, InPass, old, a
<1>9. a.n \in DOMAIN old
  BY <1>1, <1>6, <1>8 DEF old
<1>10. \A i \in DOMAIN new : new[i] \in {"COMPLETED", "FAILED"}
  BY <1>5, <1>6, <1>8
<1>11. b.result = "PARTIAL" <=> SomeFailed(new)
  <2>1. SomeFailed(new) <=> outcome = "FAILED" \/ SomeFailed(old)
    BY <1>5, <1>6, <1>8, <1>9 DEF SomeFailed
  <2> QED
    BY <1>3, <1>8, <2>1 DEF RunStatus
<1>12. Counted(b, there)
  BY <1>1, <1>3, <1>5, <1>7, <1>8, <1>10, <1>11 DEF Counted, InPass, new, old
<1>13. Len(rows.entities) <= Len(b.initial)
  BY <1>3, <1>4 DEF a
<1> QED
  BY <1>4, <1>7, <1>12, <1>13 DEF Reported, a, b, there

LEMMA OverFields ==
  ASSUME NEW a \in Run
  PROVE  Over(a).list = a.list /\ Over(a).initial = a.initial /\ Over(a).mode = a.mode
  BY DEF Over, Cleared, Run

LEMMA ReportedLeave ==
  ASSUME SyncInv, ReportsAreTrue, NEW r \in Runs, InPass(pc[r]),
         NEW outcome \in {"COMPLETED", "FAILED"},
         NEW rows \in {syncRun[r], run[r].report},
         run' = [run EXCEPT ![r] = Left(r, outcome)],
         pc' = [pc EXCEPT ![r] = AfterEntity(r)],
         syncRun' = [syncRun EXCEPT ![r] = rows]
  PROVE  ReportsAreTrue'
<1>1. Reported(run[r], pc[r], syncRun[r])
  BY DEF ReportsAreTrue
<1>2. Len(run[r].initial) \in Nat
  <2>1. run[r] \in Run
    BY RunFacts DEF InPass
  <2> QED
    BY <2>1, LenProperties DEF Run
<1>3. Reported(run[r], pc[r], rows)
  BY <1>1, <1>2, ReportedInPass
<1>4. Reported(Left(r, outcome), AfterEntity(r), rows)
  BY <1>3, LeftReported
<1> QED
  BY <1>4, ReportedStep

\* The rows of a run that ends, as they were or closed by complete_sync_run.
LEMMA ReportedEnd ==
  ASSUME SyncInv, ReportsAreTrue, NEW r \in Runs, Active(r), NEW rows,
         rows.status \in {"COMPLETED", "PARTIAL"} => Closed(rows, run[r].list),
         Len(rows.entities) <= Len(run[r].initial),
         run' = [run EXCEPT ![r] = Over(run[r])],
         pc' = [pc EXCEPT ![r] = "ended"],
         syncRun' = [syncRun EXCEPT ![r] = rows]
  PROVE  ReportsAreTrue'
<1>1. run[r] \in Run
  BY RunFacts DEF Active
<1>2. Reported(Over(run[r]), "ended", rows)
  BY <1>1, OverFields DEF Reported
<1> QED
  BY <1>2, ReportedStep

LEMMA ReportedAbandon ==
  ASSUME SyncInv, ReportsAreTrue, NEW r \in Runs, Active(r), Abandon(r)
  PROVE  ReportsAreTrue'
<1>1. syncRun' = [syncRun EXCEPT ![r] = syncRun[r]]
  BY DEF Abandon, SyncInv, SharedOK
<1>2. Reported(run[r], pc[r], syncRun[r])
  BY DEF ReportsAreTrue
<1>3. /\ syncRun[r].status \in {"ABSENT", "RUNNING"}
      /\ Len(syncRun[r].entities) <= Len(run[r].initial)
  BY <1>2 DEF Reported, Active
<1> QED
  BY <1>1, <1>3, ReportedEnd DEF Abandon

LEMMA ReportedFinish ==
  ASSUME SyncInv, ReportsAreTrue, NEW r \in Runs, Finish(r)
  PROVE  ReportsAreTrue'
<1> DEFINE rows == [run[r].report EXCEPT !.status = run[r].result]
<1>1. /\ pc[r] = "finish" /\ Active(r)
      /\ run' = [run EXCEPT ![r] = Over(run[r])]
      /\ pc' = [pc EXCEPT ![r] = "ended"]
      /\ syncRun' = [syncRun EXCEPT ![r] = rows]
  BY DEF Finish, Active
<1>2. run[r] \in Run
  BY <1>1, RunFacts
<1>3. Counted(run[r], pc[r])
  BY <1>1 DEF ReportsAreTrue, Reported
<1>4. rows.status = run[r].result /\ rows.entities = run[r].report.entities
  BY <1>2 DEF Run, Report
<1>5. Len(run[r].initial) \in Nat
  BY <1>2, LenProperties DEF Run
<1> HIDE DEF rows
<1>6. Closed(rows, run[r].list) /\ Len(rows.entities) <= Len(run[r].initial)
  BY <1>1, <1>3, <1>4, <1>5 DEF Counted, Closed, InPass
<1> QED
  BY <1>1, <1>6, ReportedEnd

LEMMA BeginFields ==
  ASSUME NEW r \in Runs, Begin(r)
  PROVE  \E a : /\ run' = [run EXCEPT ![r] = a]
               /\ a.n = 1 /\ a.initial = << >> /\ a.result = "RUNNING"
               /\ a.report = [NoReport EXCEPT !.status = "RUNNING"]
<1>1. PICK request \in Requests :
      run' = [run EXCEPT ![r] =
          [mode |-> request[1], list |-> request[2], n |-> 1, cp |-> None,
           windows |-> << >>,
           until |-> 0, since |-> 0, pos |-> 0,
           more |-> FALSE, page |-> {}, answer |-> {}, looked |-> None,
           seen |-> {}, result |-> "RUNNING",
           report |-> [NoReport EXCEPT !.status = "RUNNING"],
           initial |-> << >>]]
  BY DEF Begin
<1> DEFINE report == [NoReport EXCEPT !.status = "RUNNING"]
           a == [mode |-> request[1], list |-> request[2], n |-> 1, cp |-> None,
                 windows |-> << >>,
                 until |-> 0, since |-> 0, pos |-> 0,
                 more |-> FALSE, page |-> {}, answer |-> {}, looked |-> None,
                 seen |-> {}, result |-> "RUNNING",
                 report |-> report,
                 initial |-> << >>]
<1>2. a.n = 1 /\ a.initial = << >> /\ a.result = "RUNNING" /\ a.report = report
  OBVIOUS
<1>3. run' = [run EXCEPT ![r] = a]
  BY <1>1
<1> HIDE DEF a
<1> QED
  BY <1>2, <1>3

LEMMA ReportedBegin ==
  ASSUME SyncInv, ReportsAreTrue, NEW r \in Runs, Begin(r)
  PROVE  ReportsAreTrue'
<1>1. PICK a : /\ run' = [run EXCEPT ![r] = a]
               /\ a.n = 1 /\ a.initial = << >> /\ a.result = "RUNNING"
               /\ a.report = [NoReport EXCEPT !.status = "RUNNING"]
  BY BeginFields
<1>2. /\ pc' = [pc EXCEPT ![r] = "entity"]
      /\ syncRun' = [syncRun EXCEPT ![r] = syncRun[r]]
  BY DEF Begin, SyncInv, SharedOK
<1>3. syncRun[r] = NoReport
  BY DEF Begin, ReportsAreTrue, Reported
<1>4. a.report.status = "RUNNING" /\ a.report.entities = << >>
  BY <1>1 DEF NoReport
<1>5. Counted(a, "entity")
  BY <1>1, <1>4 DEF Counted, InPass, SomeFailed
<1>6. Reported(a, "entity", syncRun[r])
  BY <1>1, <1>3, <1>5 DEF Reported, NoReport
<1> QED
  BY <1>1, <1>2, <1>6, ReportedStep

LEMMA EnterFields ==
  ASSUME SyncInv, NEW r \in Runs, EnterEntity(r)
  PROVE  /\ run' = [run EXCEPT ![r] = run'[r]]
         /\ run[r].report.entities \in Seq(Status)
         /\ run[r].initial \in Seq([Txns -> Nat])
         /\ run'[r].report.status = run[r].report.status
         /\ run'[r].report.entities = Append(run[r].report.entities, "RUNNING")
         /\ run'[r].initial = Append(run[r].initial, ToFind(run[r].mode, Entity(r)))
         /\ run'[r].list = run[r].list /\ run'[r].n = run[r].n
         /\ run'[r].mode = run[r].mode /\ run'[r].result = run[r].result
         /\ run'[r].pos = 0
         /\ ToFind(run[r].mode, Entity(r)) \in [Txns -> Nat]
<1>1. run[r] \in Run /\ run = [q \in Runs |-> run[q]]
  BY RunFacts DEF EnterEntity, SyncInv, SharedOK
<1>2. ToFind(run[r].mode, Entity(r)) \in [Txns -> Nat]
  <2>1. remote \in [Txns -> [version : Nat, at : Int, live : BOOLEAN]]
    BY DEF SyncInv, SharedOK
  <2> QED
    BY <2>1 DEF ToFind
<1> QED
  BY <1>1, <1>2 DEF EnterEntity, Run, Report

LEMMA ReportedEnter ==
  ASSUME SyncInv, ReportsAreTrue, NEW r \in Runs, EnterEntity(r)
  PROVE  ReportsAreTrue'
<1> DEFINE a == run[r]
           b == run'[r]
           old == a.report.entities
           new == b.report.entities
<1>1. /\ pc[r] = "entity" /\ pc' = [pc EXCEPT ![r] = "fetch"]
      /\ syncRun' = [syncRun EXCEPT ![r] = syncRun[r]]
      /\ a \in Run /\ a.n \in Nat
  BY RunFacts DEF EnterEntity, SyncInv, SharedOK, Run
<1>2. /\ run' = [run EXCEPT ![r] = b]
      /\ old \in Seq(Status) /\ a.initial \in Seq([Txns -> Nat])
      /\ b.report.status = a.report.status
      /\ new = Append(old, "RUNNING")
      /\ \E x \in [Txns -> Nat] : b.initial = Append(a.initial, x)
      /\ b.list = a.list /\ b.n = a.n /\ b.result = a.result
  BY EnterFields
<1>3. /\ Counted(a, "entity") /\ syncRun[r].status \in {"ABSENT", "RUNNING"}
      /\ Len(syncRun[r].entities) <= Len(a.initial)
      /\ Len(syncRun[r].entities) \in Nat
  <2>1. syncRun[r].entities \in Seq(Status)
    BY DEF SyncInv, SharedOK, Report
  <2> QED
    BY <1>1, <2>1, LenProperties DEF ReportsAreTrue, Reported
<1> HIDE DEF a, b, old, new
<1>4. /\ Len(a.initial) \in Nat /\ Len(old) \in Nat
      /\ Len(b.initial) = Len(a.initial) + 1 /\ Len(new) = Len(old) + 1
      /\ \A j \in 1..Len(new) : new[j] = IF j = Len(old) + 1 THEN "RUNNING" ELSE old[j]
      /\ DOMAIN new = 1..(Len(old) + 1) /\ DOMAIN old = 1..Len(old)
  <2>1. "RUNNING" \in Status
    BY DEF Status
  <2>2. Len(a.initial) \in Nat /\ Len(b.initial) = Len(a.initial) + 1
    BY <1>2, AppendProperties, LenProperties
  <2>3. Len(old) \in Nat /\ DOMAIN old = 1..Len(old)
    BY <1>2, LenProperties
  <2>4. /\ Len(new) = Len(old) + 1
        /\ \A j \in 1..Len(old) : new[j] = old[j]
        /\ new[Len(old) + 1] = "RUNNING"
        /\ new \in Seq(Status)
    BY <1>2, <2>1, AppendProperties
  <2>5. DOMAIN new = 1..(Len(old) + 1)
    BY <2>4, LenProperties
  <2> QED
    BY <2>2, <2>3, <2>4, <2>5
<1>5. /\ Len(old) = Len(a.initial) /\ Len(a.initial) = a.n - 1
      /\ \A i \in DOMAIN old : old[i] \in {"COMPLETED", "FAILED"}
      /\ a.result = "PARTIAL" <=> SomeFailed(old)
      /\ a.report.status = "RUNNING"
  BY <1>3 DEF Counted, old, InPass
<1>6. SomeFailed(new) <=> SomeFailed(old)
  BY <1>4 DEF SomeFailed
<1>7. Counted(b, "fetch")
  <2>1. a.n = Len(old) + 1 /\ b.n = a.n /\ Len(new) = a.n /\ Len(b.initial) = a.n
    BY <1>1, <1>2, <1>4, <1>5
  <2>2. \A i \in DOMAIN new : IF i = b.n THEN new[i] = "RUNNING"
                              ELSE new[i] \in {"COMPLETED", "FAILED"}
    BY <1>4, <1>5, <2>1
  <2>3. b.result = "PARTIAL" <=> SomeFailed(new)
    BY <1>2, <1>5, <1>6
  <2>4. b.report.status = "RUNNING"
    BY <1>2, <1>5
  <2> QED
    BY <2>1, <2>2, <2>3, <2>4 DEF Counted, InPass, new
<1>8. Reported(b, "fetch", syncRun[r])
  BY <1>3, <1>4, <1>7 DEF Reported
<1> QED
  BY <1>1, <1>2, <1>8, ReportedStep

LEMMA ReportedDelete ==
  ASSUME SyncInv, ReportsAreTrue, NEW t \in Txns, Delete(t)
  PROVE  ReportsAreTrue'
<1> SUFFICES ASSUME NEW r \in Runs PROVE Reported(run'[r], pc'[r], syncRun'[r])
  BY DEF ReportsAreTrue
<1>1. pc' = pc /\ syncRun' = syncRun /\ Reported(run[r], pc[r], syncRun[r])
  BY DEF Delete, ReportsAreTrue
<1>2. CASE ~IsAt(r, EntityOf[t])
  BY <1>1, <1>2 DEF Delete
<1>3. CASE IsAt(r, EntityOf[t])
  <2> DEFINE initial == [run[r].initial EXCEPT ![run[r].n] = NothingToFind]
             b == [run[r] EXCEPT !.initial = initial]
  <2>1. run'[r] = b
    BY <1>3 DEF Delete
  <2>2. run[r] \in Run /\ InPass(pc[r])
    BY <1>3, RunFacts DEF IsAt, Active, InPass
  <2>3. Len(initial) = Len(run[r].initial)
    <3>1. run[r].initial \in Seq([Txns -> Nat]) /\ NothingToFind \in [Txns -> Nat]
      BY <2>2 DEF Run, NothingToFind
    <3>2. run[r].n \in Nat
      BY <2>2 DEF Run
    <3> QED
      BY <3>1, <3>2, ReplacedIn
  <2> HIDE DEF initial
  <2>4. /\ b.list = run[r].list /\ b.n = run[r].n /\ b.report = run[r].report
        /\ b.result = run[r].result /\ b.initial = initial
    BY <2>2 DEF Run
  <2> HIDE DEF b
  <2> QED
    BY <1>1, <2>1, <2>2, <2>3, <2>4, ReportedInPass
<1> QED
  BY <1>2, <1>3

LEMMA ReportedNext ==
  ASSUME SyncInv, ReportsAreTrue, [Next]_vars
  PROVE  ReportsAreTrue'
<1>1. CASE UNCHANGED vars
  BY <1>1 DEF vars, ReportsAreTrue
<1>2. ASSUME NEW r \in Runs, Step(r) PROVE ReportsAreTrue'
  <2>1. CASE \/ FetchChanges(r) \/ FetchPage(r) \/ Look(r) \/ Write(r)
             \/ CommitAnswer(r) \/ MissCheckpoint(r)
    BY <2>1, ReportedPassStep
  <2>2. CASE RefuseWindow(r) \/ NoMorePages(r) \/ RequestFails(r)
    <3>1. PICK outcome \in {"COMPLETED", "FAILED"} : LeaveEntity(r, outcome)
      BY <2>2 DEF RefuseWindow, NoMorePages, RequestFails
    <3>2. InPass(pc[r])
      BY <2>2 DEF RefuseWindow, NoMorePages, RequestFails, InPass
    <3>3. syncRun' = [syncRun EXCEPT ![r] = syncRun[r]]
      BY <3>1 DEF LeaveEntity, SyncInv, SharedOK
    <3> QED
      BY <3>1, <3>2, <3>3, ReportedLeave DEF LeaveEntity
  <2>3. CASE AdvanceCheckpoint(r)
    <3>1. CASE run[r].mode = "BACKFILL" /\ run[r].more
      BY <2>3, <3>1, ReportedPassStep
    <3>2. CASE ~(run[r].mode = "BACKFILL" /\ run[r].more)
      <4>1. /\ run' = [run EXCEPT ![r] = Left(r, "COMPLETED")]
            /\ pc' = [pc EXCEPT ![r] = AfterEntity(r)]
            /\ syncRun' = [syncRun EXCEPT ![r] = run[r].report]
            /\ InPass(pc[r])
        BY <2>3, <3>2 DEF AdvanceCheckpoint, InPass
      <4> QED
        BY <4>1, ReportedLeave
    <3> QED
      BY <3>1, <3>2
  <2>4. CASE DatabaseError(r) \/ CheckpointConflict(r) \/ Crash(r)
    BY <2>4, ReportedAbandon DEF DatabaseError, CheckpointConflict, Crash, Active
  <2> QED
    BY <1>2, <2>1, <2>2, <2>3, <2>4, ReportedBegin, ReportedEnter, ReportedFinish DEF Step
<1>3. CASE Tick \/ \E t \in Txns : Edit(t)
  BY <1>3 DEF Tick, Edit, ReportsAreTrue
<1>4. ASSUME NEW t \in Txns, Delete(t) PROVE ReportsAreTrue'
  BY <1>4, ReportedDelete
<1> QED
  BY <1>1, <1>2, <1>3, <1>4 DEF Next

\* A run that ended by itself has one row for each entity type of its list, and
\* its status says whether one of them failed.
THEOREM ReportIsHonestHolds == Spec => []ReportIsHonest
<1>1. Init => ReportsAreTrue
  BY DEF Init, ReportsAreTrue, Reported, NoReport
<1>2. SyncInv /\ ReportsAreTrue /\ [Next]_vars => ReportsAreTrue'
  BY ReportedNext
<1>3. ReportsAreTrue => ReportIsHonest
  <2> SUFFICES ASSUME ReportsAreTrue, NEW r \in Runs,
                      syncRun[r].status \in {"COMPLETED", "PARTIAL"}
               PROVE  Closed(syncRun[r], run[r].list)
    BY DEF ReportIsHonest, Closed, SomeFailed
  <2> QED
    BY DEF ReportsAreTrue, Reported, NoReport
<1> QED
  BY <1>1, <1>2, <1>3, SyncInvariance, PTL DEF Spec

-----------------------------------------------------------------------------
(* Backfills.                                                              *)

LEMMA ExistingFacts ==
  ASSUME NEW e
  PROVE  /\ Existing(e) \in SUBSET Nat /\ Existing(e) \in SUBSET Txns
         /\ IsFiniteSet(Existing(e))
         /\ \A t \in Existing(e) : EntityOf[t] = e /\ Position(t) = RankIn(Existing(e), t)
         /\ \A pos : PageAt(e, pos) = RankPage(Existing(e), pos, PageSize)
<1>1. Existing(e) \in SUBSET Nat /\ Existing(e) \in SUBSET Txns
  BY SyncAssumption DEF Existing, OfEntity
<1>2. IsFiniteSet(Existing(e))
  BY <1>1, FS_Subset, SyncAssumption
<1>3. \A t \in Existing(e) : EntityOf[t] = e /\ Position(t) = RankIn(Existing(e), t)
  <2>1. \A t \in Existing(e) : EntityOf[t] = e
    BY DEF Existing, OfEntity
  <2> QED
    BY <2>1 DEF Position, RankIn
<1>4. ASSUME NEW pos PROVE PageAt(e, pos) = RankPage(Existing(e), pos, PageSize)
  BY <1>3 DEF PageAt, RankPage
<1> QED
  BY <1>1, <1>2, <1>3, <1>4

LEMMA PositionType ==
  ASSUME NEW t \in Txns
  PROVE  Position(t) \in Nat
  BY ExistingFacts, RankType DEF Position, RankIn

\* A transaction that is not yet before the position of a page is on the page, or
\* the page is full and more follow.
LEMMA PageReaches ==
  ASSUME NEW e, NEW pos \in Nat, NEW t \in Existing(e), pos <= Position(t)
  PROVE  LET S == PageAt(e, pos) IN
         \/ t \in S
         \/ /\ Cardinality(S) = PageSize /\ S # {}
            /\ HasMore(Cardinality(S), pos, Cardinality(Existing(e)))
            /\ pos + Cardinality(S) <= Position(t)
<1> DEFINE E == Existing(e)
           S == PageAt(e, pos)
<1>1. /\ E \in SUBSET Nat /\ IsFiniteSet(E) /\ Position(t) = RankIn(E, t)
      /\ S = RankPage(E, pos, PageSize)
  BY ExistingFacts
<1>2. PageSize \in Nat \ {0}
  BY SyncAssumption
<1>3. RankIn(E, t) \in 0..(Cardinality(E) - 1) /\ Cardinality(E) \in Nat
  BY <1>1, RankBelowSize, FS_CardinalityType
<1>4. CASE RankIn(E, t) < pos + PageSize
  <2>1. RankIn(E, t) \in pos..(pos + PageSize - 1)
    BY <1>1, <1>2, <1>3, <1>4
  <2> QED
    BY <1>1, <2>1 DEF RankPage
<1>5. CASE ~(RankIn(E, t) < pos + PageSize)
  <2>1. pos + PageSize <= Cardinality(E)
    BY <1>2, <1>3, <1>5
  <2>2. Cardinality(S) = PageSize
    BY <1>1, <1>2, <2>1, RankPageSize
  <2>3. S # {}
    BY <1>2, <2>2, FS_EmptySet
  <2>4. HasMore(Cardinality(S), pos, Cardinality(E))
    BY <1>2, <1>3, <1>5, <2>2 DEF HasMore
  <2> QED
    BY <1>1, <1>2, <1>3, <1>5, <2>2, <2>3, <2>4
<1> QED
  BY <1>4, <1>5

\* What each pass had to find are numbers.
LEMMA InitialFacts ==
  ASSUME SyncInv, ReportsAreTrue, NEW r \in Runs, pc[r] # "new"
  PROVE  /\ run[r] \in Run /\ run[r].n \in Nat
         /\ run[r].initial \in Seq([Txns -> Nat])
         /\ run[r].report.entities \in Seq(Status)
         /\ DOMAIN syncRun[r].entities \subseteq DOMAIN run[r].initial
         /\ pc[r] # "ended" => DOMAIN run[r].report.entities = DOMAIN run[r].initial
         /\ InPass(pc[r]) => run[r].n \in DOMAIN run[r].initial
         /\ \A i \in DOMAIN run[r].initial, t \in Txns : run[r].initial[i][t] \in Nat
<1> DEFINE a == run[r]
<1>1. a \in Run /\ Started(a, pc[r], checkpoint) /\ Reported(a, pc[r], syncRun[r])
  BY RunFacts DEF ReportsAreTrue
<1>2. /\ a.initial \in Seq([Txns -> Nat]) /\ a.report.entities \in Seq(Status)
      /\ syncRun[r].entities \in Seq(Status)
  BY <1>1 DEF Run, Report, SyncInv, SharedOK
<1>3. /\ DOMAIN a.initial = 1..Len(a.initial) /\ Len(a.initial) \in Nat
      /\ DOMAIN a.report.entities = 1..Len(a.report.entities)
      /\ DOMAIN syncRun[r].entities = 1..Len(syncRun[r].entities)
      /\ Len(syncRun[r].entities) \in Nat
  BY <1>2, LenProperties
<1>4. Len(syncRun[r].entities) <= Len(a.initial)
  BY <1>1 DEF Reported
<1>5. pc[r] # "ended" => Len(a.report.entities) = Len(a.initial)
  BY <1>1 DEF Reported, Counted
<1>6. InPass(pc[r]) => Len(a.initial) = a.n
  BY <1>1 DEF Reported, Counted, InPass
<1>7. a.n \in Nat /\ a.n >= 1
  BY <1>1 DEF Started, Run
<1>8. \A i \in 1..Len(a.initial) : a.initial[i] \in [Txns -> Nat]
  BY <1>2, ElementOfSeq
<1> HIDE DEF a
<1>9. \A i \in DOMAIN a.initial, t \in Txns : a.initial[i][t] \in Nat
  BY <1>3, <1>8
<1>10. DOMAIN syncRun[r].entities \subseteq DOMAIN a.initial
  BY <1>3, <1>4
<1> QED
  BY <1>1, <1>2, <1>3, <1>5, <1>6, <1>7, <1>9, <1>10 DEF a

LEMMA StoredStays ==
  ASSUME NEW entities, NEW initial, NEW k \in [Txns -> Nat], NEW k2 \in [Txns -> Nat],
         \A t \in Txns : k[t] <= k2[t],
         \A i \in DOMAIN entities, t \in Txns : initial[i][t] \in Nat,
         Stored(entities, initial, k)
  PROVE  Stored(entities, initial, k2)
<1> SUFFICES ASSUME NEW i \in DOMAIN entities, entities[i] = "COMPLETED", NEW t \in Txns
             PROVE  initial[i][t] <= k2[t]
  BY DEF Stored
<1>1. initial[i][t] <= k[t] /\ initial[i][t] \in Nat /\ k[t] \in Nat /\ k2[t] \in Nat /\ k[t] <= k2[t]
  BY DEF Stored
<1> QED
  BY <1>1

\* What is kept only grows.
LEMMA FindsStays ==
  ASSUME SyncInv, ReportsAreTrue, NEW r \in Runs,
         NEW k2 \in [Txns -> Nat], \A t \in Txns : kept[t] <= k2[t],
         Finds(run[r], pc[r], syncRun[r], kept)
  PROVE  Finds(run[r], pc[r], syncRun[r], k2)
<1> SUFFICES ASSUME pc[r] # "new" PROVE Finds(run[r], pc[r], syncRun[r], k2)
  BY DEF Finds, InPass
<1> DEFINE a == run[r]
<1>1. kept \in [Txns -> Nat]
  BY DEF SyncInv, SharedOK
<1>2. /\ DOMAIN syncRun[r].entities \subseteq DOMAIN a.initial
      /\ pc[r] # "ended" => DOMAIN a.report.entities = DOMAIN a.initial
      /\ InPass(pc[r]) => a.n \in DOMAIN a.initial
      /\ \A i \in DOMAIN a.initial, t \in Txns : a.initial[i][t] \in Nat
  BY InitialFacts
<1>3. Stored(syncRun[r].entities, a.initial, k2)
  BY <1>1, <1>2, StoredStays DEF Finds
<1>4. pc[r] # "ended" => Stored(a.report.entities, a.initial, k2)
  BY <1>1, <1>2, StoredStays DEF Finds
<1>5. ASSUME InPass(pc[r]), NEW t \in Txns
      PROVE  a.initial[a.n][t] <= k2[t] \/ Sought(a, pc[r], t)
  <2>1. a.initial[a.n][t] <= kept[t] \/ Sought(a, pc[r], t)
    BY <1>5 DEF Finds
  <2>2. a.initial[a.n][t] \in Nat /\ kept[t] \in Nat /\ k2[t] \in Nat /\ kept[t] <= k2[t]
    BY <1>1, <1>2, <1>5
  <2> QED
    BY <2>1, <2>2
<1> QED
  BY <1>3, <1>4, <1>5 DEF Finds

LEMMA FindsStep ==
  ASSUME SyncInv, BackfillsFind, NEW r \in Runs, NEW a, NEW where, NEW rows,
         run' = [run EXCEPT ![r] = a],
         pc' = [pc EXCEPT ![r] = where],
         syncRun' = [syncRun EXCEPT ![r] = rows],
         remote' = remote, kept' \in [Txns -> Nat],
         \A t \in Txns : kept[t] <= kept'[t],
         ReportsAreTrue,
         Finds(a, where, rows, kept')
  PROVE  BackfillsFind'
<1>1. /\ pc = [q \in Runs |-> pc[q]] /\ run = [q \in Runs |-> run[q]]
      /\ syncRun \in [Runs -> Report] /\ kept \in [Txns -> Nat]
  BY DEF SyncInv, SharedOK
<1>2. \A b, w, t : Sought(b, w, t)' <=> Sought(b, w, t)
  BY DEF Sought, Position, Existing
<1>3. \A b, w, x, k : Finds(b, w, x, k)' <=> Finds(b, w, x, k)
  BY <1>2 DEF Finds
<1>4. ASSUME NEW q \in Runs PROVE Finds(run'[q], pc'[q], syncRun'[q], kept')
  <2>1. CASE q = r
    BY <1>1, <2>1
  <2>2. CASE q # r
    <3>1. run'[q] = run[q] /\ pc'[q] = pc[q] /\ syncRun'[q] = syncRun[q]
      BY <1>1, <2>2
    <3>2. Finds(run[q], pc[q], syncRun[q], kept')
      BY FindsStays DEF BackfillsFind
    <3> QED
      BY <3>1, <3>2
  <2> QED
    BY <2>1, <2>2
<1> QED
  BY <1>3, <1>4 DEF BackfillsFind

LEMMA FindsPassStep ==
  ASSUME SyncInv, ReportsAreTrue, BackfillsFind, NEW r \in Runs,
         \/ FetchChanges(r) \/ FetchPage(r) \/ Look(r) \/ Write(r)
         \/ CommitAnswer(r) \/ MissCheckpoint(r)
         \/ AdvanceCheckpoint(r) /\ run[r].mode = "BACKFILL" /\ run[r].more,
         remote' = remote, kept' \in [Txns -> Nat],
         \A t \in Txns : kept[t] <= kept'[t],
         \A t \in Txns : Sought(run[r], pc[r], t) =>
             run[r].initial[run[r].n][t] <= kept'[t] \/ Sought(run'[r], pc'[r], t)
  PROVE  BackfillsFind'
<1> DEFINE a == run[r]
           b == run'[r]
           there == pc'[r]
<1>1. /\ InPass(pc[r]) /\ InPass(there)
      /\ run' = [run EXCEPT ![r] = b] /\ pc' = [pc EXCEPT ![r] = there]
      /\ b.n = a.n /\ b.initial = a.initial /\ b.report = a.report
      /\ \/ syncRun' = syncRun
         \/ syncRun' = [syncRun EXCEPT ![r] = a.report]
  BY PassStep
<1>2. Finds(a, pc[r], syncRun[r], kept')
  BY FindsStays DEF BackfillsFind
<1>3. syncRun = [syncRun EXCEPT ![r] = syncRun[r]]
  BY DEF SyncInv, SharedOK
<1>4. PICK rows \in {syncRun[r], a.report} : syncRun' = [syncRun EXCEPT ![r] = rows]
  BY <1>1, <1>3
<1>5. Finds(b, there, rows, kept')
  <2> HIDE DEF a, b, there
  <2>1. Stored(rows.entities, a.initial, kept') /\ Stored(a.report.entities, a.initial, kept')
    BY <1>1, <1>2, <1>4 DEF Finds, InPass, a
  <2>2. \A t \in Txns : a.initial[a.n][t] <= kept'[t] \/ Sought(b, there, t)
    BY <1>1, <1>2 DEF Finds, a, b, there
  <2> QED
    BY <1>1, <2>1, <2>2 DEF Finds
<1> QED
  BY <1>1, <1>4, <1>5, FindsStep

LEMMA FindsFetchChanges ==
  ASSUME SyncInv, ReportsAreTrue, BackfillsFind, NEW r \in Runs, FetchChanges(r)
  PROVE  BackfillsFind'
<1>1. remote' = remote /\ kept' = kept /\ run[r].mode = "INCREMENTAL" /\ kept \in [Txns -> Nat]
  BY DEF FetchChanges, SyncInv, SharedOK
<1>2. \A t \in Txns : ~Sought(run[r], pc[r], t)
  BY <1>1 DEF Sought
<1> QED
  BY <1>1, <1>2, FindsPassStep

\* An answer has a record for each transaction.
LEMMA AnswerSize ==
  ASSUME NEW S \in SUBSET Txns
  PROVE  Cardinality({AsRecord(t) : t \in S}) = Cardinality(S)
<1> DEFINE answer == {AsRecord(t) : t \in S}
           f == [t \in S |-> AsRecord(t)]
<1>1. IsFiniteSet(S)
  BY FS_Subset, SyncAssumption
<1>2. f \in Surjection(S, answer)
  BY DEF Surjection
<1>3. \A t, u \in S : f[t] = f[u] => t = u
  BY DEF AsRecord
<1>4. f \in Injection(S, answer)
  <2>1. f \in [S -> answer]
    OBVIOUS
  <2> HIDE DEF f, answer
  <2> QED
    BY <1>3, <2>1 DEF Injection, IsInjective
<1> HIDE DEF f, answer
<1>5. Cardinality(answer) = Cardinality(S)
  BY <1>1, <1>2, <1>4, FS_Surjection
<1> QED
  BY <1>5 DEF answer

\* The page that is fetched has what the backfill had before it, unless that is
\* behind the page.
LEMMA FindsFetchPage ==
  ASSUME SyncInv, ReportsAreTrue, BackfillsFind, NEW r \in Runs, FetchPage(r)
  PROVE  BackfillsFind'
<1> DEFINE a == run[r]
           b == run'[r]
           e == Entity(r)
           S == PageAt(e, a.pos)
           answer == {AsRecord(t) : t \in S}
<1>1. /\ remote' = remote /\ kept' = kept /\ kept \in [Txns -> Nat]
      /\ pc[r] = "fetch" /\ pc'[r] = "look" /\ a \in Run
  BY RunFacts DEF FetchPage, SyncInv, SharedOK
<1>2. /\ b.answer = answer /\ b.seen = a.seen \cup answer
      /\ b.more = HasMore(Cardinality(S), a.pos, Cardinality(Existing(e)))
      /\ b.pos = a.pos /\ b.mode = a.mode /\ b.list = a.list /\ b.n = a.n
      /\ b.initial = a.initial
  BY <1>1 DEF FetchPage, Run, SyncInv, SharedOK
<1>3. a.pos \in Nat
  BY <1>1 DEF Run
<1>4. Cardinality(answer) = Cardinality(S)
  <2>1. S \in SUBSET Txns
    BY DEF PageAt, Existing, OfEntity
  <2> QED
    BY <2>1, AnswerSize
<1>5. ASSUME NEW t \in Txns, Sought(a, pc[r], t) PROVE Sought(b, pc'[r], t)
  <2>1. /\ a.mode = "BACKFILL" /\ EntityOf[t] = a.list[a.n] /\ remote[t].live
        /\ a.initial[a.n][t] <= remote[t].version /\ a.pos <= Position(t)
    BY <1>1, <1>5 DEF Sought
  <2>2. t \in Existing(e)
    BY <2>1 DEF Existing, OfEntity, Entity
  <2>3. CASE t \in S
    <3>1. AsRecord(t) \in b.seen /\ AsRecord(t).id = t
          /\ AsRecord(t).version = remote[t].version
      BY <1>2, <2>3 DEF AsRecord
    <3> QED
      BY <1>1, <1>2, <2>1, <3>1 DEF Sought
  <2>4. CASE /\ HasMore(Cardinality(S), a.pos, Cardinality(Existing(e)))
             /\ a.pos + Cardinality(S) <= Position(t)
    BY <1>1, <1>2, <1>4, <2>1, <2>4 DEF Sought
  <2> QED
    BY <1>3, <2>1, <2>2, <2>3, <2>4, PageReaches
<1> QED
  BY <1>1, <1>5, FindsPassStep

\* Persisting leaves the records and the page as they were fetched.
LEMMA FindsPersist ==
  ASSUME SyncInv, ReportsAreTrue, BackfillsFind, NEW r \in Runs,
         Look(r) \/ Write(r) \/ CommitAnswer(r) \/ MissCheckpoint(r),
         kept' \in [Txns -> Nat], \A t \in Txns : kept[t] <= kept'[t]
  PROVE  BackfillsFind'
<1>1. remote' = remote
  BY DEF Look, Write, CommitAnswer, MissCheckpoint
<1>2. /\ pc[r] # "fetch" /\ run[r] \in Run
      /\ run[r].mode = "BACKFILL" => pc'[r] # "fetch"
      /\ run'[r].seen = run[r].seen /\ run'[r].answer = run[r].answer
      /\ run'[r].more = run[r].more /\ run'[r].pos = run[r].pos
  <2>1. run[r] \in Run
    BY RunFacts DEF Look, Write, CommitAnswer, MissCheckpoint
  <2>2. CASE Look(r)
    BY <2>1, <2>2 DEF Look, Run, SyncInv, SharedOK
  <2>3. CASE Write(r)
    BY <2>1, <2>3 DEF Write, Run, SyncInv, SharedOK
  <2>4. CASE CommitAnswer(r)
    BY <2>1, <2>4 DEF CommitAnswer, Run, SyncInv, SharedOK
  <2>5. CASE MissCheckpoint(r)
    BY <2>1, <2>5 DEF MissCheckpoint, SyncInv, SharedOK
  <2> QED
    BY <2>1, <2>2, <2>3, <2>4, <2>5
<1>3. /\ run'[r].list = run[r].list /\ run'[r].n = run[r].n
      /\ run'[r].mode = run[r].mode /\ run'[r].initial = run[r].initial
  BY PassStep
<1>4. ASSUME NEW t \in Txns, Sought(run[r], pc[r], t) PROVE Sought(run'[r], pc'[r], t)
  BY <1>2, <1>3, <1>4 DEF Sought
<1> QED
  BY <1>1, <1>4, FindsPassStep

\* At a checkpoint all that was fetched is kept; what is not is behind the page.
LEMMA CheckpointFound ==
  ASSUME SyncInv, ReportsAreTrue, BackfillsFind, NEW r \in Runs,
         pc[r] \in {"mark", "insert"}, NEW t \in Txns,
         ~(run[r].initial[run[r].n][t] <= kept[t])
  PROVE  /\ run[r].mode = "BACKFILL" /\ run[r].more
         /\ EntityOf[t] = run[r].list[run[r].n] /\ remote[t].live
         /\ run[r].initial[run[r].n][t] <= remote[t].version
         /\ run[r].pos + Cardinality(run[r].answer) <= Position(t)
<1> DEFINE a == run[r]
<1>1. Sought(a, pc[r], t)
  BY DEF BackfillsFind, Finds, InPass
<1>2. /\ a \in Run /\ Typed(a, pc[r], draft[r]) /\ Accounted(a, pc[r], draft[r], kept)
      /\ kept \in [Txns -> Nat]
  BY RunFacts DEF SyncInv, SharedOK
<1>3. a.initial[a.n][t] \in Nat
  BY InitialFacts DEF InPass
<1>4. ASSUME NEW rec \in a.seen, rec.id = t, a.initial[a.n][t] <= rec.version PROVE FALSE
  <2>1. rec.version <= kept[rec.id] /\ rec \in Record
    BY <1>2, NoDraftFacts DEF Accounted, Typed, Held, Run
  <2>2. rec.version \in Nat /\ kept[t] \in Nat
    BY <1>2, <2>1 DEF Record
  <2> QED
    BY <1>3, <1>4, <2>1, <2>2
<1> QED
  BY <1>1, <1>4 DEF Sought

LEMMA FindsAdvancePage ==
  ASSUME SyncInv, ReportsAreTrue, BackfillsFind, NEW r \in Runs,
         AdvanceCheckpoint(r), run[r].mode = "BACKFILL", run[r].more
  PROVE  BackfillsFind'
<1>1. /\ remote' = remote /\ kept' = kept /\ kept \in [Txns -> Nat]
      /\ pc[r] \in {"mark", "insert"} /\ pc'[r] = "fetch" /\ run[r] \in Run
  BY RunFacts DEF AdvanceCheckpoint, SyncInv, SharedOK
<1>2. run'[r].pos = run[r].pos + Cardinality(run[r].answer)
  BY <1>1 DEF AdvanceCheckpoint, Run, SyncInv, SharedOK
<1>3. /\ run'[r].list = run[r].list /\ run'[r].n = run[r].n
      /\ run'[r].mode = run[r].mode /\ run'[r].initial = run[r].initial
  BY PassStep
<1>4. ASSUME NEW t \in Txns, Sought(run[r], pc[r], t),
             ~(run[r].initial[run[r].n][t] <= kept[t])
      PROVE  Sought(run'[r], pc'[r], t)
  BY <1>1, <1>2, <1>3, <1>4, CheckpointFound DEF Sought
<1> QED
  BY <1>1, <1>4, FindsPassStep

\* A pass that is closed COMPLETED has found everything; one that failed need not.
LEMMA FindsLeave ==
  ASSUME SyncInv, ReportsAreTrue, BackfillsFind, NEW r \in Runs, InPass(pc[r]),
         NEW outcome \in {"COMPLETED", "FAILED"},
         outcome = "COMPLETED" =>
             \A t \in Txns : run[r].initial[run[r].n][t] <= kept[t],
         NEW rows \in {syncRun[r], run[r].report},
         run' = [run EXCEPT ![r] = Left(r, outcome)],
         pc' = [pc EXCEPT ![r] = AfterEntity(r)],
         syncRun' = [syncRun EXCEPT ![r] = rows],
         remote' = remote, kept' = kept
  PROVE  BackfillsFind'
<1> DEFINE a == run[r]
           b == Left(r, outcome)
<1>1. /\ Finds(a, pc[r], syncRun[r], kept) /\ pc[r] \notin {"new", "ended"}
      /\ kept \in [Txns -> Nat]
  BY DEF BackfillsFind, InPass, SyncInv, SharedOK
<1>2. /\ b.initial = a.initial
      /\ b.report.entities = [a.report.entities EXCEPT ![a.n] = outcome]
  BY <1>1, LeftFields
<1>3. a.report.entities \in Seq(Status) /\ a.n \in Nat /\ outcome \in Status
  BY <1>1, InitialFacts DEF Status
<1>4. /\ DOMAIN b.report.entities = DOMAIN a.report.entities
      /\ \A j \in DOMAIN a.report.entities :
            b.report.entities[j] = IF j = a.n THEN outcome ELSE a.report.entities[j]
  BY <1>2
<1>5. Stored(rows.entities, a.initial, kept) /\ Stored(a.report.entities, a.initial, kept)
  BY <1>1 DEF Finds
<1>6. Stored(b.report.entities, b.initial, kept)
  BY <1>2, <1>4, <1>5 DEF Stored
<1>7. AfterEntity(r) \in {"entity", "finish"}
  BY DEF AfterEntity
<1> HIDE DEF b
<1>8. Finds(b, AfterEntity(r), rows, kept)
  BY <1>2, <1>5, <1>6, <1>7 DEF Finds, InPass
<1>9. \A t \in Txns : kept[t] <= kept'[t]
  BY <1>1
<1> QED
  BY <1>1, <1>8, <1>9, FindsStep DEF b

\* An empty page has nothing before it and nothing behind it.
LEMMA FindsNoMorePages ==
  ASSUME SyncInv, ReportsAreTrue, BackfillsFind, NEW r \in Runs, NoMorePages(r)
  PROVE  BackfillsFind'
<1>1. /\ pc[r] = "fetch" /\ InPass(pc[r]) /\ run[r] \in Run
      /\ PageAt(Entity(r), run[r].pos) = {}
  BY RunFacts DEF NoMorePages, InPass
<1>2. ASSUME NEW t \in Txns PROVE run[r].initial[run[r].n][t] <= kept[t]
  <2> SUFFICES ASSUME Sought(run[r], pc[r], t) PROVE FALSE
    BY <1>1 DEF BackfillsFind, Finds
  <2>1. t \in Existing(Entity(r)) /\ run[r].pos <= Position(t) /\ run[r].pos \in Nat
    BY <1>1 DEF Sought, Existing, OfEntity, Entity, Run
  <2> QED
    BY <1>1, <2>1, PageReaches
<1>3. syncRun' = [syncRun EXCEPT ![r] = syncRun[r]]
  BY DEF NoMorePages, LeaveEntity, SyncInv, SharedOK
<1> QED
  BY <1>1, <1>2, <1>3, FindsLeave DEF NoMorePages, LeaveEntity

LEMMA FindsFails ==
  ASSUME SyncInv, ReportsAreTrue, BackfillsFind, NEW r \in Runs,
         RefuseWindow(r) \/ RequestFails(r)
  PROVE  BackfillsFind'
<1>1. InPass(pc[r]) /\ LeaveEntity(r, "FAILED")
  BY DEF RefuseWindow, RequestFails, InPass
<1>2. syncRun' = [syncRun EXCEPT ![r] = syncRun[r]]
  BY <1>1 DEF LeaveEntity, SyncInv, SharedOK
<1> QED
  BY <1>1, <1>2, FindsLeave DEF LeaveEntity

LEMMA FindsAdvanceLast ==
  ASSUME SyncInv, ReportsAreTrue, BackfillsFind, NEW r \in Runs,
         AdvanceCheckpoint(r), ~(run[r].mode = "BACKFILL" /\ run[r].more)
  PROVE  BackfillsFind'
<1>1. /\ run' = [run EXCEPT ![r] = Left(r, "COMPLETED")]
      /\ pc' = [pc EXCEPT ![r] = AfterEntity(r)]
      /\ syncRun' = [syncRun EXCEPT ![r] = run[r].report]
      /\ pc[r] \in {"mark", "insert"} /\ InPass(pc[r])
      /\ remote' = remote /\ kept' = kept
  BY DEF AdvanceCheckpoint, InPass
<1>2. \A t \in Txns : run[r].initial[run[r].n][t] <= kept[t]
  BY <1>1, CheckpointFound
<1> QED
  BY <1>1, <1>2, FindsLeave

LEMMA FindsEnd ==
  ASSUME SyncInv, ReportsAreTrue, BackfillsFind, NEW r \in Runs,
         Finish(r) \/ (Active(r) /\ Abandon(r))
  PROVE  BackfillsFind'
<1>1. /\ run' = [run EXCEPT ![r] = Over(run[r])]
      /\ pc' = [pc EXCEPT ![r] = "ended"]
      /\ remote' = remote /\ kept' = kept /\ kept \in [Txns -> Nat]
      /\ pc[r] \notin {"new", "ended"} /\ run[r] \in Run
  BY RunFacts DEF Finish, Abandon, Active, SyncInv, SharedOK
<1>2. Finds(run[r], pc[r], syncRun[r], kept)
  BY DEF BackfillsFind
<1>3. PICK rows : /\ syncRun' = [syncRun EXCEPT ![r] = rows]
                  /\ \/ rows.entities = syncRun[r].entities
                     \/ rows.entities = run[r].report.entities
  <2>1. CASE Finish(r)
    <3>1. [run[r].report EXCEPT !.status = run[r].result].entities = run[r].report.entities
      BY <1>1 DEF Run, Report
    <3> QED
      BY <2>1, <3>1 DEF Finish
  <2>2. CASE Abandon(r)
    BY <2>2 DEF Abandon, SyncInv, SharedOK
  <2> QED
    BY <2>1, <2>2
<1>4. Finds(Over(run[r]), "ended", rows, kept)
  BY <1>1, <1>2, <1>3, OverFields DEF Finds, InPass
<1>5. \A t \in Txns : kept[t] <= kept'[t]
  BY <1>1
<1> QED
  BY <1>1, <1>3, <1>4, <1>5, FindsStep

LEMMA FindsBegin ==
  ASSUME SyncInv, ReportsAreTrue, BackfillsFind, NEW r \in Runs, Begin(r)
  PROVE  BackfillsFind'
<1>1. PICK a : /\ run' = [run EXCEPT ![r] = a]
               /\ a.n = 1 /\ a.initial = << >> /\ a.result = "RUNNING"
               /\ a.report = [NoReport EXCEPT !.status = "RUNNING"]
  BY BeginFields
<1>2. /\ pc' = [pc EXCEPT ![r] = "entity"]
      /\ syncRun' = [syncRun EXCEPT ![r] = syncRun[r]]
      /\ remote' = remote /\ kept' = kept /\ kept \in [Txns -> Nat]
  BY DEF Begin, SyncInv, SharedOK
<1>3. syncRun[r] = NoReport
  BY DEF Begin, ReportsAreTrue, Reported
<1>4. a.report.entities = << >> /\ NoReport.entities = << >>
  BY <1>1 DEF NoReport
<1>5. Finds(a, "entity", syncRun[r], kept)
  BY <1>3, <1>4 DEF Finds, InPass, Stored
<1>6. \A t \in Txns : kept[t] <= kept'[t]
  BY <1>2
<1> QED
  BY <1>1, <1>2, <1>5, <1>6, FindsStep

\* Everything that exists is before the first page.
LEMMA FindsEnter ==
  ASSUME SyncInv, ReportsAreTrue, BackfillsFind, NEW r \in Runs, EnterEntity(r)
  PROVE  BackfillsFind'
<1> DEFINE a == run[r]
           b == run'[r]
           found == ToFind(a.mode, Entity(r))
<1>1. /\ pc[r] = "entity" /\ pc' = [pc EXCEPT ![r] = "fetch"]
      /\ syncRun' = [syncRun EXCEPT ![r] = syncRun[r]]
      /\ remote' = remote /\ kept' = kept /\ kept \in [Txns -> Nat]
      /\ remote \in [Txns -> [version : Nat, at : Int, live : BOOLEAN]]
  BY DEF EnterEntity, SyncInv, SharedOK
<1>2. /\ run' = [run EXCEPT ![r] = b]
      /\ a.report.entities \in Seq(Status) /\ a.initial \in Seq([Txns -> Nat])
      /\ b.report.entities = Append(a.report.entities, "RUNNING")
      /\ b.initial = Append(a.initial, found)
      /\ b.list = a.list /\ b.n = a.n /\ b.mode = a.mode /\ b.pos = 0
      /\ found \in [Txns -> Nat]
  BY EnterFields
<1>3. /\ Counted(a, "entity") /\ a.n \in Nat
      /\ DOMAIN syncRun[r].entities \subseteq DOMAIN a.initial
      /\ DOMAIN a.report.entities = DOMAIN a.initial
  BY <1>1, InitialFacts DEF ReportsAreTrue, Reported
<1>4. Finds(a, "entity", syncRun[r], kept)
  BY <1>1 DEF BackfillsFind
<1> HIDE DEF a, b, found
<1>5. /\ Len(a.initial) \in Nat /\ DOMAIN a.initial = 1..Len(a.initial)
      /\ Len(a.initial) + 1 = a.n
      /\ \A i \in DOMAIN a.initial : b.initial[i] = a.initial[i]
      /\ b.initial[a.n] = found
  <2>1. Len(a.initial) \in Nat /\ DOMAIN a.initial = 1..Len(a.initial)
    BY <1>2, LenProperties
  <2>2. Len(a.initial) + 1 = a.n
    BY <1>3, <2>1 DEF Counted, InPass
  <2> QED
    BY <1>2, <2>1, <2>2, AppendProperties
<1>6. /\ DOMAIN b.report.entities = DOMAIN a.report.entities \cup {a.n}
      /\ \A i \in DOMAIN a.report.entities :
            b.report.entities[i] = a.report.entities[i]
      /\ b.report.entities[a.n] = "RUNNING"
  <2>1. "RUNNING" \in Status
    BY DEF Status
  <2>2. Len(a.report.entities) = Len(a.initial)
    BY <1>3 DEF Counted
  <2>3. b.report.entities \in Seq(Status)
        /\ Len(b.report.entities) = Len(a.report.entities) + 1
        /\ (\A i \in 1..Len(a.report.entities) :
              b.report.entities[i] = a.report.entities[i])
        /\ b.report.entities[Len(a.report.entities) + 1] = "RUNNING"
    BY <1>2, <2>1, AppendProperties
  <2>4. DOMAIN b.report.entities = 1..Len(b.report.entities)
    BY <2>3, LenProperties
  <2> QED
    BY <1>3, <1>5, <2>2, <2>3, <2>4
<1>7. Stored(syncRun[r].entities, b.initial, kept)
  <2>1. Stored(syncRun[r].entities, a.initial, kept)
    BY <1>4 DEF Finds
  <2> QED
    BY <1>3, <1>5, <2>1 DEF Stored
<1>8. Stored(b.report.entities, b.initial, kept)
  <2>1. Stored(a.report.entities, a.initial, kept)
    BY <1>4 DEF Finds
  <2> QED
    BY <1>3, <1>5, <1>6, <2>1 DEF Stored
<1>9. ASSUME NEW t \in Txns, ~(found[t] <= kept[t]) PROVE Sought(b, "fetch", t)
  <2>1. found[t] # 0
    BY <1>1, <1>9
  <2>2. /\ a.mode = "BACKFILL" /\ EntityOf[t] = Entity(r) /\ remote[t].live
        /\ found[t] = remote[t].version
    BY <2>1 DEF ToFind, found
  <2>3. remote[t].version \in Nat /\ Position(t) \in Nat
    BY <1>1, PositionType
  <2>4. Entity(r) = a.list[a.n]
    BY DEF Entity, a
  <2>5. found[t] <= remote[t].version /\ b.pos <= Position(t)
    BY <1>2, <2>2, <2>3
  <2> QED
    BY <1>2, <1>5, <2>2, <2>4, <2>5 DEF Sought
<1>10. Finds(b, "fetch", syncRun[r], kept)
  BY <1>2, <1>5, <1>7, <1>8, <1>9 DEF Finds, InPass
<1>11. \A t \in Txns : kept[t] <= kept'[t]
  BY <1>1
<1> QED
  BY <1>1, <1>2, <1>10, <1>11, FindsStep

\* An edit takes nothing away that a backfill looks for, nor moves it forward.
LEMMA FindsEdit ==
  ASSUME SyncInv, ReportsAreTrue, BackfillsFind, NEW t \in Txns, Edit(t)
  PROVE  BackfillsFind'
<1>1. /\ remote \in [Txns -> [version : Nat, at : Int, live : BOOLEAN]]
      /\ remote' = [remote EXCEPT ![t] = [version |-> remote[t].version + 1,
                                          at |-> clock, live |-> TRUE]]
      /\ UNCHANGED <<syncRun, pc, run, kept>>
  BY DEF Edit, SyncInv, SharedOK
<1>2. ASSUME NEW u \in Txns
      PROVE  /\ remote[u].live => remote'[u].live
             /\ remote[u].version <= remote'[u].version
             /\ remote[u].version \in Nat /\ remote'[u].version \in Nat
  BY <1>1
<1>3. ASSUME NEW u \in Txns PROVE Position(u) <= Position(u)' /\ Position(u)' \in Nat
  <2> DEFINE e == EntityOf[u]
             before == {v \in Existing(e) : v < u}
             after == {v \in Existing(e)' : v < u}
  <2>1. Existing(e) \subseteq Existing(e)' /\ Existing(e)' \in SUBSET Txns
    BY <1>2 DEF Existing, OfEntity
  <2>2. IsFiniteSet(after) /\ before \in SUBSET after
    <3>1. after \in SUBSET Txns
      BY <2>1
    <3> QED
      BY <2>1, <3>1, FS_Subset, SyncAssumption
  <2>3. Position(u) = Cardinality(before) /\ Position(u)' = Cardinality(after)
    BY DEF Position
  <2> HIDE DEF before, after
  <2> QED
    BY <2>2, <2>3, FS_Subset, FS_CardinalityType
<1>4. ASSUME NEW r \in Runs PROVE Finds(run[r], pc[r], syncRun[r], kept)'
  <2>1. Finds(run[r], pc[r], syncRun[r], kept)
    BY DEF BackfillsFind
  <2>2. ASSUME InPass(pc[r]), NEW u \in Txns, Sought(run[r], pc[r], u)
        PROVE  Sought(run[r], pc[r], u)'
    <3> DEFINE a == run[r]
    <3>1. a \in Run /\ a.initial[a.n][u] \in Nat
          /\ Cardinality(a.answer) \in Nat /\ a.pos \in Nat
      <4>1. a \in Run /\ Started(a, pc[r], checkpoint)
        BY <2>2, RunFacts DEF InPass
      <4>2. Cardinality(a.answer) \in Nat
        BY <4>1, FS_CardinalityType DEF Started
      <4>3. a.initial[a.n][u] \in Nat
        BY <2>2, InitialFacts DEF InPass
      <4> QED
        BY <4>1, <4>2, <4>3 DEF Run
    <3>2. Position(u) \in Nat
      BY PositionType
    <3>3. a.initial[a.n][u] <= remote'[u].version
      BY <1>2, <2>2, <3>1 DEF Sought
    <3>4. a.pos <= Position(u) => a.pos <= Position(u)'
      BY <1>3, <3>1, <3>2
    <3>5. a.pos + Cardinality(a.answer) <= Position(u)
            => a.pos + Cardinality(a.answer) <= Position(u)'
      BY <1>3, <3>1, <3>2
    <3> QED
      BY <1>1, <1>2, <2>2, <3>3, <3>4, <3>5 DEF Sought
  <2> QED
    BY <1>1, <2>1, <2>2 DEF Finds
<1> QED
  BY <1>4 DEF BackfillsFind

\* A deletion releases the backfills it could mislead, and no others.
LEMMA FindsDelete ==
  ASSUME SyncInv, ReportsAreTrue, BackfillsFind, NEW t \in Txns, Delete(t)
  PROVE  BackfillsFind'
<1>1. /\ remote \in [Txns -> [version : Nat, at : Int, live : BOOLEAN]]
      /\ remote' = [remote EXCEPT ![t] = [version |-> remote[t].version + 1,
                                          at |-> clock, live |-> FALSE]]
      /\ UNCHANGED <<syncRun, pc, kept>> /\ kept \in [Txns -> Nat]
  BY DEF Delete, SyncInv, SharedOK
<1> SUFFICES ASSUME NEW r \in Runs PROVE Finds(run[r], pc[r], syncRun[r], kept)'
  BY DEF BackfillsFind
<1>2. Finds(run[r], pc[r], syncRun[r], kept)
  BY DEF BackfillsFind
<1> DEFINE a == run[r]
<1>3. CASE IsAt(r, EntityOf[t])
  <2> DEFINE initial == [a.initial EXCEPT ![a.n] = NothingToFind]
             b == [a EXCEPT !.initial = initial]
  <2>1. run'[r] = b
    BY <1>3 DEF Delete
  <2>2. a \in Run /\ InPass(pc[r]) /\ pc[r] \notin {"new", "ended"}
    BY <1>3, RunFacts DEF IsAt, Active, InPass
  <2>3. /\ a.initial \in Seq([Txns -> Nat]) /\ a.n \in DOMAIN a.initial
        /\ DOMAIN syncRun[r].entities \subseteq DOMAIN a.initial
        /\ DOMAIN a.report.entities = DOMAIN a.initial
    BY <2>2, InitialFacts
  <2>4. /\ initial[a.n] = NothingToFind
        /\ \A i \in DOMAIN a.initial : i # a.n => initial[i] = a.initial[i]
    BY <2>3
  <2> HIDE DEF initial
  <2>5. b.initial = initial /\ b.n = a.n /\ b.report = a.report
    BY <2>2 DEF Run
  <2>6. \A u \in Txns : NothingToFind[u] <= kept[u]
    <3>1. \A u \in Txns : NothingToFind[u] = 0 /\ kept[u] \in Nat
      BY <1>1 DEF NothingToFind
    <3> QED
      BY <3>1
  <2> HIDE DEF b
  <2>7. ASSUME NEW entities, DOMAIN entities \subseteq DOMAIN a.initial,
               Stored(entities, a.initial, kept)
        PROVE  Stored(entities, initial, kept)
    BY <2>4, <2>6, <2>7 DEF Stored
  <2>8. Stored(syncRun[r].entities, initial, kept) /\ Stored(a.report.entities, initial, kept)
    BY <1>2, <2>2, <2>3, <2>7 DEF Finds
  <2> QED
    BY <1>1, <2>1, <2>2, <2>4, <2>5, <2>6, <2>8 DEF Finds
<1>4. CASE ~IsAt(r, EntityOf[t])
  <2>1. run'[r] = run[r]
    BY <1>4 DEF Delete
  <2>2. ASSUME InPass(pc[r]), NEW u \in Txns, Sought(a, pc[r], u)
        PROVE  Sought(a, pc[r], u)'
    <3>1. EntityOf[u] # EntityOf[t]
      BY <1>4, <2>2 DEF Sought, IsAt, Active, InPass
    <3>2. remote'[u] = remote[u]
      BY <1>1, <3>1
    <3>3. Existing(EntityOf[u])' = Existing(EntityOf[u])
      BY <1>1, <3>1 DEF Existing, OfEntity
    <3>4. Position(u)' = Position(u)
      BY <3>3 DEF Position
    <3> QED
      BY <1>1, <2>1, <2>2, <3>2, <3>4 DEF Sought
  <2> QED
    BY <1>1, <1>2, <2>1, <2>2 DEF Finds
<1> QED
  BY <1>3, <1>4

\* What is kept only grows.
LEMMA KeptGrows ==
  ASSUME SyncInv, NEW r \in Runs, Step(r)
  PROVE  kept' \in [Txns -> Nat] /\ \A t \in Txns : kept[t] <= kept'[t]
<1>1. kept \in [Txns -> Nat] /\ kept' \in [Txns -> Nat]
  <2>1. SyncInv'
    BY SyncNext DEF Next
  <2> QED
    BY <2>1 DEF SyncInv, SharedOK
<1>2. CASE CommitAnswer(r)
  <2>1. ASSUME NEW t \in Txns PROVE kept[t] <= kept'[t]
    <3>1. kept[t] \in Nat /\ kept'[t] = Newest(t, VisibleSnapshot(r, t))
      BY <1>1, <1>2 DEF CommitAnswer
    <3>2. kept'[t] = kept[t] \/ kept'[t] > kept[t]
      BY <3>1 DEF Newest
    <3> QED
      BY <1>1, <3>1, <3>2
  <2> QED
    BY <1>1, <2>1
<1>3. CASE ~CommitAnswer(r)
  <2>1. kept' = kept
    BY <1>3 DEF Step, Begin, EnterEntity, FetchChanges, RefuseWindow, FetchPage,
       NoMorePages, RequestFails, LeaveEntity, Look, Write, DatabaseError, Abandon,
       MissCheckpoint, AdvanceCheckpoint, CheckpointConflict, Finish, Crash
  <2> QED
    BY <1>1, <2>1
<1> QED
  BY <1>2, <1>3

LEMMA FindsNext ==
  ASSUME SyncInv, ReportsAreTrue, BackfillsFind, [Next]_vars
  PROVE  BackfillsFind'
<1>1. CASE UNCHANGED vars
  BY <1>1 DEF vars, BackfillsFind, Finds, Sought, Position, Existing
<1>2. ASSUME NEW r \in Runs, Step(r) PROVE BackfillsFind'
  <2>1. CASE Look(r) \/ Write(r) \/ CommitAnswer(r) \/ MissCheckpoint(r)
    <3>1. kept' \in [Txns -> Nat] /\ \A t \in Txns : kept[t] <= kept'[t]
      BY <1>2, KeptGrows
    <3> QED
      BY <2>1, <3>1, FindsPersist
  <2>2. CASE AdvanceCheckpoint(r)
    BY <2>2, FindsAdvancePage, FindsAdvanceLast
  <2>3. CASE DatabaseError(r) \/ CheckpointConflict(r) \/ Crash(r) \/ Finish(r)
    BY <2>3, FindsEnd DEF DatabaseError, CheckpointConflict, Crash, Active
  <2>4. CASE RefuseWindow(r) \/ RequestFails(r)
    BY <2>4, FindsFails
  <2> QED
    BY <1>2, <2>1, <2>2, <2>3, <2>4, FindsBegin, FindsEnter, FindsFetchChanges,
       FindsFetchPage, FindsNoMorePages DEF Step
<1>3. CASE Tick
  BY <1>3 DEF Tick, BackfillsFind, Finds, Sought, Position, Existing
<1>4. ASSUME NEW t \in Txns, Edit(t) \/ Delete(t) PROVE BackfillsFind'
  BY <1>4, FindsEdit, FindsDelete
<1> QED
  BY <1>1, <1>2, <1>3, <1>4 DEF Next

\* A backfill of an entity that is reported COMPLETED has stored, page by page and
\* between all other runs and edits, every transaction it had to find.
THEOREM BackfillIsCompleteHolds == Spec => []BackfillIsComplete
<1>1. Init => ReportsAreTrue /\ BackfillsFind
  BY DEF Init, ReportsAreTrue, Reported, NoReport, BackfillsFind, Finds, InPass
<1>2. SyncInv /\ ReportsAreTrue /\ BackfillsFind /\ [Next]_vars
        => ReportsAreTrue' /\ BackfillsFind'
  BY ReportedNext, FindsNext
<1>3. SyncInv /\ ReportsAreTrue /\ BackfillsFind => BackfillIsComplete
  <2> SUFFICES ASSUME SyncInv, ReportsAreTrue, BackfillsFind,
                      NEW r \in Runs, NEW k \in DOMAIN syncRun[r].entities,
                      syncRun[r].entities[k] = "COMPLETED", NEW t \in Txns
               PROVE  kept[t] >= run[r].initial[k][t]
    BY DEF BackfillIsComplete
  <2>1. pc[r] # "new"
    BY DEF ReportsAreTrue, Reported, NoReport
  <2>2. run[r].initial[k][t] <= kept[t]
    BY <2>1 DEF BackfillsFind, Finds, Stored
  <2>3. run[r].initial[k][t] \in Nat /\ kept[t] \in Nat
    BY <2>1, InitialFacts DEF SyncInv, SharedOK
  <2> QED
    BY <2>2, <2>3
<1> QED
  BY <1>1, <1>2, <1>3, SyncInvariance, PTL DEF Spec

-----------------------------------------------------------------------------
(* Snapshots and transactions.                                             *)

Lived(t, v) == v # 0 /\ (v < remote[t].version \/ remote[t].live)

\* A snapshot of version v beside a transaction of version x.
Agree(t, v, x) ==
    /\ v <= remote[t].version
    /\ Lived(t, v) /\ <<t, v>> \notin Unreadable => x # 0

DraftAgrees(d) ==
    \A t \in DOMAIN d : Agree(t, d[t].snapshot.version, d[t].txn)

\* Records are of versions the remote has had, and say so of a deletion.
PageAgrees(page) ==
    \A rec \in page :
        /\ rec.version # 0 /\ rec.version <= remote[rec.id].version
        /\ Lived(rec.id, rec.version) => ~rec.deleted

Agreement ==
    /\ \A t \in Txns : remote[t].live => remote[t].version # 0
    /\ \A t \in Txns : Agree(t, snapshot[t].version, txn[t])
    /\ \A r \in Runs : DraftAgrees(draft[r])
    /\ \A r \in Runs : pc[r] # "new" => PageAgrees(run[r].page)

LEMMA RunStepAgrees ==
  ASSUME SyncInv, Agreement, NEW r \in Runs, NEW a, NEW d,
         run' = [run EXCEPT ![r] = a], pc' = [pc EXCEPT ![r] = pc'[r]],
         draft' = [draft EXCEPT ![r] = d],
         UNCHANGED <<remote, snapshot, txn>>,
         DraftAgrees(d), PageAgrees(a.page)
  PROVE  Agreement'
<1>1. /\ pc = [q \in Runs |-> pc[q]] /\ run = [q \in Runs |-> run[q]]
      /\ draft = [q \in Runs |-> draft[q]]
  BY DEF SyncInv, SharedOK
<1>2. \A t, v, x : Agree(t, v, x)' <=> Agree(t, v, x)
  BY DEF Agree, Lived
<1>3. \A e : DraftAgrees(e)' <=> DraftAgrees(e)
  BY <1>2 DEF DraftAgrees
<1>4. \A page : PageAgrees(page)' <=> PageAgrees(page)
  BY DEF PageAgrees, Lived
<1>5. \A q \in Runs : DraftAgrees(draft'[q])
  BY <1>1 DEF Agreement
<1>6. \A q \in Runs : pc'[q] # "new" => PageAgrees(run'[q].page)
  BY <1>1 DEF Agreement
<1>7. /\ \A t \in Txns : remote'[t].live => remote'[t].version # 0
      /\ \A t \in Txns : Agree(t, snapshot'[t].version, txn'[t])
  BY DEF Agreement
<1> QED
  BY <1>2, <1>3, <1>4, <1>5, <1>6, <1>7 DEF Agreement

\* Steps that read nothing and write nothing.
LEMMA QuietAgrees ==
  ASSUME SyncInv, Agreement, NEW r \in Runs, NEW a,
         run' = [run EXCEPT ![r] = a], pc' = [pc EXCEPT ![r] = pc'[r]],
         UNCHANGED <<remote, snapshot, txn>>,
         \/ draft' = draft
         \/ draft' = [draft EXCEPT ![r] = NoDraft],
         \/ a.page = {}
         \/ pc[r] # "new" /\ a.page = run[r].page
  PROVE  Agreement'
<1>1. draft = [draft EXCEPT ![r] = draft[r]]
  BY DEF SyncInv, SharedOK
<1>2. PICK d \in {draft[r], NoDraft} : draft' = [draft EXCEPT ![r] = d]
  BY <1>1
<1>3. DraftAgrees(d)
  BY NoDraftFacts DEF DraftAgrees, Agreement
<1>4. PageAgrees(a.page)
  BY DEF Agreement, PageAgrees
<1> QED
  BY <1>2, <1>3, <1>4, RunStepAgrees

\* What the remote answers is so at that moment.
LEMMA AnswerAgrees ==
  ASSUME SyncInv, NEW S \in SUBSET Txns, \A t \in S : remote[t].version # 0
  PROVE  PageAgrees({AsRecord(t) : t \in S})
<1> SUFFICES ASSUME NEW t \in S
             PROVE  LET rec == AsRecord(t) IN
                    /\ rec.version # 0 /\ rec.version <= remote[rec.id].version
                    /\ Lived(rec.id, rec.version) => ~rec.deleted
  BY DEF PageAgrees
<1>1. remote[t].version \in Nat
  BY DEF SyncInv, SharedOK
<1>2. /\ AsRecord(t).id = t /\ AsRecord(t).version = remote[t].version
      /\ AsRecord(t).deleted = ~remote[t].live
  BY DEF AsRecord
<1>3. Lived(t, remote[t].version) => remote[t].live
  BY <1>1 DEF Lived
<1>4. remote[t].version <= remote[t].version
  BY <1>1
<1> HIDE DEF Lived
<1> QED
  BY <1>2, <1>3, <1>4

LEMMA FetchAgrees ==
  ASSUME SyncInv, Agreement, NEW r \in Runs, FetchChanges(r) \/ FetchPage(r)
  PROVE  Agreement'
<1>1. /\ run[r] \in Run /\ UNCHANGED <<remote, snapshot, txn, draft>>
      /\ run = [q \in Runs |-> run[q]]
  BY RunFacts DEF FetchChanges, FetchPage, SyncInv, SharedOK
<1>2. PICK S \in SUBSET Txns :
        /\ \A t \in S : remote[t].version # 0
        /\ run' = [run EXCEPT ![r] = run'[r]]
        /\ run'[r].page = {AsRecord(t) : t \in S}
  <2>1. CASE FetchChanges(r)
    <3>1. PICK S \in Answers(Entity(r), format_date(Head(run[r].windows).start)) :
            run' = [run EXCEPT ![r] =
                      [run[r] EXCEPT !.page = {AsRecord(t) : t \in S},
                                     !.answer = {AsRecord(t) : t \in S},
                                     !.seen = run[r].seen \cup {AsRecord(t) : t \in S}]]
      BY <2>1 DEF FetchChanges
    <3>2. S \in SUBSET Txns /\ \A t \in S : remote[t].version > 0
      BY DEF Answers, Changed, OfEntity
    <3>3. \A t \in S : remote[t].version # 0
      BY <3>2
    <3> QED
      BY <1>1, <3>1, <3>2, <3>3 DEF Run
  <2>2. CASE FetchPage(r)
    <3>1. /\ PageAt(Entity(r), run[r].pos) \in SUBSET Txns
          /\ \A t \in PageAt(Entity(r), run[r].pos) : remote[t].version # 0
      BY DEF PageAt, Existing, OfEntity, Agreement
    <3> QED
      BY <1>1, <2>2, <3>1 DEF FetchPage, Run
  <2> QED
    BY <2>1, <2>2
<1>3. pc' = [pc EXCEPT ![r] = pc'[r]]
  BY PassStep
<1>4. draft' = [draft EXCEPT ![r] = draft[r]]
  BY <1>1 DEF SyncInv, SharedOK
<1>5. DraftAgrees(draft[r]) /\ PageAgrees(run'[r].page)
  BY <1>2, AnswerAgrees DEF Agreement
<1> QED
  BY <1>1, <1>2, <1>3, <1>4, <1>5, RunStepAgrees

\* The row of a record: its version is the record's, which came with a transaction
\* unless it is a deletion or cannot be read, or the one that was there.
LEMMA WriteAgrees ==
  ASSUME SyncInv, Agreement, NEW r \in Runs, Write(r)
  PROVE  Agreement'
<1> DEFINE rec == Current(r)
           t == rec.id
           row == [snapshot |-> Flushed(run[r].looked, NewSnapshot(rec),
                                        VisibleSnapshot(r, t)),
                   txn      |-> UpsertedTxn(rec, VisibleTxn(r, t))]
           d == [u \in DOMAIN draft[r] \cup {t} |-> IF u = t THEN row ELSE draft[r][u]]
<1>1. /\ run[r] \in Run /\ pc[r] = "write"
      /\ UNCHANGED <<remote, snapshot, txn>>
      /\ draft' = [draft EXCEPT ![r] = d]
  BY RunFacts DEF Write
<1>2. /\ rec \in run[r].page /\ rec \in Record /\ t \in Txns
      /\ t \notin DOMAIN draft[r]
  BY <1>1, CurrentFacts
<1>3. PageAgrees(run[r].page) /\ DraftAgrees(draft[r])
  BY <1>1 DEF Agreement
<1>4. run'[r].page = Rest(r)
  BY <1>1 DEF Write, Run, SyncInv, SharedOK
<1>5. PageAgrees(run'[r].page)
  BY <1>3, <1>4 DEF PageAgrees, Rest
<1>6. /\ VisibleSnapshot(r, t) = snapshot[t] /\ VisibleTxn(r, t) = txn[t]
      /\ snapshot[t] \in Snapshot /\ Agree(t, snapshot[t].version, txn[t])
      /\ txn[t] \in Nat
  BY <1>2 DEF VisibleSnapshot, VisibleTxn, SyncInv, SharedOK, Agreement
<1>7. row.snapshot.version \in {rec.version, snapshot[t].version}
  BY <1>6 DEF Flushed, NewSnapshot, Snapshot
<1>8. row.txn = txn[t] \/ row.txn = rec.version
  BY <1>6 DEF UpsertedTxn
<1>9. Agree(t, row.snapshot.version, row.txn)
  <2>1. CASE row.snapshot.version = snapshot[t].version
    <3>1. rec.version # 0
      BY <1>2, <1>3 DEF PageAgrees
    <3> QED
      BY <1>6, <1>8, <2>1, <3>1 DEF Agree
  <2>2. CASE row.snapshot.version = rec.version
    <3>1. rec.version <= remote[t].version /\ (Lived(t, rec.version) => ~rec.deleted)
      BY <1>2, <1>3 DEF PageAgrees
    <3>2. Lived(t, rec.version) /\ <<t, rec.version>> \notin Unreadable
            => row.txn = rec.version /\ rec.version # 0
      BY <3>1 DEF Lived, UpsertedTxn
    <3> QED
      BY <2>2, <3>1, <3>2 DEF Agree
  <2> QED
    BY <1>7, <2>1, <2>2
<1> HIDE DEF row
<1>10. DraftAgrees(d)
  BY <1>3, <1>9 DEF DraftAgrees
<1> HIDE DEF d
<1>11. run' = [run EXCEPT ![r] = run'[r]] /\ pc' = [pc EXCEPT ![r] = pc'[r]]
  BY PassStep
<1> QED
  BY <1>1, <1>5, <1>10, <1>11, RunStepAgrees

LEMMA CommitAgrees ==
  ASSUME SyncInv, Agreement, NEW r \in Runs, CommitAnswer(r)
  PROVE  Agreement'
<1>1. /\ pc = [q \in Runs |-> pc[q]] /\ run = [q \in Runs |-> run[q]]
      /\ draft = [q \in Runs |-> draft[q]] /\ remote' = remote
  BY DEF SyncInv, SharedOK, CommitAnswer
<1>2. \A t, v, x : Agree(t, v, x)' <=> Agree(t, v, x)
  BY <1>1 DEF Agree, Lived
<1>3. \A e : DraftAgrees(e)' <=> DraftAgrees(e)
  BY <1>2 DEF DraftAgrees
<1>4. \A page : PageAgrees(page)' <=> PageAgrees(page)
  BY <1>1 DEF PageAgrees, Lived
<1>5. \A t \in Txns : Agree(t, snapshot'[t].version, txn'[t])
  <2> SUFFICES ASSUME NEW t \in Txns
               PROVE  Agree(t, VisibleSnapshot(r, t).version, VisibleTxn(r, t))
    BY DEF CommitAnswer
  <2> QED
    BY DEF Agreement, DraftAgrees, VisibleSnapshot, VisibleTxn
<1>6. \A q \in Runs : DraftAgrees(draft'[q])
  <2>1. draft' = [draft EXCEPT ![r] = NoDraft]
    BY DEF CommitAnswer
  <2> QED
    BY <1>1, <2>1, NoDraftFacts DEF Agreement, DraftAgrees
<1>7. ASSUME NEW q \in Runs, pc'[q] # "new" PROVE PageAgrees(run'[q].page)
  <2>1. pc[r] = "commit" /\ run[r] \in Run
    BY RunFacts DEF CommitAnswer
  <2>2. run'[q].page = run[q].page /\ pc[q] # "new"
    BY <1>1, <1>7, <2>1 DEF CommitAnswer, Run
  <2> QED
    BY <2>2 DEF Agreement
<1>8. \A t \in Txns : remote'[t].live => remote'[t].version # 0
  BY <1>1 DEF Agreement
<1> QED
  BY <1>2, <1>3, <1>4, <1>5, <1>6, <1>7, <1>8 DEF Agreement

\* A version that the remote has had keeps what it was.
LEMMA RemoteAgrees ==
  ASSUME SyncInv, Agreement, NEW u \in Txns, Edit(u) \/ Delete(u)
  PROVE  Agreement'
<1>1. /\ remote \in [Txns -> [version : Nat, at : Int, live : BOOLEAN]]
      /\ snapshot \in [Txns -> Snapshot]
      /\ UNCHANGED <<snapshot, txn, draft, pc>>
  BY DEF Edit, Delete, SyncInv, SharedOK
<1>2. /\ remote' = [remote EXCEPT ![u] = remote'[u]]
      /\ remote'[u].version = remote[u].version + 1
      /\ remote[u].version = 0 \/ remote[u].live
  BY <1>1 DEF Edit, Delete
<1>3. ASSUME NEW t \in Txns, NEW v \in Nat, v <= remote[t].version
      PROVE  v <= remote'[t].version /\ (Lived(t, v)' => Lived(t, v))
  <2>1. remote[t].version \in Nat
    BY <1>1
  <2>2. CASE t = u
    BY <1>2, <1>3, <2>1, <2>2 DEF Lived
  <2>3. CASE t # u
    <3>1. remote'[t] = remote[t]
      BY <1>1, <1>2, <2>3
    <3> QED
      BY <1>3, <3>1 DEF Lived
  <2> QED
    BY <2>2, <2>3
<1>4. ASSUME NEW t \in Txns, NEW v \in Nat, NEW x, Agree(t, v, x)
      PROVE  Agree(t, v, x)'
  BY <1>3, <1>4 DEF Agree
<1>5. \A t \in Txns : remote'[t].live => remote'[t].version # 0
  <2>1. remote'[u].version # 0
    BY <1>1, <1>2
  <2> QED
    BY <1>1, <1>2, <2>1 DEF Agreement
<1>6. \A t \in Txns : Agree(t, snapshot[t].version, txn[t])'
  <2>1. \A t \in Txns : snapshot[t].version \in Nat
    BY <1>1 DEF Snapshot
  <2> QED
    BY <1>1, <1>4, <2>1 DEF Agreement
<1>7. ASSUME NEW r \in Runs PROVE DraftAgrees(draft[r])'
  <2>1. DOMAIN draft[r] \subseteq Txns /\ draft[r] \in [DOMAIN draft[r] -> DraftRow]
    BY DEF SyncInv, RunsAreSound, Sound, Typed
  <2>2. \A t \in DOMAIN draft[r] : draft[r][t].snapshot.version \in Nat
    BY <2>1 DEF DraftRow, Snapshot
  <2> QED
    BY <1>1, <1>4, <2>1, <2>2 DEF Agreement, DraftAgrees
<1>8. ASSUME NEW r \in Runs, pc[r] # "new" PROVE PageAgrees(run[r].page)'
  <2>1. run[r] \in Run
    BY <1>8, RunFacts
  <2>2. run'[r].page = run[r].page /\ run[r].page \subseteq Record
    BY <2>1 DEF Edit, Delete, Run
  <2>3. PageAgrees(run[r].page)
    BY <1>8 DEF Agreement
  <2>4. \A rec \in run[r].page : rec.id \in Txns /\ rec.version \in Nat
    BY <2>2 DEF Record
  <2> QED
    BY <1>3, <2>2, <2>3, <2>4 DEF PageAgrees
<1> QED
  BY <1>1, <1>5, <1>6, <1>7, <1>8 DEF Agreement

LEMMA AgreementNext ==
  ASSUME SyncInv, Agreement, [Next]_vars
  PROVE  Agreement'
<1>1. CASE UNCHANGED vars
  BY <1>1 DEF vars, Agreement, DraftAgrees, PageAgrees, Agree, Lived
<1>2. ASSUME NEW r \in Runs, Step(r) PROVE Agreement'
  <2>1. CASE FetchChanges(r) \/ FetchPage(r)
    BY <2>1, FetchAgrees
  <2>2. CASE Write(r)
    BY <2>2, WriteAgrees
  <2>3. CASE CommitAnswer(r)
    BY <2>3, CommitAgrees
  <2>4. CASE ~(FetchChanges(r) \/ FetchPage(r) \/ Write(r) \/ CommitAnswer(r))
    <3>1. /\ pc = [q \in Runs |-> pc[q]] /\ run = [q \in Runs |-> run[q]]
          /\ UNCHANGED <<remote, snapshot, txn>>
          /\ \/ draft' = draft
             \/ draft' = [draft EXCEPT ![r] = NoDraft]
      BY <1>2, <2>4 DEF Step, Begin, EnterEntity, RefuseWindow, NoMorePages,
         RequestFails, LeaveEntity, Look, DatabaseError, Abandon, MissCheckpoint,
         AdvanceCheckpoint, CheckpointConflict, Finish, Crash, SyncInv, SharedOK
    <3>2. PICK a : /\ run' = [run EXCEPT ![r] = a] /\ pc' = [pc EXCEPT ![r] = pc'[r]]
                   /\ \/ a.page = {}
                      \/ pc[r] # "new" /\ a.page = run[r].page
      <4>1. pc[r] # "new" => run[r] \in Run
        BY RunFacts
      <4>2. CASE Begin(r)
        <5>1. PICK request \in Requests :
              run' = [run EXCEPT ![r] =
                [mode |-> request[1], list |-> request[2], n |-> 1, cp |-> None,
                 windows |-> << >>,
                 until |-> 0, since |-> 0, pos |-> 0,
                 more |-> FALSE, page |-> {}, answer |-> {}, looked |-> None,
                 seen |-> {}, result |-> "RUNNING",
                 report |-> [NoReport EXCEPT !.status = "RUNNING"],
                 initial |-> << >>]]
          BY <4>2 DEF Begin
        <5> QED
          BY <3>1, <4>2, <5>1 DEF Begin
      <4>3. CASE EnterEntity(r)
        <5>1. run' = [run EXCEPT ![r] = run'[r]]
          BY <4>3, EnterFields
        <5>2. run'[r].page = run[r].page /\ pc[r] # "new"
          BY <3>1, <4>1, <4>3 DEF EnterEntity, Run
        <5>3. pc' = [pc EXCEPT ![r] = pc'[r]]
          BY <3>1, <4>3 DEF EnterEntity
        <5> QED
          BY <5>1, <5>2, <5>3
      <4>4. CASE Look(r)
        <5>1. run' = [run EXCEPT ![r] = run'[r]] /\ pc' = [pc EXCEPT ![r] = pc'[r]]
          BY <4>4, PassStep
        <5>2. run'[r].page = run[r].page /\ pc[r] # "new"
          BY <3>1, <4>1, <4>4 DEF Look, Run
        <5> QED
          BY <5>1, <5>2
      <4>5. CASE MissCheckpoint(r)
        BY <3>1, <4>5 DEF MissCheckpoint
      <4>6. CASE Finish(r)
        <5>1. Over(run[r]).page = {}
          BY <4>1, <4>6 DEF Finish, Over, Cleared, Run
        <5> QED
          BY <3>1, <4>6, <5>1 DEF Finish
      <4>7. CASE DatabaseError(r) \/ CheckpointConflict(r) \/ Crash(r)
        <5>1. pc[r] # "new" /\ Abandon(r)
          BY <4>7 DEF DatabaseError, CheckpointConflict, Crash, Active
        <5>2. Over(run[r]).page = {}
          BY <4>1, <5>1 DEF Over, Cleared, Run
        <5> QED
          BY <3>1, <5>1, <5>2 DEF Abandon
      <4>8. \A outcome : pc[r] # "new" => Left(r, outcome).page = {}
        BY <4>1 DEF Left, Cleared, Run
      <4>9. CASE RefuseWindow(r) \/ NoMorePages(r) \/ RequestFails(r)
        <5>1. PICK outcome : LeaveEntity(r, outcome) /\ pc[r] # "new"
          BY <4>9 DEF RefuseWindow, NoMorePages, RequestFails
        <5> QED
          BY <3>1, <4>8, <5>1 DEF LeaveEntity
      <4>10. CASE AdvanceCheckpoint(r)
        <5>1. pc[r] # "new"
          BY <4>10 DEF AdvanceCheckpoint
        <5>2. CASE run[r].mode = "BACKFILL" /\ run[r].more
          BY <3>1, <4>1, <4>10, <5>1, <5>2 DEF AdvanceCheckpoint, Run
        <5>3. CASE ~(run[r].mode = "BACKFILL" /\ run[r].more)
          BY <3>1, <4>8, <4>10, <5>1, <5>3 DEF AdvanceCheckpoint
        <5> QED
          BY <5>2, <5>3
      <4> QED
        BY <1>2, <2>4, <4>2, <4>3, <4>4, <4>5, <4>6, <4>7, <4>9, <4>10 DEF Step
    <3> QED
      BY <3>1, <3>2, QuietAgrees
  <2> QED
    BY <2>1, <2>2, <2>3, <2>4
<1>3. CASE Tick
  BY <1>3 DEF Tick, Agreement, DraftAgrees, PageAgrees, Agree, Lived
<1>4. ASSUME NEW t \in Txns, Edit(t) \/ Delete(t) PROVE Agreement'
  BY <1>4, RemoteAgrees
<1> QED
  BY <1>1, <1>2, <1>3, <1>4 DEF Next

\* Every stored snapshot of a version that was no deletion and can be read has a
\* transaction: the two are drafted and committed together, and neither a stale
\* SELECT nor another run's commit can part them.
THEOREM SnapshotsAreNormalizedHolds == Spec => []SnapshotsAreNormalized
<1>1. Init => Agreement
  <2> SUFFICES ASSUME Init PROVE Agreement
    OBVIOUS
  <2>1. ASSUME NEW t \in Txns
        PROVE  /\ remote[t].version \in {0, 1}
               /\ remote[t].live => remote[t].version # 0
               /\ snapshot[t].version = 0
    <3>1. /\ remote[t].version = IF t \in Old THEN 1 ELSE 0
          /\ remote[t].live = (t \in Old)
          /\ snapshot[t].version = 0
      BY DEF Init
    <3>2. CASE t \in Old
      BY <3>1, <3>2
    <3>3. CASE t \notin Old
      <4>1. remote[t].version = 0 /\ ~remote[t].live
        BY <3>1, <3>3, Zenon
      <4> QED
        BY <3>1, <4>1
    <3> QED
      BY <3>2, <3>3
  <2>2. \A t \in Txns : Agree(t, snapshot[t].version, txn[t])
    BY <2>1 DEF Agree, Lived
  <2>3. \A r \in Runs : DraftAgrees(draft[r]) /\ pc[r] = "new"
    BY NoDraftFacts DEF Init, DraftAgrees
  <2> QED
    BY <2>1, <2>2, <2>3 DEF Agreement
<1>2. SyncInv /\ Agreement /\ [Next]_vars => Agreement'
  BY AgreementNext
<1>3. Agreement => SnapshotsAreNormalized
  BY DEF Agreement, Agree, Lived, SnapshotsAreNormalized
<1> QED
  BY <1>1, <1>2, <1>3, SyncInvariance, PTL DEF Spec

-----------------------------------------------------------------------------
(* Windows and checkpoints.                                                *)

\* From where on an incremental run has to fetch itself.
Behind(a) == IF a.cp = None \/ a.cp.at < a.since THEN a.since ELSE a.cp.at

\* Whatever last changed between two times is kept, or was fetched by a run.
KeptFrom(e, from, until) ==
    \A t \in OfEntity(e) :
        from <= remote[t].at /\ remote[t].at < until => remote[t].version <= kept[t]

SeenFrom(a, from, until) ==
    \A t \in OfEntity(a.list[a.n]) :
        /\ from <= remote[t].at /\ remote[t].at < until
        /\ remote[t].version > 0
        => \E rec \in a.seen : rec.id = t /\ remote[t].version <= rec.version

CheckpointCovers(e) ==
    LET cp == checkpoint[<<e, "INCREMENTAL">>] IN
    cp # None => cp.at <= clock /\ KeptFrom(e, coveredFrom[e], cp.at)

\* An incremental run has fetched what it has to, or its first window is still
\* the first: not fetched, or so near the limit that it will be split.
Fetched(a, where) ==
    \/ SeenFrom(a, Behind(a), a.until)
    \/ /\ where \in {"fetch", "look", "write", "commit"}
       /\ a.windows # << >> /\ Head(a.windows).start <= Behind(a)
       /\ where # "fetch" => Cardinality(a.answer) >= SplitAt

Covers(a, where) ==
    InPass(where) /\ a.mode = "INCREMENTAL" =>
        /\ a.until <= clock
        /\ a.cp # None => a.cp.at <= a.until /\ KeptFrom(a.list[a.n], a.since, a.cp.at)
        /\ Fetched(a, where)

NoGap ==
    /\ \A t \in Txns : remote[t].at <= clock
    /\ \A e \in Entities : CheckpointCovers(e)
    /\ \A r \in Runs : Covers(run[r], pc[r])

\* What is kept only grows.
LEMMA KeptFromStays ==
  ASSUME SyncInv, NEW e, NEW from, NEW until, KeptFrom(e, from, until),
         remote' = remote, kept' \in [Txns -> Nat],
         \A t \in Txns : kept[t] <= kept'[t]
  PROVE  KeptFrom(e, from, until)'
<1> SUFFICES ASSUME NEW t \in OfEntity(e), from <= remote[t].at, remote[t].at < until
             PROVE  remote[t].version <= kept'[t]
  BY DEF KeptFrom
<1>1. /\ t \in Txns /\ remote[t].version \in Nat /\ kept[t] \in Nat /\ kept'[t] \in Nat
      /\ kept[t] <= kept'[t]
  BY DEF OfEntity, SyncInv, SharedOK
<1>2. remote[t].version <= kept[t]
  BY DEF KeptFrom
<1> QED
  BY <1>1, <1>2

LEMMA CoversStays ==
  ASSUME SyncInv, NEW a, NEW where, Covers(a, where),
         remote' = remote, clock' = clock, kept' \in [Txns -> Nat],
         \A t \in Txns : kept[t] <= kept'[t]
  PROVE  Covers(a, where)'
<1> SUFFICES ASSUME InPass(where), a.mode = "INCREMENTAL" PROVE Covers(a, where)'
  BY DEF Covers
<1>1. SeenFrom(a, Behind(a), a.until)' <=> SeenFrom(a, Behind(a), a.until)
  BY DEF SeenFrom, Behind
<1>2. Fetched(a, where)
  BY DEF Covers
<1>3. Fetched(a, where)'
  BY <1>1, <1>2 DEF Fetched, Behind
<1>4. a.cp # None => a.cp.at <= a.until /\ KeptFrom(a.list[a.n], a.since, a.cp.at)'
  BY KeptFromStays DEF Covers
<1> QED
  BY <1>3, <1>4 DEF Covers

\* A step of one run.
LEMMA CoversStep ==
  ASSUME SyncInv, NoGap, NEW r \in Runs,
         run' = [run EXCEPT ![r] = run'[r]], pc' = [pc EXCEPT ![r] = pc'[r]],
         UNCHANGED <<clock, remote>>,
         kept' \in [Txns -> Nat], \A t \in Txns : kept[t] <= kept'[t],
         Covers(run[r], pc[r])'
  PROVE  \A q \in Runs : Covers(run[q], pc[q])'
<1>1. /\ pc = [q \in Runs |-> pc[q]] /\ run = [q \in Runs |-> run[q]]
  BY DEF SyncInv, SharedOK
<1> SUFFICES ASSUME NEW q \in Runs, q # r PROVE Covers(run[q], pc[q])'
  OBVIOUS
<1>2. run'[q] = run[q] /\ pc'[q] = pc[q]
  BY <1>1
<1>3. PICK b, there : b = run[q] /\ there = pc[q]
  OBVIOUS
<1>4. Covers(b, there)
  BY <1>3 DEF NoGap
<1>5. Covers(b, there)'
  BY <1>4, CoversStays
<1>6. b = run'[q] /\ there = pc'[q]
  BY <1>2, <1>3
<1> QED
  BY <1>5, <1>6 DEF Covers, Fetched, SeenFrom, KeptFrom, Behind

\* One that moves no checkpoint.
LEMMA NoGapStep ==
  ASSUME SyncInv, NoGap, NEW r \in Runs,
         run' = [run EXCEPT ![r] = run'[r]], pc' = [pc EXCEPT ![r] = pc'[r]],
         UNCHANGED <<clock, remote, checkpoint, coveredFrom>>,
         kept' \in [Txns -> Nat], \A t \in Txns : kept[t] <= kept'[t],
         Covers(run[r], pc[r])'
  PROVE  NoGap'
<1>1. \A q \in Runs : Covers(run[q], pc[q])'
  BY CoversStep
<1>2. ASSUME NEW e \in Entities PROVE CheckpointCovers(e)'
  <2>1. CheckpointCovers(e)
    BY DEF NoGap
  <2>2. \A from, until : KeptFrom(e, from, until) => KeptFrom(e, from, until)'
    BY KeptFromStays
  <2> QED
    BY <2>1, <2>2 DEF CheckpointCovers, KeptFrom
<1>3. \A t \in Txns : remote'[t].at <= clock'
  BY DEF NoGap
<1> QED
  BY <1>1, <1>2, <1>3 DEF NoGap

\* A step that neither commits nor moves a checkpoint.
LEMMA NoGapQuiet ==
  ASSUME SyncInv, NoGap, NEW r \in Runs,
         run' = [run EXCEPT ![r] = run'[r]], pc' = [pc EXCEPT ![r] = pc'[r]],
         UNCHANGED <<clock, remote, checkpoint, coveredFrom, kept>>,
         Covers(run[r], pc[r])'
  PROVE  NoGap'
<1>1. /\ kept' \in [Txns -> Nat]
      /\ \A t \in Txns : kept[t] <= kept'[t]
  <2>1. kept \in [Txns -> Nat]
    BY DEF SyncInv, SharedOK
  <2> QED
    BY <2>1
<1> QED
  BY <1>1, NoGapStep

\* Where no incremental run is at an entity there is nothing to cover.
LEMMA NoGapIdle ==
  ASSUME SyncInv, NoGap, NEW r \in Runs, NEW a, NEW where,
         run' = [run EXCEPT ![r] = a], pc' = [pc EXCEPT ![r] = where],
         UNCHANGED <<clock, remote, checkpoint, coveredFrom, kept>>,
         ~InPass(where) \/ a.mode # "INCREMENTAL"
  PROVE  NoGap'
<1>1. /\ pc = [q \in Runs |-> pc[q]] /\ run = [q \in Runs |-> run[q]]
  BY DEF SyncInv, SharedOK
<1>2. run'[r] = a /\ pc'[r] = where
  BY <1>1
<1>3. Covers(run[r], pc[r])'
  BY <1>2 DEF Covers
<1> QED
  BY <1>2, <1>3, NoGapQuiet

LEMMA FormatDate ==
  ASSUME NEW time \in Int
  PROVE  format_date(time) \in Int /\ format_date(time) <= time
<1>1. Day \in Nat /\ Day > 0
  BY SyncAssumption
<1>2. time % Day \in 0..(Day - 1)
  BY <1>1
<1> QED
  BY <1>1, <1>2 DEF format_date

\* An answer that is not near the limit names all that has changed.
LEMMA WholeAnswer ==
  ASSUME NEW e, NEW since, NEW S \in Answers(e, since), Cardinality(S) < SplitAt
  PROVE  S = Changed(e, since)
<1>1. S \subseteq Txns
  BY DEF Answers, Changed, OfEntity
<1>2. Cardinality(S) \in Nat
  BY <1>1, FS_Subset, FS_CardinalityType, SyncAssumption
<1>3. Limit \in Nat /\ SplitAt \in 1..Limit
  BY SyncAssumption
<1> QED
  BY <1>2, <1>3 DEF Answers

LEMMA NoGapFetch ==
  ASSUME SyncInv, NoGap, NEW r \in Runs, FetchChanges(r)
  PROVE  NoGap'
<1> DEFINE a == run[r]
           w == Head(a.windows)
           e == Entity(r)
           b == run'[r]
<1>1. /\ pc[r] = "fetch" /\ a.mode = "INCREMENTAL"
      /\ UNCHANGED <<clock, remote, checkpoint, coveredFrom, kept>>
      /\ a \in Run /\ a.windows # << >>
  BY RunFacts DEF FetchChanges, Started
<1>2. PICK S \in Answers(e, format_date(w.start)) :
        /\ run' = [run EXCEPT ![r] =
             [a EXCEPT !.page = {AsRecord(t) : t \in S},
                       !.answer = {AsRecord(t) : t \in S},
                       !.seen = a.seen \cup {AsRecord(t) : t \in S}]]
        /\ pc' = [pc EXCEPT ![r] = IF {AsRecord(t) : t \in S} = {}
                                   THEN "commit" ELSE "look"]
  BY DEF FetchChanges
<1>3. /\ pc = [q \in Runs |-> pc[q]] /\ run = [q \in Runs |-> run[q]]
      /\ remote \in [Txns -> [version : Nat, at : Int, live : BOOLEAN]]
      /\ clock \in Int
  BY DEF SyncInv, SharedOK
<1>4. /\ b.mode = a.mode /\ b.list = a.list /\ b.n = a.n /\ b.cp = a.cp
      /\ b.since = a.since /\ b.until = a.until /\ b.windows = a.windows
      /\ b.answer = {AsRecord(t) : t \in S}
      /\ b.seen = a.seen \cup {AsRecord(t) : t \in S}
      /\ pc'[r] \in {"commit", "look"}
  BY <1>1, <1>2, <1>3 DEF Run
<1>5. Covers(a, "fetch")
  BY <1>1 DEF NoGap
<1>6. Behind(b) = Behind(a)
  BY <1>4 DEF Behind
<1>7. S \in SUBSET Txns
  BY DEF Answers, Changed, OfEntity
<1>8. Cardinality(b.answer) = Cardinality(S)
  BY <1>4, <1>7, AnswerSize
<1>9. w \in Window /\ a.since \in Int /\ (a.cp # None => a.cp.at \in Int)
  BY <1>1 DEF Run, Mark
<1>10. SeenFrom(b, Behind(b), b.until) \/
       (Head(a.windows).start <= Behind(b) /\ Cardinality(b.answer) >= SplitAt)
  <2>1. CASE SeenFrom(a, Behind(a), a.until)
    BY <1>4, <1>6, <2>1 DEF SeenFrom
  <2>2. CASE Head(a.windows).start <= Behind(a) /\ Cardinality(S) >= SplitAt
    BY <1>6, <1>8, <2>2
  <2>3. CASE Head(a.windows).start <= Behind(a) /\ ~(Cardinality(S) >= SplitAt)
    <3>1. Cardinality(S) < SplitAt
      <4>1. IsFiniteSet(S)
        BY <1>7, FS_Subset, SyncAssumption
      <4>2. Cardinality(S) \in Nat
        BY <4>1, FS_CardinalityType
      <4>3. SplitAt \in Nat
        BY SyncAssumption
      <4> QED
        BY <2>3, <4>2, <4>3
    <3>2. S = Changed(e, format_date(w.start))
      BY <3>1, WholeAnswer
    <3>3. ASSUME NEW t \in OfEntity(e), Behind(a) <= remote[t].at, remote[t].version > 0
          PROVE  \E rec \in b.seen : rec.id = t /\ remote[t].version <= rec.version
      <4>1. /\ w.start \in Int /\ Behind(a) \in Int /\ t \in Txns
            /\ remote[t].at \in Int /\ remote[t].version \in Nat
        BY <1>3, <1>9 DEF Window, Behind, OfEntity
      <4>2. format_date(w.start) \in Int /\ format_date(w.start) <= w.start
        BY <4>1, FormatDate
      <4>3. format_date(w.start) <= remote[t].at
        BY <2>3, <3>3, <4>1, <4>2
      <4>4. t \in S
        BY <3>2, <3>3, <4>1, <4>2, <4>3 DEF Changed
      <4>5. AsRecord(t).id = t /\ AsRecord(t).version = remote[t].version
        BY DEF AsRecord
      <4>6. AsRecord(t) \in b.seen /\ remote[t].version <= AsRecord(t).version
        BY <1>4, <4>1, <4>4, <4>5
      <4> QED
        BY <4>5, <4>6
    <3> QED
      BY <1>4, <1>6, <3>3 DEF SeenFrom, Entity
  <2> QED
    BY <1>1, <1>5, <2>1, <2>2, <2>3 DEF Covers, Fetched, InPass
<1>11. Fetched(run[r], pc[r])'
  BY <1>1, <1>4, <1>10 DEF Fetched, SeenFrom, Behind
<1>12. Covers(run[r], pc[r])'
  BY <1>1, <1>4, <1>5, <1>11 DEF Covers, InPass, KeptFrom
<1>13. run' = [run EXCEPT ![r] = run'[r]] /\ pc' = [pc EXCEPT ![r] = pc'[r]]
  BY PassStep
<1> QED
  BY <1>1, <1>12, <1>13, NoGapQuiet

\* Persisting leaves the windows and the answer alone.
LEMMA NoGapPersist ==
  ASSUME SyncInv, NoGap, NEW r \in Runs, Look(r) \/ Write(r) \/ MissCheckpoint(r)
  PROVE  NoGap'
<1> DEFINE a == run[r]
           b == run'[r]
<1>1. /\ a \in Run /\ InPass(pc[r])
      /\ pc = [q \in Runs |-> pc[q]] /\ run = [q \in Runs |-> run[q]]
  BY RunFacts DEF Look, Write, MissCheckpoint, SyncInv, SharedOK, InPass
<1>2. /\ UNCHANGED <<clock, remote, checkpoint, coveredFrom, kept>>
      /\ b.mode = a.mode /\ b.list = a.list /\ b.n = a.n /\ b.cp = a.cp
      /\ b.since = a.since /\ b.until = a.until /\ b.windows = a.windows
      /\ b.answer = a.answer /\ b.seen = a.seen
  BY <1>1 DEF Look, Write, MissCheckpoint, Run
<1>3. \/ pc[r] \in {"look", "write"} /\ pc'[r] \in {"look", "write", "commit"}
      \/ pc[r] = "mark" /\ pc'[r] = "insert"
  BY <1>1 DEF Look, Write, MissCheckpoint
<1>4. Covers(a, pc[r])
  BY DEF NoGap
<1>5. Fetched(a, pc[r]) => Fetched(run[r], pc[r])'
  BY <1>2, <1>3 DEF Fetched, SeenFrom, Behind
<1>6. Covers(run[r], pc[r])'
  BY <1>1, <1>2, <1>4, <1>5 DEF Covers, KeptFrom
<1>7. run' = [run EXCEPT ![r] = run'[r]] /\ pc' = [pc EXCEPT ![r] = pc'[r]]
  BY PassStep
<1> QED
  BY <1>2, <1>6, <1>7, NoGapQuiet

\* A commit keeps what was fetched; windows that remain begin where they did.
LEMMA NoGapCommit ==
  ASSUME SyncInv, NoGap, NEW r \in Runs, CommitAnswer(r)
  PROVE  NoGap'
<1> DEFINE a == run[r]
           b == run'[r]
           w == Head(a.windows)
<1>1. /\ pc[r] = "commit" /\ a \in Run
      /\ a.mode = "INCREMENTAL" => a.windows # << >>
      /\ UNCHANGED <<clock, remote, checkpoint, coveredFrom>>
      /\ pc = [q \in Runs |-> pc[q]] /\ run = [q \in Runs |-> run[q]]
  BY RunFacts DEF CommitAnswer, Started, SyncInv, SharedOK
<1>2. /\ b.mode = a.mode /\ b.list = a.list /\ b.n = a.n /\ b.cp = a.cp
      /\ b.since = a.since /\ b.until = a.until /\ b.seen = a.seen
      /\ b.answer = a.answer
  BY <1>1 DEF CommitAnswer, Run
<1>3. kept' \in [Txns -> Nat] /\ \A t \in Txns : kept[t] <= kept'[t]
  BY KeptGrows DEF Step
<1>4. Covers(a, "commit")
  BY <1>1 DEF NoGap
<1>5. ASSUME a.mode = "INCREMENTAL"
      PROVE  Fetched(run[r], pc[r])'
  <2>1. CASE SeenFrom(a, Behind(a), a.until)
    BY <1>1, <1>2, <2>1 DEF Fetched, SeenFrom, Behind
  <2>2. CASE ~SeenFrom(a, Behind(a), a.until)
    <3>1. w.start <= Behind(a) /\ Cardinality(a.answer) >= SplitAt
      BY <1>4, <1>5, <2>2 DEF Covers, Fetched, InPass
    <3>2. w \in Window /\ Tail(a.windows) \in Seq(Window)
      BY <1>1, <1>5 DEF Run
    <3>3. PICK first, second : split(w) = <<first, second>> /\ first.start = w.start
      <4> DEFINE mid == w.start + ((w.end - w.start) \div 2)
                 x == [start |-> w.start, end |-> mid, depth |-> w.depth + 1]
                 y == [start |-> mid, end |-> w.end, depth |-> w.depth + 1]
      <4>1. split(w) = <<x, y>> /\ x.start = w.start
        BY DEF split
      <4> HIDE DEF x, y
      <4> QED
        BY <4>1
    <3>4. b.windows = split(w) \o Tail(a.windows)
      BY <1>1, <1>5, <3>1 DEF CommitAnswer, Run, NearLimit
    <3>5. b.windows # << >> /\ Head(b.windows).start = w.start
      <4>1. split(w) \in Seq(Window)
        BY <3>2, SplitWindows
      <4>2. <<first, second>> \in Seq(Window)
        BY <3>3, <4>1
      <4>3. b.windows = <<first, second>> \o Tail(a.windows)
        BY <3>3, <3>4
      <4>4. PICK last : last = Tail(a.windows)
        OBVIOUS
      <4>5. last \in Seq(Window) /\ b.windows = <<first, second>> \o last
        BY <3>2, <4>3, <4>4
      <4>6. b.windows # << >> /\ Head(b.windows) = first
        <5>1. Len(<<first, second>> \o last) \in Nat \ {0}
          BY <4>2, <4>5
        <5>2. (<<first, second>> \o last)[1] = first
          BY <4>2, <4>5
        <5>3. <<first, second>> \o last \in Seq(Window)
          BY <4>2, <4>5
        <5> QED
          BY <4>5, <5>1, <5>2, <5>3
      <4> QED
        BY <3>3, <4>6
    <3>6. pc'[r] = "fetch"
      BY <1>1, <1>5, <3>1, <3>4, <3>5 DEF CommitAnswer, NearLimit
    <3> QED
      BY <1>2, <3>1, <3>5, <3>6 DEF Fetched, Behind
  <2> QED
    BY <2>1, <2>2
<1>6. (a.cp # None => KeptFrom(a.list[a.n], a.since, a.cp.at))
        => (a.cp # None => KeptFrom(run[r].list[run[r].n], run[r].since, run[r].cp.at)')
  <2>1. PICK x, from, until : x = a.list[a.n] /\ from = a.since /\ until = a.cp.at
    OBVIOUS
  <2>2. KeptFrom(x, from, until) => KeptFrom(x, from, until)'
    BY <1>1, <1>3, KeptFromStays
  <2> QED
    BY <1>2, <2>1, <2>2 DEF KeptFrom
<1>7. Covers(run[r], pc[r])'
  BY <1>1, <1>2, <1>4, <1>5, <1>6 DEF Covers, InPass
<1>8. run' = [run EXCEPT ![r] = run'[r]] /\ pc' = [pc EXCEPT ![r] = pc'[r]]
  BY PassStep
<1> QED
  BY <1>1, <1>3, <1>7, <1>8, NoGapStep

\* A window begins no later than what the run has to fetch, and the checkpoint
\* that was loaded vouches for the rest.
LEMMA NoGapEnter ==
  ASSUME SyncInv, NoGap, NEW r \in Runs, EnterEntity(r)
  PROVE  NoGap'
<1> DEFINE a == run[r]
           b == run'[r]
           e == Entity(r)
           cp == checkpoint[<<e, "INCREMENTAL">>]
<1>1. /\ pc[r] = "entity" /\ pc'[r] = "fetch" /\ a \in Run /\ e \in Entities
      /\ UNCHANGED <<clock, remote, checkpoint, coveredFrom, kept>>
      /\ pc = [q \in Runs |-> pc[q]] /\ run = [q \in Runs |-> run[q]]
      /\ run' = [run EXCEPT ![r] = run'[r]] /\ pc' = [pc EXCEPT ![r] = pc'[r]]
      /\ b.mode = a.mode /\ b.list = a.list /\ b.n = a.n
  <2>1. pc[r] # "new"
    BY DEF EnterEntity
  <2>2. /\ pc = [q \in Runs |-> pc[q]] /\ run = [q \in Runs |-> run[q]]
        /\ a \in Run /\ e \in Entities
    BY <2>1, RunFacts DEF SyncInv, SharedOK
  <2>3. /\ pc[r] = "entity" /\ pc' = [pc EXCEPT ![r] = "fetch"]
        /\ UNCHANGED <<clock, remote, checkpoint, coveredFrom, kept>>
    BY DEF EnterEntity
  <2> QED
    BY <2>2, <2>3, EnterFields
<1>2. CASE a.mode # "INCREMENTAL"
  <2>1. Covers(run[r], pc[r])'
    BY <1>1, <1>2 DEF Covers
  <2> QED
    BY <1>1, <2>1, NoGapQuiet
<1>3. CASE a.mode = "INCREMENTAL"
  <2>1. /\ b.cp = cp /\ b.windows = <<WindowFrom(cp)>>
        /\ b.until = clock /\ b.since = Promise(cp, coveredFrom[e])
    BY <1>1, <1>3 DEF EnterEntity, Run, Key
  <2>2. /\ clock \in Int /\ coveredFrom[e] \in Int
        /\ Overlap \in Nat /\ Lookback \in Nat /\ FirstWindow \in Nat
        /\ cp # None => cp.at \in Int
        /\ remote \in [Txns -> [version : Nat, at : Int, live : BOOLEAN]]
    BY <1>1, SyncAssumption DEF SyncInv, SharedOK, Keys, Mark
  <2>3. CheckpointCovers(e)
    BY <1>1 DEF NoGap
  <2>4. Head(b.windows).start <= Behind(b)
    <3>1. Head(b.windows) = WindowFrom(cp)
      BY <2>1
    <3>2. WindowFrom(cp).start <= Behind(b)
      <4>1. CASE cp = None
        BY <2>1, <2>2, <4>1 DEF WindowFrom, Promise, Behind
      <4>2. CASE cp # None
        BY <2>1, <2>2, <4>2 DEF WindowFrom, Promise, Behind
      <4> QED
        BY <4>1, <4>2
    <3> QED
      BY <3>1, <3>2
  <2>5. cp # None => cp.at <= clock /\ KeptFrom(e, b.since, cp.at)
    <3> SUFFICES ASSUME cp # None PROVE cp.at <= clock /\ KeptFrom(e, b.since, cp.at)
      OBVIOUS
    <3>1. cp.at <= clock /\ KeptFrom(e, coveredFrom[e], cp.at)
      BY <2>3 DEF CheckpointCovers
    <3>2. b.since = coveredFrom[e] \/ cp.at < b.since
      BY <2>1, <2>2 DEF Promise
    <3>3. CASE cp.at < b.since
      <4>1. ASSUME NEW t \in OfEntity(e) PROVE ~(b.since <= remote[t].at /\ remote[t].at < cp.at)
        <5>1. remote[t].at \in Int /\ b.since \in Int
          BY <2>1, <2>2 DEF OfEntity, Promise
        <5> QED
          BY <2>2, <3>3, <5>1
      <4> QED
        BY <3>1, <4>1 DEF KeptFrom
    <3> QED
      BY <3>1, <3>2, <3>3
  <2>6. b.windows # << >>
    BY <2>1
  <2>7. Fetched(run[r], pc[r])'
    BY <1>1, <2>4, <2>6 DEF Fetched, Behind
  <2>8. Covers(run[r], pc[r])'
    <3>1. /\ run'[r].until <= clock'
          /\ run'[r].cp # None => run'[r].cp.at <= run'[r].until
      BY <1>1, <2>1, <2>2, <2>5
    <3>2. run'[r].cp # None => KeptFrom(run[r].list[run[r].n], run[r].since, run[r].cp.at)'
      BY <1>1, <2>1, <2>5 DEF KeptFrom, Entity
    <3> QED
      BY <2>7, <3>1, <3>2 DEF Covers
  <2> QED
    BY <1>1, <2>8, NoGapQuiet
<1> QED
  BY <1>2, <1>3

\* A checkpoint that moves vouches for what the run has fetched, which is kept by
\* now, and for what the checkpoint it had loaded did.
LEMMA NoGapAdvance ==
  ASSUME SyncInv, NoGap, NEW r \in Runs, AdvanceCheckpoint(r)
  PROVE  NoGap'
<1> DEFINE a == run[r]
           key == Key(r)
           e == Entity(r)
<1>1. /\ pc[r] \in {"mark", "insert"} /\ a \in Run /\ key \in Keys /\ e \in Entities
      /\ Typed(a, pc[r], draft[r]) /\ Accounted(a, pc[r], draft[r], kept)
      /\ key = <<e, a.mode>>
      /\ UNCHANGED <<clock, remote, kept>>
      /\ pc = [q \in Runs |-> pc[q]] /\ run = [q \in Runs |-> run[q]]
      /\ checkpoint \in [Keys -> Mark \cup {None}]
      /\ coveredFrom \in [Entities -> Int] /\ clock \in Int
      /\ remote \in [Txns -> [version : Nat, at : Int, live : BOOLEAN]]
      /\ kept \in [Txns -> Nat]
  BY RunFacts DEF AdvanceCheckpoint, SyncInv, SharedOK, Key
<1>2. /\ checkpoint' = [checkpoint EXCEPT ![key] =
                          Advanced(Judged(a.cp, checkpoint[key]), a.until, checkpoint[key])]
      /\ coveredFrom' = IF a.mode = "INCREMENTAL" /\ checkpoint'[key] # checkpoint[key]
                        THEN [coveredFrom EXCEPT ![e] = a.since] ELSE coveredFrom
  BY DEF AdvanceCheckpoint, Target
<1>3. PICK b, there : /\ run' = [run EXCEPT ![r] = b] /\ pc' = [pc EXCEPT ![r] = there]
                      /\ ~InPass(there) \/ b.mode # "INCREMENTAL"
  <2>1. CASE a.mode = "BACKFILL" /\ a.more
    <3>1. run' = [run EXCEPT ![r] = run'[r]] /\ pc' = [pc EXCEPT ![r] = pc'[r]]
      BY <2>1, PassStep
    <3>2. run'[r].mode # "INCREMENTAL"
      BY <2>1, PassStep
    <3> QED
      BY <3>1, <3>2
  <2>2. CASE ~(a.mode = "BACKFILL" /\ a.more)
    BY <2>2 DEF AdvanceCheckpoint, AfterEntity, InPass
  <2> QED
    BY <2>1, <2>2
<1>4. \A q \in Runs : Covers(run[q], pc[q])'
  <2>1. run'[r] = b /\ pc'[r] = there
    BY <1>1, <1>3
  <2>2. Covers(run[r], pc[r])'
    BY <1>3, <2>1 DEF Covers
  <2>3. \A t \in Txns : kept[t] <= kept'[t]
    BY <1>1
  <2> QED
    BY <1>1, <1>3, <2>1, <2>2, <2>3, CoversStep
<1>5. ASSUME NEW f \in Entities, checkpoint'[<<f, "INCREMENTAL">>] = checkpoint[<<f, "INCREMENTAL">>],
             coveredFrom'[f] = coveredFrom[f]
      PROVE  CheckpointCovers(f)'
  <2>1. CheckpointCovers(f)
    BY DEF NoGap
  <2> QED
    BY <1>1, <1>5, <2>1 DEF CheckpointCovers, KeptFrom
<1>6. CASE a.mode = "INCREMENTAL" /\ checkpoint'[key] # checkpoint[key]
  <2>1. Covers(a, pc[r])
    BY DEF NoGap
  <2>2. /\ a.until <= clock /\ SeenFrom(a, Behind(a), a.until)
        /\ a.cp # None => a.cp.at <= a.until /\ KeptFrom(e, a.since, a.cp.at)
    BY <1>1, <1>6, <2>1 DEF Covers, Fetched, InPass, Entity
  <2>3. checkpoint'[key].at = a.until
    <3>1. a.cp \in Mark \cup {None} /\ checkpoint[key] \in Mark \cup {None} /\ a.until \in Int
      BY <1>1 DEF Run
    <3>2. PICK judged \in Mark \cup {None} : judged = Judged(a.cp, checkpoint[key])
      BY <3>1 DEF Judged
    <3>3. checkpoint'[key] = Advanced(judged, a.until, checkpoint[key])
      BY <1>1, <1>2, <3>2
    <3>4. CASE judged = None
      BY <3>3, <3>4 DEF Advanced
    <3>5. CASE judged # None /\ ~(a.until <= judged.at)
      <4>1. checkpoint[key] \in Mark
        BY <1>1, <3>1, <3>2, <3>5, RunFacts DEF Judged, Started, Key, Entity
      <4>2. /\ checkpoint'[key] = Flushed(judged, [at |-> a.until, version |-> judged.version + 1],
                                          checkpoint[key])
            /\ "at" \in DOMAIN checkpoint[key] /\ judged.at \in Int /\ a.until # judged.at
        BY <3>1, <3>2, <3>3, <3>5, <4>1 DEF Advanced, Mark
      <4> QED
        BY <4>2 DEF Flushed
    <3>6. CASE judged # None /\ a.until <= judged.at
      BY <1>6, <3>3, <3>6 DEF Advanced
    <3> QED
      BY <3>4, <3>5, <3>6
  <2>4. coveredFrom' = [coveredFrom EXCEPT ![e] = a.since]
    BY <1>2, <1>6
  <2>5. ASSUME NEW t \in OfEntity(e), a.since <= remote[t].at, remote[t].at < a.until
        PROVE  remote[t].version <= kept[t]
    <3>1. /\ t \in Txns /\ remote[t].at \in Int /\ remote[t].version \in Nat
          /\ kept[t] \in Nat /\ a.since \in Int /\ a.until \in Int
          /\ a.cp # None => a.cp.at \in Int
      BY <1>1 DEF OfEntity, Run, Mark
    <3>2. CASE remote[t].version = 0
      BY <3>1, <3>2
    <3>3. CASE a.cp # None /\ remote[t].at < a.cp.at
      BY <2>2, <2>5, <3>3 DEF KeptFrom
    <3>4. CASE remote[t].version > 0 /\ ~(a.cp # None /\ remote[t].at < a.cp.at)
      <4>1. Behind(a) <= remote[t].at
        BY <2>5, <3>1, <3>4 DEF Behind
      <4>2. PICK rec \in a.seen : rec.id = t /\ remote[t].version <= rec.version
        BY <2>2, <2>5, <3>4, <4>1 DEF SeenFrom, Entity
      <4>3. Held(rec, a, draft[r], kept) /\ a.page = {}
        BY <1>1 DEF Accounted
      <4>4. DOMAIN draft[r] = {}
        BY <1>1, NoDraftFacts DEF Typed
      <4>5. rec.version <= kept[t] /\ rec.version \in Nat
        BY <1>1, <4>2, <4>3, <4>4 DEF Held, Run, Record
      <4> QED
        BY <3>1, <4>2, <4>5
    <3> QED
      BY <3>1, <3>2, <3>3, <3>4
  <2>6. ASSUME NEW f \in Entities, f = e PROVE CheckpointCovers(f)'
    <3>1. /\ checkpoint'[<<f, "INCREMENTAL">>].at = a.until /\ coveredFrom'[f] = a.since
          /\ remote' = remote /\ kept' = kept /\ clock' = clock
      BY <1>1, <1>6, <2>3, <2>4, <2>6
    <3> QED
      BY <2>2, <2>5, <2>6, <3>1 DEF CheckpointCovers, KeptFrom
  <2>7. ASSUME NEW f \in Entities, f # e PROVE CheckpointCovers(f)'
    <3>1. checkpoint'[<<f, "INCREMENTAL">>] = checkpoint[<<f, "INCREMENTAL">>]
      BY <1>1, <1>2, <2>7
    <3>2. coveredFrom'[f] = coveredFrom[f]
      BY <1>1, <2>4, <2>7
    <3> QED
      BY <1>5, <3>1, <3>2
  <2>8. \A f \in Entities : CheckpointCovers(f)'
    BY <2>6, <2>7
  <2> QED
    BY <1>1, <1>4, <2>8 DEF NoGap
<1>7. CASE ~(a.mode = "INCREMENTAL" /\ checkpoint'[key] # checkpoint[key])
  <2>1. coveredFrom' = coveredFrom
    BY <1>2, <1>7
  <2>2. ASSUME NEW f \in Entities
        PROVE  checkpoint'[<<f, "INCREMENTAL">>] = checkpoint[<<f, "INCREMENTAL">>]
    <3>1. a.mode = "INCREMENTAL" => checkpoint' = checkpoint
      BY <1>1, <1>2, <1>7
    <3>2. a.mode # "INCREMENTAL" => key # <<f, "INCREMENTAL">>
      BY <1>1
    <3> QED
      BY <1>1, <1>2, <3>1, <3>2
  <2>3. \A f \in Entities : CheckpointCovers(f)'
    BY <1>5, <2>1, <2>2
  <2> QED
    BY <1>1, <1>4, <2>3 DEF NoGap
<1> QED
  BY <1>6, <1>7

\* Time passes.
LEMMA NoGapTick ==
  ASSUME SyncInv, NoGap, Tick
  PROVE  NoGap'
<1>1. /\ clock \in Int /\ clock' = clock + 1
      /\ UNCHANGED <<remote, checkpoint, run, pc, kept, coveredFrom>>
      /\ remote \in [Txns -> [version : Nat, at : Int, live : BOOLEAN]]
      /\ checkpoint \in [Keys -> Mark \cup {None}]
  BY DEF Tick, SyncInv, SharedOK
<1>2. \A n \in Int : n <= clock => n <= clock'
  BY <1>1
<1>3. \A t \in Txns : remote'[t].at <= clock'
  BY <1>1, <1>2 DEF NoGap
<1>4. ASSUME NEW e \in Entities PROVE CheckpointCovers(e)'
  <2>1. CheckpointCovers(e)
    BY DEF NoGap
  <2>2. checkpoint[<<e, "INCREMENTAL">>] # None => checkpoint[<<e, "INCREMENTAL">>].at \in Int
    BY <1>1 DEF Keys, Mark
  <2> QED
    BY <1>1, <1>2, <2>1, <2>2 DEF CheckpointCovers, KeptFrom
<1>5. ASSUME NEW r \in Runs PROVE Covers(run[r], pc[r])'
  <2>1. Covers(run[r], pc[r])
    BY DEF NoGap
  <2>2. InPass(pc[r]) => run[r].until \in Int
    BY RunFacts DEF InPass, Run
  <2> QED
    BY <1>1, <1>2, <2>1, <2>2 DEF Covers, Fetched, SeenFrom, KeptFrom, Behind
<1> QED
  BY <1>3, <1>4, <1>5 DEF NoGap

\* A change is later than all that anyone vouches for.
LEMMA NoGapRemote ==
  ASSUME SyncInv, NoGap, NEW u \in Txns, Edit(u) \/ Delete(u)
  PROVE  NoGap'
<1>1. /\ clock \in Int /\ remote'[u].at = clock
      /\ UNCHANGED <<clock, checkpoint, pc, kept, coveredFrom>>
      /\ remote \in [Txns -> [version : Nat, at : Int, live : BOOLEAN]]
      /\ checkpoint \in [Keys -> Mark \cup {None}]
      /\ \A t \in Txns : t # u => remote'[t] = remote[t]
  BY DEF Edit, Delete, SyncInv, SharedOK
<1>2. \A t \in Txns : remote'[t].at <= clock'
  BY <1>1 DEF NoGap
<1>3. ASSUME NEW e, NEW from, NEW until \in Int, until <= clock, KeptFrom(e, from, until)
      PROVE  KeptFrom(e, from, until)'
  <2> SUFFICES ASSUME NEW t \in OfEntity(e), from <= remote'[t].at, remote'[t].at < until
               PROVE  remote'[t].version <= kept'[t]
    BY DEF KeptFrom
  <2>1. t \in Txns /\ t # u
    BY <1>1, <1>3 DEF OfEntity
  <2> QED
    BY <1>1, <1>3, <2>1 DEF KeptFrom
<1>4. ASSUME NEW e \in Entities PROVE CheckpointCovers(e)'
  <2>1. CheckpointCovers(e)
    BY DEF NoGap
  <2>2. checkpoint[<<e, "INCREMENTAL">>] # None => checkpoint[<<e, "INCREMENTAL">>].at \in Int
    BY <1>1 DEF Keys, Mark
  <2>3. PICK cp, from : cp = checkpoint[<<e, "INCREMENTAL">>] /\ from = coveredFrom[e]
    OBVIOUS
  <2>4. cp # None => KeptFrom(e, from, cp.at)'
    BY <1>3, <2>1, <2>2, <2>3 DEF CheckpointCovers
  <2> QED
    BY <1>1, <2>1, <2>3, <2>4 DEF CheckpointCovers, KeptFrom
<1>5. ASSUME NEW r \in Runs, InPass(pc[r]), run[r].mode = "INCREMENTAL"
      PROVE  Covers(run[r], pc[r])'
  <2> DEFINE a == run[r]
  <2>1. /\ Covers(a, pc[r])
        /\ a \in Run
    BY <1>5, RunFacts DEF NoGap, InPass
  <2>2. /\ a.until \in Int /\ a.until <= clock /\ a.since \in Int
        /\ a.cp # None => a.cp.at \in Int /\ a.cp.at <= a.until
    BY <1>5, <2>1 DEF Run, Mark, Covers
  <2>3. LET b == run'[r] IN
        /\ b.mode = a.mode /\ b.list = a.list /\ b.n = a.n /\ b.cp = a.cp
        /\ b.since = a.since /\ b.until = a.until /\ b.windows = a.windows
        /\ b.answer = a.answer /\ b.seen = a.seen
    <3>1. \/ run'[r] = a
          \/ run'[r] = [a EXCEPT !.initial[a.n] = NothingToFind]
      BY DEF Edit, Delete
    <3> QED
      BY <2>1, <3>1 DEF Run
  <2>4. SeenFrom(a, Behind(a), a.until) => SeenFrom(run[r], Behind(run[r]), run[r].until)'
    <3> SUFFICES ASSUME SeenFrom(a, Behind(a), a.until),
                        NEW t \in OfEntity(a.list[a.n]),
                        Behind(a) <= remote'[t].at, remote'[t].at < a.until,
                        remote'[t].version > 0
                 PROVE  \E rec \in a.seen : rec.id = t /\ remote'[t].version <= rec.version
      BY <2>3 DEF SeenFrom, Behind
    <3>1. t \in Txns /\ t # u
      BY <1>1, <2>2 DEF OfEntity
    <3> QED
      BY <1>1, <3>1 DEF SeenFrom
  <2>5. Fetched(run[r], pc[r])'
    BY <1>1, <1>5, <2>1, <2>3, <2>4 DEF Covers, Fetched, Behind
  <2>6. a.cp # None => KeptFrom(run[r].list[run[r].n], run[r].since, run[r].cp.at)'
    <3>1. PICK e, from, until : e = a.list[a.n] /\ from = a.since /\ until = a.cp.at
      OBVIOUS
    <3>2. a.cp # None => KeptFrom(e, from, until)
      BY <1>5, <2>1, <3>1 DEF Covers
    <3>3. a.cp # None => until \in Int /\ until <= clock
      BY <1>1, <2>2, <3>1
    <3>4. a.cp # None => KeptFrom(e, from, until)'
      BY <1>3, <3>2, <3>3
    <3> QED
      BY <2>3, <3>1, <3>4 DEF KeptFrom
  <2> QED
    BY <1>1, <2>2, <2>3, <2>5, <2>6 DEF Covers
<1>6. \A r \in Runs : Covers(run[r], pc[r])'
  <2> SUFFICES ASSUME NEW r \in Runs, ~(InPass(pc[r]) /\ run[r].mode = "INCREMENTAL")
               PROVE  Covers(run[r], pc[r])'
    BY <1>5
  <2>1. InPass(pc[r]) => run[r] \in Run
    BY RunFacts DEF InPass
  <2>2. InPass(pc[r]) => run'[r].mode = run[r].mode
    BY <2>1 DEF Edit, Delete, Run
  <2> QED
    BY <1>1, <2>2 DEF Covers
<1> QED
  BY <1>2, <1>4, <1>6 DEF NoGap

LEMMA NoGapNext ==
  ASSUME SyncInv, NoGap, [Next]_vars
  PROVE  NoGap'
<1>1. CASE UNCHANGED vars
  BY <1>1 DEF vars, NoGap, CheckpointCovers, Covers, Fetched, SeenFrom, KeptFrom, Behind
<1>2. ASSUME NEW r \in Runs, Step(r) PROVE NoGap'
  <2>1. CASE FetchChanges(r)
    BY <2>1, NoGapFetch
  <2>2. CASE Look(r) \/ Write(r) \/ MissCheckpoint(r)
    BY <2>2, NoGapPersist
  <2>3. CASE CommitAnswer(r)
    BY <2>3, NoGapCommit
  <2>4. CASE EnterEntity(r)
    BY <2>4, NoGapEnter
  <2>5. CASE AdvanceCheckpoint(r)
    BY <2>5, NoGapAdvance
  <2>6. CASE FetchPage(r)
    <3>1. /\ run' = [run EXCEPT ![r] = run'[r]] /\ pc' = [pc EXCEPT ![r] = pc'[r]]
          /\ run'[r].mode # "INCREMENTAL"
      BY <2>6, PassStep DEF FetchPage
    <3> QED
      BY <2>6, <3>1, NoGapIdle DEF FetchPage
  <2>7. CASE \/ Begin(r) \/ RefuseWindow(r) \/ NoMorePages(r) \/ RequestFails(r)
             \/ DatabaseError(r) \/ CheckpointConflict(r) \/ Crash(r) \/ Finish(r)
    <3>1. UNCHANGED <<clock, remote, checkpoint, coveredFrom, kept>>
      BY <2>7 DEF Begin, RefuseWindow, NoMorePages, RequestFails, LeaveEntity,
         DatabaseError, CheckpointConflict, Crash, Abandon, Finish
    <3>2. \E a, where : /\ run' = [run EXCEPT ![r] = a] /\ pc' = [pc EXCEPT ![r] = where]
                        /\ ~InPass(where)
      <4>1. CASE Begin(r)
        BY <4>1, BeginFields DEF Begin, InPass
      <4>2. CASE RefuseWindow(r) \/ NoMorePages(r) \/ RequestFails(r)
        BY <4>2 DEF RefuseWindow, NoMorePages, RequestFails, LeaveEntity, AfterEntity, InPass
      <4>3. CASE DatabaseError(r) \/ CheckpointConflict(r) \/ Crash(r) \/ Finish(r)
        BY <4>3 DEF DatabaseError, CheckpointConflict, Crash, Abandon, Finish, InPass
      <4> QED
        BY <2>7, <4>1, <4>2, <4>3
    <3> QED
      BY <3>1, <3>2, NoGapIdle
  <2> QED
    BY <1>2, <2>1, <2>2, <2>3, <2>4, <2>5, <2>6, <2>7 DEF Step
<1>3. CASE Tick
  BY <1>3, NoGapTick
<1>4. ASSUME NEW t \in Txns, Edit(t) \/ Delete(t) PROVE NoGap'
  BY <1>4, NoGapRemote
<1> QED
  BY <1>1, <1>2, <1>3, <1>4 DEF Next

\* Every change the remote made before an incremental checkpoint, back to where
\* its promise begins, was stored once: for any number of runs that overlap, of
\* windows that are split or refused, and of checkpoints that move backward.
THEOREM NothingSkippedHolds == Spec => []NothingSkipped
<1>1. Init => NoGap
  <2> SUFFICES ASSUME Init PROVE NoGap
    OBVIOUS
  <2>1. \A t \in Txns : remote[t].at <= clock
    BY DEF Init
  <2>2. \A e \in Entities : checkpoint[<<e, "INCREMENTAL">>] = None
    BY DEF Init, Keys
  <2>3. \A r \in Runs : ~InPass(pc[r])
    BY DEF Init, InPass
  <2> QED
    BY <2>1, <2>2, <2>3 DEF NoGap, CheckpointCovers, Covers
<1>2. SyncInv /\ NoGap /\ [Next]_vars => NoGap'
  BY NoGapNext
<1>3. SyncInv /\ NoGap => NothingSkipped
  <2> SUFFICES ASSUME SyncInv, NoGap, NEW e \in Entities,
                      checkpoint[<<e, "INCREMENTAL">>] # None,
                      NEW t \in Changed(e, coveredFrom[e]),
                      remote[t].at < checkpoint[<<e, "INCREMENTAL">>].at
               PROVE  kept[t] >= remote[t].version
    BY DEF NothingSkipped
  <2>1. /\ t \in OfEntity(e) /\ t \in Txns /\ remote[t].at >= coveredFrom[e]
        /\ remote[t].at \in Int /\ coveredFrom[e] \in Int
        /\ remote[t].version \in Nat /\ kept[t] \in Nat
    BY DEF Changed, OfEntity, SyncInv, SharedOK
  <2>2. remote[t].version <= kept[t]
    BY <2>1 DEF NoGap, CheckpointCovers, KeptFrom
  <2> QED
    BY <2>1, <2>2
<1> QED
  BY <1>1, <1>2, <1>3, SyncInvariance, PTL DEF Spec
=============================================================================
