-------------------------- MODULE WriteBackProofs ---------------------------
(***************************************************************************)
(* Proofs about WriteBackJobs, for any sets of jobs, calls, workers and    *)
(* recoveries.  The inductive invariant is JobsInv.  Its core is           *)
(* DraftsAreCurrent: under the row lock, what a transaction is about to    *)
(* commit stays what it would compute from the committed row, so that each *)
(* commit is one atomic step of WriteBackLedger.  That is the last part:   *)
(* WriteBackJobs implements WriteBackLedger.                               *)
(***************************************************************************)
EXTENDS WriteBackJobs, TLAPS

USE RowsAssumption, JobsAssumption

\* No status is its own successor.
LEMMA NoSelfLoops == \A s : <<s, s>> \notin WRITEBACK_JOB_TRANSITIONS
  BY DEF WRITEBACK_JOB_TRANSITIONS

\* The row a call writes is a row.
LEMMA TransitionedRow ==
  ASSUME NEW s, s.row \in Row, s.to \in WriteBackJobStatus,
         s.by \in Principals, NEW base \in Row
  PROVE  Transitioned(s, base) \in Row
<1>1. Assigned(s) \in Row
  <2>1. s.row.version + 1 \in Nat /\ s.row.attempt_count + 1 \in Nat
    BY DEF Row
  <2>2. s.by \in Principals \cup Workers \cup {NoOne}
    OBVIOUS
  <2> QED
    BY <2>1, <2>2 DEF Assigned, Row
<1>2. Flushed(s.row, Assigned(s), base) \in Row
  BY <1>1 DEF Flushed, Row
<1> QED
  BY <1>2 DEF Transitioned, Row

\* It does not depend on the age of the row it is written over.
LEMMA AgeIsOverwritten ==
  ASSUME NEW s, NEW base \in Row
  PROVE  Transitioned(s, [base EXCEPT !.stale = TRUE]) = Transitioned(s, base)
<1> DEFINE old == [base EXCEPT !.stale = TRUE]
           new == Assigned(s)
<1>1. Flushed(s.row, new, old) =
          [col \in DOMAIN base |-> IF new[col] # s.row[col] THEN new[col]
                                   ELSE old[col]]
  BY DEF Flushed, Row
<1>2. Flushed(s.row, new, base) =
          [col \in DOMAIN base |-> IF new[col] # s.row[col] THEN new[col]
                                   ELSE base[col]]
  BY DEF Flushed
<1>3. \A col \in DOMAIN base : col # "stale" => old[col] = base[col]
  BY DEF Row
<1> HIDE DEF old, new
<1>4. [Flushed(s.row, new, old) EXCEPT !.stale = FALSE] =
      [Flushed(s.row, new, base) EXCEPT !.stale = FALSE]
  BY <1>1, <1>2, <1>3
<1> QED
  BY <1>4 DEF Transitioned, old, new

\* The rows a worker and a recovery write.
LEMMA WorkerRows ==
  ASSUME NEW row \in Row
  PROVE  /\ Recovered(row) \in Row
         /\ \A w \in Workers : /\ Processed(row, w) \in Row
                               /\ Processed(row, w).attempt_count =
                                     row.attempt_count + 1
<1>1. {"FAILED_RETRYABLE", "SUCCEEDED"} \subseteq WriteBackJobStatus
  BY DEF WriteBackJobStatus
<1>2. row.attempt_count + 1 \in Nat
  BY DEF Row
<1>3. Recovered(row) \in Row
  BY <1>1 DEF Recovered, Row
<1>4. ASSUME NEW w \in Workers
      PROVE  /\ Processed(row, w) \in Row
             /\ Processed(row, w).attempt_count = row.attempt_count + 1
  BY <1>1, <1>2 DEF Processed, Row
<1> QED
  BY <1>3, <1>4

\* What a worker or a recovery makes of a row does not depend on its age, and
\* ageing makes no job ineligible.
LEMMA WorkerRowsAge ==
  ASSUME NEW row \in Row
  PROVE  LET old == [row EXCEPT !.stale = TRUE] IN
         /\ Recovered(old) = Recovered(row)
         /\ \A w \in Workers : Processed(old, w) = Processed(row, w)
         /\ Eligible(row) => Eligible(old)
         /\ Orphaned(row) => Orphaned(old)
  BY DEF Recovered, Processed, Eligible, Orphaned, Row

\* A transaction that wrote nothing drafts nothing.
LEMMA NoDraftFacts == DOMAIN NoDraft = {} /\ NoDraft \in [DOMAIN NoDraft -> Row]
  BY DEF NoDraft

-----------------------------------------------------------------------------
\* The draft of a process survives a step that leaves it, its locks, its
\* request and the rows under it alone.
LEMMA DraftKept ==
  ASSUME NEW q \in Procs, NEW j \in DOMAIN draft[q], DraftIsCurrent(q, j),
         draft'[q] = draft[q], lock'[j] = q, job'[j] = job[j],
         q \in Requests => ask'[q] = ask[q]
  PROVE  DraftIsCurrent(q, j)'
  BY DEF DraftIsCurrent

\* Jobs as they are found, without calls, satisfy the invariant.
LEMMA InitInv == Init => JobsInv
<1> SUFFICES ASSUME Init PROVE JobsInv
  OBVIOUS
<1>1. job \in [Jobs -> Row]
  <2>1. \A s \in Starts : NewJob(s) \in Row
    BY DEF NewJob, Row
  <2> QED
    BY <2>1 DEF Init
<1>2. TypeOK
  <2>1. /\ attempts \in [Jobs -> Seq(Attempt)]
        /\ audit \in [Jobs -> Seq(Requests)]
    BY DEF Init
  <2>2. /\ draft = [p \in Procs |-> draft[p]]
        /\ \A p \in Procs : /\ DOMAIN draft[p] \subseteq Jobs
                            /\ draft[p] \in [DOMAIN draft[p] -> Row]
    BY NoDraftFacts DEF Init
  <2>3. /\ lock \in [Jobs -> Procs \cup {NoOne}]
        /\ ask = [r \in Requests |-> NoOne]
        /\ todo \in [Recoverers -> SUBSET Jobs]
        /\ pc = [p \in Procs |-> IF p \in Requests THEN "new" ELSE "idle"]
    BY DEF Init
  <2> QED
    <3>1. pc \in [Procs -> Places]
      BY <2>3 DEF Places
    <3>2. ask \in [Requests -> Ask \cup {NoOne}]
      BY <2>3
    <3> QED
      BY <1>1, <2>1, <2>2, <2>3, <3>1, <3>2 DEF TypeOK
<1>3. ProcsAreSound
  BY DEF Init, ProcsAreSound, ProcIsSound, Procs
<1>4. DraftsAreCurrent /\ AttemptsAreBounded
  BY NoDraftFacts DEF Init, DraftsAreCurrent, AttemptsAreBounded
<1> QED
  BY <1>2, <1>3, <1>4 DEF JobsInv

\* A rollback frees the locks of p and no others.
LEMMA RollBackInv ==
  ASSUME JobsInv, NEW p \in Procs, NEW where, RollBack(p, where),
         p \in Requests => where \in {"refused", "aborted"} /\ pc[p] # "new",
         p \notin Requests => where = "idle",
         todo' \in [Recoverers -> SUBSET Jobs]
  PROVE  JobsInv'
<1> USE DEF JobsInv
<1>1. /\ pc' = [pc EXCEPT ![p] = where]
      /\ draft' = [draft EXCEPT ![p] = NoDraft]
      /\ lock' = Unlocked(p)
      /\ UNCHANGED <<job, attempts, audit, ask>>
  BY DEF RollBack
<1>2. \A q \in Procs : draft'[q] = IF q = p THEN NoDraft ELSE draft[q]
  BY <1>1 DEF TypeOK
<1>3. TypeOK'
  <2>1. lock' \in [Jobs -> Procs \cup {NoOne}]
    BY <1>1 DEF TypeOK, Unlocked
  <2>2. pc' \in [Procs -> Places]
    BY <1>1 DEF TypeOK, Places
  <2>3. /\ draft' = [q \in Procs |-> draft'[q]]
        /\ \A q \in Procs : /\ DOMAIN draft'[q] \subseteq Jobs
                            /\ draft'[q] \in [DOMAIN draft'[q] -> Row]
    BY <1>1, <1>2, NoDraftFacts DEF TypeOK
  <2> QED
    BY <1>1, <2>1, <2>2, <2>3 DEF TypeOK
<1>4. ProcsAreSound'
  <2> SUFFICES ASSUME NEW q \in Procs PROVE ProcIsSound(q)'
    BY DEF ProcsAreSound
  <2>1. ProcIsSound(q)
    BY DEF ProcsAreSound
  <2> QED
    BY <1>1, <1>2, <2>1 DEF ProcIsSound, TypeOK, Procs
<1>5. DraftsAreCurrent'
  <2> SUFFICES ASSUME NEW q \in Procs, NEW j \in DOMAIN draft'[q]
               PROVE  DraftIsCurrent(q, j)'
    BY DEF DraftsAreCurrent
  <2>1. q # p /\ draft'[q] = draft[q] /\ DraftIsCurrent(q, j)
    BY <1>2, NoDraftFacts DEF DraftsAreCurrent
  <2>2. lock'[j] = q
    BY <1>1, <2>1 DEF Unlocked, DraftIsCurrent, TypeOK
  <2> QED
    BY <1>1, <2>1, <2>2, DraftKept
<1>6. AttemptsAreBounded'
  BY <1>1 DEF AttemptsAreBounded
<1> QED
  BY <1>3, <1>4, <1>5, <1>6

-----------------------------------------------------------------------------
(* Steps that write no job.                                                *)

\* A step that leaves rows, locks and drafts alone and changes no request that
\* has a draft keeps every draft current.
LEMMA QuietStep ==
  ASSUME JobsInv, UNCHANGED <<job, lock, draft>>,
         \A q \in Requests : ask'[q] = ask[q] \/ draft[q] = NoDraft
  PROVE  DraftsAreCurrent'
<1> SUFFICES ASSUME NEW q \in Procs, NEW j \in DOMAIN draft[q]
             PROVE  DraftIsCurrent(q, j)'
  BY DEF DraftsAreCurrent
<1>1. DraftIsCurrent(q, j) /\ lock[j] = q
  BY DEF JobsInv, DraftsAreCurrent, DraftIsCurrent
<1>2. q \in Requests => ask'[q] = ask[q]
  BY NoDraftFacts
<1> QED
  BY <1>1, <1>2, DraftKept

\* A call that arrives has no draft.
LEMMA ReceiveInv ==
  ASSUME JobsInv, NEW r \in Requests, Receive(r)
  PROVE  JobsInv'
<1> USE DEF JobsInv
<1>1. /\ pc[r] = "new" /\ pc' = [pc EXCEPT ![r] = "load"]
      /\ UNCHANGED <<job, attempts, audit, lock, todo, draft>>
  BY DEF Receive
<1>2. PICK a \in Ask : ask' = [ask EXCEPT ![r] = a]
  <2>1. PICK j \in Jobs, by \in Principals, via \in {"execute", "direct"} :
          \E to \in IF via = "execute" THEN {"IN_PROGRESS"} ELSE DirectTargets :
             ask' = [ask EXCEPT ![r] = [job |-> j, row |-> NoOne, to |-> to,
                                        by |-> by, via |-> via]]
    BY DEF Receive
  <2>2. PICK to \in WriteBackJobStatus :
             ask' = [ask EXCEPT ![r] = [job |-> j, row |-> NoOne, to |-> to,
                                        by |-> by, via |-> via]]
    BY <2>1 DEF WriteBackJobStatus
  <2> QED
    BY <2>2 DEF Ask
<1>3. TypeOK'
  BY <1>1, <1>2 DEF TypeOK, Places
<1>4. ask'[r] \in Ask
  BY <1>2 DEF TypeOK
<1>5. draft[r] = NoDraft
  BY <1>1 DEF ProcsAreSound, ProcIsSound, Procs
<1>6. ProcsAreSound'
  <2> SUFFICES ASSUME NEW q \in Procs PROVE ProcIsSound(q)'
    BY DEF ProcsAreSound
  <2>1. ProcIsSound(q)
    BY DEF ProcsAreSound
  <2> QED
    BY <1>1, <1>2, <1>4, <1>5, <2>1 DEF ProcIsSound, TypeOK, Procs
<1>7. \A q \in Requests : ask'[q] = ask[q] \/ draft[q] = NoDraft
  BY <1>2, <1>5 DEF TypeOK
<1> QED
  BY <1>1, <1>3, <1>6, <1>7, QuietStep DEF AttemptsAreBounded

\* The unlocked SELECT of transition_writeback_job: what the call keeps has
\* passed the checks.
LEMMA LoadInv ==
  ASSUME JobsInv, NEW r \in Requests, Load(r)
  PROVE  JobsInv'
<1> USE DEF JobsInv
<1>1. /\ pc[r] = "load" /\ pc' = [pc EXCEPT ![r] = "flush"] /\ Accepted(r)
      /\ ask' = [ask EXCEPT ![r] = Loaded(r)]
      /\ UNCHANGED <<job, attempts, audit, lock, todo, draft>>
  BY DEF Load
<1>2. ask[r] \in Ask /\ draft[r] = NoDraft
  BY <1>1 DEF ProcsAreSound, ProcIsSound, Procs, TypeOK
<1>3. Loaded(r) \in Ask /\ Loaded(r).row \in Row
  BY <1>2 DEF Loaded, Ask, TypeOK
<1>4. ask'[r] = Loaded(r)
  BY <1>1 DEF TypeOK
<1>5. TypeOK'
  BY <1>1, <1>3 DEF TypeOK, Places
<1>6. require_realm(ask[r])' /\ validate_writeback_job_transition(ask[r])'
  BY <1>1 DEF Accepted, require_realm, validate_writeback_job_transition, TypeOK
<1>7. ProcsAreSound'
  <2> SUFFICES ASSUME NEW q \in Procs PROVE ProcIsSound(q)'
    BY DEF ProcsAreSound
  <2>1. ProcIsSound(q)
    BY DEF ProcsAreSound
  <2>2. CASE q = r
    BY <1>1, <1>2, <1>3, <1>4, <1>6, <2>2 DEF ProcIsSound, TypeOK, Procs
  <2>3. CASE q # r
    BY <1>1, <2>1, <2>3 DEF ProcIsSound, TypeOK, Procs, require_realm,
                            validate_writeback_job_transition
  <2> QED
    BY <2>2, <2>3
<1>8. \A q \in Requests : ask'[q] = ask[q] \/ draft[q] = NoDraft
  BY <1>1, <1>2 DEF TypeOK
<1> QED
  BY <1>1, <1>5, <1>7, <1>8, QuietStep DEF AttemptsAreBounded

\* A recovery that starts or passes a row over writes nothing.
LEMMA RecoveryMovesInv ==
  ASSUME JobsInv, NEW v \in Recoverers, StartRecovery(v) \/ PassOver(v)
  PROVE  JobsInv'
<1> USE DEF JobsInv
<1>1. /\ UNCHANGED <<job, attempts, audit, lock, ask, draft>>
      /\ todo' \in [Recoverers -> SUBSET Jobs]
      /\ pc' = pc \/ pc' = [pc EXCEPT ![v] = "recovering"]
  <2>1. CASE StartRecovery(v)
    <3>1. {j \in Jobs : Orphaned(job[j])} \in SUBSET Jobs
      OBVIOUS
    <3> QED
      BY <2>1, <3>1 DEF StartRecovery, TypeOK
  <2>2. CASE PassOver(v)
    <3>1. PICK j \in todo[v] : todo' = [todo EXCEPT ![v] = @ \ {j}]
      BY <2>2 DEF PassOver
    <3>2. todo[v] \ {j} \in SUBSET Jobs
      BY DEF TypeOK
    <3> QED
      BY <2>2, <3>1, <3>2 DEF PassOver, TypeOK
  <2> QED
    BY <2>1, <2>2
<1>2. TypeOK'
  BY <1>1 DEF TypeOK, Places
<1>3. ProcsAreSound'
  <2> SUFFICES ASSUME NEW q \in Procs PROVE ProcIsSound(q)'
    BY DEF ProcsAreSound
  <2>1. ProcIsSound(q)
    BY DEF ProcsAreSound
  <2>2. CASE pc' = pc
    BY <1>1, <2>1, <2>2 DEF ProcIsSound
  <2>3. CASE pc' = [pc EXCEPT ![v] = "recovering"]
    BY <1>1, <2>1, <2>3 DEF ProcIsSound, TypeOK, Procs
  <2> QED
    BY <1>1, <2>2, <2>3
<1> QED
  BY <1>1, <1>2, <1>3, QuietStep DEF AttemptsAreBounded

-----------------------------------------------------------------------------
(* Steps that take locks and draft rows.                                   *)

\* A transaction p locks the free rows S and drafts for them rows that are
\* current; what it had drafted stays.
LEMMA StageInv ==
  ASSUME JobsInv, NEW p \in Procs, NEW S \in SUBSET Jobs,
         \A j \in S : CanLock(p, j),
         NEW new, new \in [DOMAIN draft[p] \cup S -> Row],
         \A j \in DOMAIN draft[p] \ S : new[j] = draft[p][j],
         draft' = [draft EXCEPT ![p] = new],
         lock' = [j \in Jobs |-> IF j \in S THEN p ELSE lock[j]],
         UNCHANGED <<job, ask>>,
         \A j \in S : DraftIsCurrent(p, j)'
  PROVE  /\ DraftsAreCurrent'
         /\ lock' \in [Jobs -> Procs \cup {NoOne}]
         /\ draft' = [q \in Procs |-> draft'[q]]
         /\ \A q \in Procs : /\ DOMAIN draft'[q] \subseteq Jobs
                             /\ draft'[q] \in [DOMAIN draft'[q] -> Row]
         /\ \A q \in Procs : draft'[q] = IF q = p THEN new ELSE draft[q]
<1> USE DEF JobsInv
<1>1. \A q \in Procs : draft'[q] = IF q = p THEN new ELSE draft[q]
  BY DEF TypeOK
<1>2. DraftsAreCurrent'
  <2> SUFFICES ASSUME NEW q \in Procs, NEW j \in DOMAIN draft'[q],
                      q # p \/ j \notin S
               PROVE  DraftIsCurrent(q, j)'
    BY DEF DraftsAreCurrent
  <2>1. j \in DOMAIN draft[q] /\ draft'[q][j] = draft[q][j]
    BY <1>1
  <2>2. DraftIsCurrent(q, j) /\ j \in Jobs
    BY <2>1 DEF DraftsAreCurrent, TypeOK
  <2>3. lock'[j] = q
    BY <2>2 DEF DraftIsCurrent, CanLock
  <2> QED
    BY <2>1, <2>2, <2>3 DEF DraftIsCurrent
<1>3. lock' \in [Jobs -> Procs \cup {NoOne}]
  BY DEF TypeOK
<1>4. \A q \in Procs : /\ DOMAIN draft'[q] \subseteq Jobs
                       /\ draft'[q] \in [DOMAIN draft'[q] -> Row]
  BY <1>1 DEF TypeOK
<1> QED
  BY <1>1, <1>2, <1>3, <1>4 DEF TypeOK

\* The UPDATE of a call writes its changes over the row that is there.
LEMMA FlushInv ==
  ASSUME JobsInv, NEW r \in Requests, Flush(r)
  PROVE  JobsInv'
<1> USE DEF JobsInv
<1> PICK j : j = ask[r].job
  OBVIOUS
<1> PICK new : new = [k \in {j} |-> Transitioned(ask[r], job[j])]
  OBVIOUS
<1>1. /\ pc[r] = "flush" /\ pc' = [pc EXCEPT ![r] = "commit"]
      /\ CanLock(r, j)
      /\ lock' = [lock EXCEPT ![j] = r]
      /\ draft' = [draft EXCEPT ![r] = new]
      /\ UNCHANGED <<job, attempts, audit, ask, todo>>
  BY DEF Flush
<1>2. /\ ask[r] \in Ask /\ ask[r].row \in Row /\ draft[r] = NoDraft
      /\ r \in Procs
  BY <1>1 DEF ProcsAreSound, ProcIsSound, Procs
<1>3. j \in Jobs /\ Transitioned(ask[r], job[j]) \in Row
  BY <1>2, TransitionedRow DEF Ask, TypeOK
<1>4. DOMAIN draft[r] = {} /\ DOMAIN new = {j}
  BY <1>2, NoDraftFacts
<1>5. new \in [DOMAIN draft[r] \cup {j} -> Row]
  BY <1>3, <1>4
<1>6. lock' = [k \in Jobs |-> IF k \in {j} THEN r ELSE lock[k]]
  BY <1>1, <1>3 DEF TypeOK
<1>7. DraftIsCurrent(r, j)'
  BY <1>1, <1>2, <1>3, <1>6 DEF DraftIsCurrent, TypeOK, Procs
<1>8. /\ DraftsAreCurrent'
      /\ lock' \in [Jobs -> Procs \cup {NoOne}]
      /\ draft' = [q \in Procs |-> draft'[q]]
      /\ \A q \in Procs : /\ DOMAIN draft'[q] \subseteq Jobs
                          /\ draft'[q] \in [DOMAIN draft'[q] -> Row]
      /\ \A q \in Procs : draft'[q] = IF q = r THEN new ELSE draft[q]
  <2>1. {j} \in SUBSET Jobs /\ \A k \in {j} : CanLock(r, k)
    BY <1>1, <1>3
  <2>2. \A k \in {j} : DraftIsCurrent(r, k)'
    BY <1>7
  <2>3. \A k \in DOMAIN draft[r] \ {j} : new[k] = draft[r][k]
    BY <1>4
  <2>4. draft' = [draft EXCEPT ![r] = new] /\ UNCHANGED <<job, ask>>
    BY <1>1
  <2> QED
    BY <1>2, <1>5, <1>6, <2>1, <2>2, <2>3, <2>4, StageInv
<1>9. TypeOK'
  BY <1>1, <1>8 DEF TypeOK, Places
<1>10. ProcsAreSound'
  <2> SUFFICES ASSUME NEW q \in Procs PROVE ProcIsSound(q)'
    BY DEF ProcsAreSound
  <2>1. ProcIsSound(q)
    BY DEF ProcsAreSound
  <2> QED
    BY <1>1, <1>4, <1>8, <2>1 DEF ProcIsSound, TypeOK, Procs, require_realm,
                                  validate_writeback_job_transition
<1> QED
  BY <1>1, <1>8, <1>9, <1>10 DEF AttemptsAreBounded

\* A worker drafts eligible rows under their locks.
LEMMA LeaseBatchInv ==
  ASSUME JobsInv, NEW w \in Workers, LeaseBatch(w)
  PROVE  JobsInv'
<1> USE DEF JobsInv
<1> PICK S : S = FirstOf(Leasable(w))
  OBVIOUS
<1> PICK new : new = [j \in S |-> Processed(job[j], w)]
  OBVIOUS
<1>1. /\ pc[w] = "idle" /\ pc' = [pc EXCEPT ![w] = "leased"]
      /\ lock' = [j \in Jobs |-> IF j \in S THEN w ELSE lock[j]]
      /\ draft' = [draft EXCEPT ![w] = new]
      /\ UNCHANGED <<job, attempts, audit, ask, todo>>
  BY DEF LeaseBatch
<1>2. S \in SUBSET Jobs /\ \A j \in S : Eligible(job[j]) /\ CanLock(w, j)
  BY DEF FirstOf, Leasable
<1>3. draft[w] = NoDraft /\ w \in Procs /\ w \notin Requests \cup Recoverers
  BY <1>1 DEF ProcsAreSound, ProcIsSound, Procs
<1>4. DOMAIN draft[w] = {}
  BY <1>3, NoDraftFacts
<1>5. new \in [DOMAIN draft[w] \cup S -> Row]
  BY <1>2, <1>4, WorkerRows DEF TypeOK
<1>6. ASSUME NEW j \in S PROVE DraftIsCurrent(w, j)'
  BY <1>1, <1>2, <1>3 DEF DraftIsCurrent, TypeOK
<1>7. /\ DraftsAreCurrent'
      /\ lock' \in [Jobs -> Procs \cup {NoOne}]
      /\ draft' = [q \in Procs |-> draft'[q]]
      /\ \A q \in Procs : /\ DOMAIN draft'[q] \subseteq Jobs
                          /\ draft'[q] \in [DOMAIN draft'[q] -> Row]
      /\ \A q \in Procs : draft'[q] = IF q = w THEN new ELSE draft[q]
  BY <1>1, <1>2, <1>3, <1>4, <1>5, <1>6, StageInv
<1>8. TypeOK'
  BY <1>1, <1>7 DEF TypeOK, Places
<1>9. ProcsAreSound'
  <2> SUFFICES ASSUME NEW q \in Procs PROVE ProcIsSound(q)'
    BY DEF ProcsAreSound
  <2>1. ProcIsSound(q)
    BY DEF ProcsAreSound
  <2> QED
    BY <1>1, <1>3, <1>7, <2>1 DEF ProcIsSound, TypeOK, Procs, require_realm,
                                  validate_writeback_job_transition
<1> QED
  BY <1>1, <1>7, <1>8, <1>9 DEF AttemptsAreBounded

\* A recovery drafts a row that is still an orphan once it has the lock.
LEMMA RecoverJobInv ==
  ASSUME JobsInv, NEW v \in Recoverers, RecoverJob(v)
  PROVE  JobsInv'
<1> USE DEF JobsInv
<1>a. PICK j \in todo[v] :
      /\ CanLock(v, j)
      /\ StillOrphaned(j)
      /\ lock' = [lock EXCEPT ![j] = v]
      /\ draft' = [draft EXCEPT ![v] =
                      [k \in DOMAIN draft[v] \cup {j} |->
                          IF k = j THEN Recovered(job[j])
                                   ELSE draft[v][k]]]
      /\ todo' = [todo EXCEPT ![v] = @ \ {j}]
      /\ UNCHANGED <<job, attempts, audit, pc, ask>>
  BY DEF RecoverJob
<1>b. PICK new : new = [k \in DOMAIN draft[v] \cup {j} |->
                          IF k = j THEN Recovered(job[j])
                                   ELSE draft[v][k]]
  OBVIOUS
<1>1. j \in Jobs /\ v \in Procs /\ v \notin Requests \cup Workers
  BY DEF TypeOK, Procs
<1>2. Recovered(job[j]) \in Row
  BY <1>1, WorkerRows DEF TypeOK
<1>3. new \in [DOMAIN draft[v] \cup {j} -> Row]
  BY <1>b, <1>1, <1>2 DEF TypeOK
<1>4. lock' = [k \in Jobs |-> IF k \in {j} THEN v ELSE lock[k]]
  BY <1>a, <1>1 DEF TypeOK
<1>5. DraftIsCurrent(v, j)'
  BY <1>a, <1>1, <1>4 DEF DraftIsCurrent, TypeOK, StillOrphaned
<1>6. \A k \in DOMAIN draft[v] \ {j} : new[k] = draft[v][k]
  BY <1>b
<1>7. /\ DraftsAreCurrent'
      /\ lock' \in [Jobs -> Procs \cup {NoOne}]
      /\ draft' = [q \in Procs |-> draft'[q]]
      /\ \A q \in Procs : /\ DOMAIN draft'[q] \subseteq Jobs
                          /\ draft'[q] \in [DOMAIN draft'[q] -> Row]
      /\ \A q \in Procs : draft'[q] = IF q = v THEN new ELSE draft[q]
  <2> PICK S : S = {j}
    OBVIOUS
  <2>1. S \in SUBSET Jobs /\ \A k \in S : CanLock(v, k)
    BY <1>a, <1>1
  <2>2. \A k \in S : DraftIsCurrent(v, k)'
    BY <1>5
  <2>3. draft' = [draft EXCEPT ![v] = new]
    BY <1>a, <1>b
  <2>4. new \in [DOMAIN draft[v] \cup S -> Row]
    BY <1>3
  <2>5. \A k \in DOMAIN draft[v] \ S : new[k] = draft[v][k]
    BY <1>6
  <2>6. lock' = [k \in Jobs |-> IF k \in S THEN v ELSE lock[k]]
    BY <1>4
  <2>7. UNCHANGED <<job, ask>>
    BY <1>a
  <2> HIDE DEF JobsInv
  <2> QED
    BY <1>1, <2>1, <2>2, <2>3, <2>4, <2>5, <2>6, <2>7, StageInv
<1>8. todo' \in [Recoverers -> SUBSET Jobs]
  <2>1. todo[v] \ {j} \in SUBSET Jobs
    BY DEF TypeOK
  <2> QED
    BY <1>a, <2>1 DEF TypeOK
<1>9. TypeOK'
  BY <1>a, <1>7, <1>8 DEF TypeOK
<1>10. pc[v] = "recovering"
  BY DEF RecoverJob
<1>11. ProcsAreSound'
  <2> SUFFICES ASSUME NEW q \in Procs PROVE ProcIsSound(q)'
    BY DEF ProcsAreSound
  <2>1. ProcIsSound(q)
    BY DEF ProcsAreSound
  <2> QED
    BY <1>a, <1>1, <1>7, <1>10, <2>1 DEF ProcIsSound, TypeOK, Procs, require_realm,
                                   validate_writeback_job_transition
<1> QED
  BY <1>a, <1>7, <1>9, <1>11 DEF AttemptsAreBounded

-----------------------------------------------------------------------------
(* Commits.                                                                *)

\* A commit turns the drafts of p into rows and frees its locks; the drafts of
\* the others are of other rows.
LEMMA InstallInv ==
  ASSUME JobsInv, NEW p \in Procs,
         job' = Installed(p),
         lock' = Unlocked(p),
         draft' = [draft EXCEPT ![p] = NoDraft],
         UNCHANGED ask
  PROVE  /\ DraftsAreCurrent'
         /\ job' \in [Jobs -> Row]
         /\ lock' \in [Jobs -> Procs \cup {NoOne}]
         /\ draft' = [q \in Procs |-> draft'[q]]
         /\ \A q \in Procs : /\ DOMAIN draft'[q] \subseteq Jobs
                             /\ draft'[q] \in [DOMAIN draft'[q] -> Row]
         /\ \A q \in Procs : draft'[q] = IF q = p THEN NoDraft ELSE draft[q]
<1> USE DEF JobsInv
<1>1. \A q \in Procs : draft'[q] = IF q = p THEN NoDraft ELSE draft[q]
  BY DEF TypeOK
<1>2. job' \in [Jobs -> Row]
  BY DEF Installed, TypeOK
<1>3. lock' \in [Jobs -> Procs \cup {NoOne}]
  BY DEF Unlocked, TypeOK
<1>4. \A q \in Procs : /\ DOMAIN draft'[q] \subseteq Jobs
                       /\ draft'[q] \in [DOMAIN draft'[q] -> Row]
  BY <1>1, NoDraftFacts DEF TypeOK
<1>5. DraftsAreCurrent'
  <2> SUFFICES ASSUME NEW q \in Procs, NEW j \in DOMAIN draft'[q]
               PROVE  DraftIsCurrent(q, j)'
    BY DEF DraftsAreCurrent
  <2>1. q # p /\ draft'[q] = draft[q] /\ j \in DOMAIN draft[q] /\ j \in Jobs
    BY <1>1, <1>4, NoDraftFacts
  <2>2. DraftIsCurrent(q, j) /\ lock[j] = q
    BY <2>1 DEF DraftsAreCurrent, DraftIsCurrent
  <2>3. j \notin DOMAIN draft[p]
    <3>1. \A k \in DOMAIN draft[p] : lock[k] = p
      BY DEF DraftsAreCurrent, DraftIsCurrent
    <3> QED
      BY <2>1, <2>2, <3>1
  <2>4. job'[j] = job[j] /\ lock'[j] = q
    BY <2>1, <2>2, <2>3 DEF Installed, Unlocked
  <2> QED
    BY <2>1, <2>2, <2>4, DraftKept
<1> QED
  BY <1>1, <1>2, <1>3, <1>4, <1>5 DEF TypeOK

\* The commit of a call disturbs no other draft: the row was locked.
LEMMA CommitRequestInv ==
  ASSUME JobsInv, NEW r \in Requests, CommitRequest(r)
  PROVE  JobsInv'
<1> USE DEF JobsInv
<1>1. /\ pc[r] = "commit" /\ pc' = [pc EXCEPT ![r] = "done"]
      /\ job' = Installed(r)
      /\ lock' = Unlocked(r)
      /\ draft' = [draft EXCEPT ![r] = NoDraft]
      /\ UNCHANGED <<attempts, ask, todo>>
      /\ r \in Procs
  BY DEF CommitRequest, Procs
<1>2. /\ DraftsAreCurrent'
      /\ job' \in [Jobs -> Row]
      /\ lock' \in [Jobs -> Procs \cup {NoOne}]
      /\ draft' = [q \in Procs |-> draft'[q]]
      /\ \A q \in Procs : /\ DOMAIN draft'[q] \subseteq Jobs
                          /\ draft'[q] \in [DOMAIN draft'[q] -> Row]
      /\ \A q \in Procs : draft'[q] = IF q = r THEN NoDraft ELSE draft[q]
  BY <1>1, InstallInv
<1>3. audit' \in [Jobs -> Seq(Requests)]
  <2>1. ask[r].job \in Jobs
    BY <1>1 DEF ProcsAreSound, ProcIsSound, Ask
  <2>2. audit[ask[r].job] \in Seq(Requests)
    BY <2>1 DEF TypeOK
  <2>3. Append(audit[ask[r].job], r) \in Seq(Requests)
    BY <2>2
  <2> QED
    BY <2>2, <2>3 DEF CommitRequest, TypeOK
<1>4. TypeOK'
  BY <1>1, <1>2, <1>3 DEF TypeOK, Places
<1>5. ProcsAreSound'
  <2> SUFFICES ASSUME NEW q \in Procs PROVE ProcIsSound(q)'
    BY DEF ProcsAreSound
  <2>1. ProcIsSound(q)
    BY DEF ProcsAreSound
  <2> QED
    BY <1>1, <1>2, <2>1 DEF ProcIsSound, TypeOK, Procs, require_realm,
                            validate_writeback_job_transition
<1> QED
  BY <1>1, <1>2, <1>4, <1>5 DEF AttemptsAreBounded

\* The attempt a worker records is the one after those the committed row
\* counts, which is within max_attempts because the job is still eligible.
LEMMA CommitBatchInv ==
  ASSUME JobsInv, NEW w \in Workers, CommitBatch(w)
  PROVE  JobsInv'
<1> USE DEF JobsInv
<1>1. /\ pc[w] = "leased" /\ pc' = [pc EXCEPT ![w] = "idle"]
      /\ job' = Installed(w)
      /\ attempts' = [j \in Jobs |->
                        IF j \in DOMAIN draft[w]
                        THEN Append(attempts[j],
                                    [number |-> draft[w][j].attempt_count,
                                     by     |-> w])
                        ELSE attempts[j]]
      /\ lock' = Unlocked(w)
      /\ draft' = [draft EXCEPT ![w] = NoDraft]
      /\ UNCHANGED <<audit, ask, todo>>
      /\ w \in Procs
  BY DEF CommitBatch, Procs
<1>2. /\ DraftsAreCurrent'
      /\ job' \in [Jobs -> Row]
      /\ lock' \in [Jobs -> Procs \cup {NoOne}]
      /\ draft' = [q \in Procs |-> draft'[q]]
      /\ \A q \in Procs : /\ DOMAIN draft'[q] \subseteq Jobs
                          /\ draft'[q] \in [DOMAIN draft'[q] -> Row]
      /\ \A q \in Procs : draft'[q] = IF q = w THEN NoDraft ELSE draft[q]
  BY <1>1, InstallInv
<1>3. \A j \in DOMAIN draft[w] :
         /\ draft[w][j].attempt_count = job[j].attempt_count + 1
         /\ draft[w][j].attempt_count \in 1..MaxAttempts
  <2> SUFFICES ASSUME NEW j \in DOMAIN draft[w]
               PROVE  /\ draft[w][j].attempt_count = job[j].attempt_count + 1
                      /\ draft[w][j].attempt_count \in 1..MaxAttempts
    OBVIOUS
  <2>1. /\ j \in Jobs /\ Eligible(job[j])
        /\ draft[w][j] = Processed(job[j], w)
    BY <1>1 DEF DraftsAreCurrent, DraftIsCurrent, TypeOK
  <2>2. job[j].attempt_count \in Nat /\ job[j].attempt_count < MaxAttempts
    BY <2>1 DEF TypeOK, Row, Eligible
  <2>3. draft[w][j].attempt_count = job[j].attempt_count + 1
    BY <2>1, WorkerRows DEF TypeOK
  <2> QED
    BY <2>2, <2>3
<1>4. ASSUME NEW j \in Jobs
      PROVE  /\ attempts'[j] \in Seq(Attempt)
             /\ \A k \in 1..Len(attempts'[j]) :
                   attempts'[j][k].number \in 1..MaxAttempts
  <2>1. /\ attempts[j] \in Seq(Attempt)
        /\ \A k \in 1..Len(attempts[j]) :
              attempts[j][k].number \in 1..MaxAttempts
    BY DEF TypeOK, AttemptsAreBounded
  <2>2. CASE j \notin DOMAIN draft[w]
    BY <1>1, <2>1, <2>2
  <2>3. CASE j \in DOMAIN draft[w]
    <3> PICK a : a = [number |-> draft[w][j].attempt_count, by |-> w]
      OBVIOUS
    <3>1. a \in Attempt /\ a.number \in 1..MaxAttempts
      BY <1>3, <2>3 DEF Attempt
    <3>2. attempts'[j] = Append(attempts[j], a)
      BY <1>1, <2>3
    <3>3. /\ attempts'[j] \in Seq(Attempt)
          /\ Len(attempts'[j]) = Len(attempts[j]) + 1
          /\ attempts'[j][Len(attempts[j]) + 1] = a
          /\ \A k \in 1..Len(attempts[j]) : attempts'[j][k] = attempts[j][k]
      BY <2>1, <3>1, <3>2
    <3>4. \A k \in 1..Len(attempts'[j]) :
             k = Len(attempts[j]) + 1 \/ k \in 1..Len(attempts[j])
      BY <2>1, <3>3
    <3> QED
      BY <2>1, <3>1, <3>3, <3>4
  <2> QED
    BY <2>2, <2>3
<1>5. attempts' \in [Jobs -> Seq(Attempt)]
  BY <1>1, <1>4
<1>6. TypeOK'
  BY <1>1, <1>2, <1>5 DEF TypeOK, Places
<1>7. ProcsAreSound'
  <2> SUFFICES ASSUME NEW q \in Procs PROVE ProcIsSound(q)'
    BY DEF ProcsAreSound
  <2>1. ProcIsSound(q)
    BY DEF ProcsAreSound
  <2> QED
    BY <1>1, <1>2, <2>1 DEF ProcIsSound, TypeOK, Procs, require_realm,
                            validate_writeback_job_transition
<1>8. AttemptsAreBounded'
  BY <1>4 DEF AttemptsAreBounded
<1> QED
  BY <1>2, <1>6, <1>7, <1>8

\* The commit of a recovery disturbs no other draft: the rows were locked.
LEMMA CommitRecoveryInv ==
  ASSUME JobsInv, NEW v \in Recoverers, CommitRecovery(v)
  PROVE  JobsInv'
<1> USE DEF JobsInv
<1>1. /\ pc[v] = "recovering" /\ pc' = [pc EXCEPT ![v] = "idle"]
      /\ job' = Installed(v)
      /\ lock' = Unlocked(v)
      /\ draft' = [draft EXCEPT ![v] = NoDraft]
      /\ UNCHANGED <<attempts, audit, ask, todo>>
      /\ v \in Procs
  BY DEF CommitRecovery, Procs
<1>2. /\ DraftsAreCurrent'
      /\ job' \in [Jobs -> Row]
      /\ lock' \in [Jobs -> Procs \cup {NoOne}]
      /\ draft' = [q \in Procs |-> draft'[q]]
      /\ \A q \in Procs : /\ DOMAIN draft'[q] \subseteq Jobs
                          /\ draft'[q] \in [DOMAIN draft'[q] -> Row]
      /\ \A q \in Procs : draft'[q] = IF q = v THEN NoDraft ELSE draft[q]
  BY <1>1, InstallInv
<1>3. TypeOK'
  BY <1>1, <1>2 DEF TypeOK, Places
<1>4. ProcsAreSound'
  <2> SUFFICES ASSUME NEW q \in Procs PROVE ProcIsSound(q)'
    BY DEF ProcsAreSound
  <2>1. ProcIsSound(q)
    BY DEF ProcsAreSound
  <2> QED
    BY <1>1, <1>2, <2>1 DEF ProcIsSound, TypeOK, Procs, require_realm,
                            validate_writeback_job_transition
<1> QED
  BY <1>1, <1>2, <1>3, <1>4 DEF AttemptsAreBounded

\* Time passing under a draft does not matter: every draft writes updated_at.
LEMMA AgeInv ==
  ASSUME JobsInv, NEW j \in Jobs, Age(j)
  PROVE  JobsInv'
<1> USE DEF JobsInv
<1>1. /\ job' = [job EXCEPT ![j].stale = TRUE]
      /\ UNCHANGED <<attempts, audit, lock, pc, ask, todo, draft>>
  BY DEF Age
<1>2. job[j] \in Row /\ job'[j] = [job[j] EXCEPT !.stale = TRUE]
  BY <1>1 DEF TypeOK
<1>3. job' \in [Jobs -> Row]
  <2>1. job'[j] \in Row
    BY <1>2 DEF Row
  <2> QED
    BY <1>1, <2>1 DEF TypeOK
<1>4. TypeOK' /\ AttemptsAreBounded'
  BY <1>1, <1>3 DEF TypeOK, AttemptsAreBounded
<1>5. ProcsAreSound'
  BY <1>1 DEF ProcsAreSound, ProcIsSound, require_realm,
              validate_writeback_job_transition
<1>6. DraftsAreCurrent'
  <2> SUFFICES ASSUME NEW q \in Procs, NEW k \in DOMAIN draft[q]
               PROVE  DraftIsCurrent(q, k)'
    BY <1>1 DEF DraftsAreCurrent
  <2>1. DraftIsCurrent(q, k) /\ k \in Jobs
    BY DEF DraftsAreCurrent, TypeOK
  <2>2. CASE k = j
    <3>1. Transitioned(ask[q], job'[j]) = Transitioned(ask[q], job[j])
      BY <1>2, AgeIsOverwritten
    <3>2. /\ Recovered(job'[j]) = Recovered(job[j])
          /\ \A w \in Workers : Processed(job'[j], w) = Processed(job[j], w)
          /\ Eligible(job[j]) => Eligible(job'[j])
          /\ Orphaned(job[j]) => Orphaned(job'[j])
      BY <1>2, WorkerRowsAge
    <3> QED
      BY <1>1, <2>1, <2>2, <3>1, <3>2 DEF DraftIsCurrent
  <2>3. CASE k # j
    BY <1>1, <2>1, <2>3, DraftKept DEF TypeOK, DraftIsCurrent
  <2> QED
    BY <2>2, <2>3
<1> QED
  BY <1>4, <1>5, <1>6

\* A refusal and a crash are rollbacks.
LEMMA EndsBadlyInv ==
  ASSUME JobsInv,
         NEW p \in Procs,
         \/ p \in Requests /\ (Refuse(p) \/ AbortRequest(p))
         \/ p \in Workers /\ CrashWorker(p)
         \/ p \in Recoverers /\ CrashRecovery(p)
  PROVE  JobsInv'
<1>1. todo' \in [Recoverers -> SUBSET Jobs]
  BY DEF JobsInv, TypeOK, Refuse, AbortRequest, CrashWorker, CrashRecovery
<1>2. CASE p \in Requests
  <2>1. p \notin Workers \cup Recoverers
    BY <1>2
  <2>2. RollBack(p, "refused") \/ RollBack(p, "aborted")
    BY <2>1 DEF Refuse, AbortRequest
  <2>3. pc[p] # "new"
    BY <2>1 DEF Refuse, AbortRequest
  <2> QED
    BY <1>1, <1>2, <2>2, <2>3, RollBackInv
<1>3. CASE p \notin Requests
  <2>1. RollBack(p, "idle")
    BY <1>3 DEF CrashWorker, CrashRecovery
  <2> QED
    BY <1>1, <1>3, <2>1, RollBackInv
<1> QED
  BY <1>2, <1>3

-----------------------------------------------------------------------------
(* The theorems.                                                           *)

\* Every step of the write-back jobs keeps the invariant.
LEMMA NextInv == JobsInv /\ [Next]_vars => JobsInv'
<1> SUFFICES ASSUME JobsInv, [Next]_vars PROVE JobsInv'
  OBVIOUS
<1>1. CASE UNCHANGED vars
  BY <1>1 DEF vars, JobsInv, TypeOK, ProcsAreSound, ProcIsSound,
              DraftsAreCurrent, DraftIsCurrent, AttemptsAreBounded,
              require_realm, validate_writeback_job_transition
<1>2. ASSUME NEW r \in Requests, Receive(r) \/ Handle(r) \/ AbortRequest(r)
      PROVE  JobsInv'
  <2>1. r \in Procs
    BY DEF Procs
  <2> QED
    BY <1>2, <2>1, ReceiveInv, LoadInv, FlushInv, CommitRequestInv,
       EndsBadlyInv DEF Handle
<1>3. ASSUME NEW w \in Workers, LeaseBatch(w) \/ CommitBatch(w) \/ CrashWorker(w)
      PROVE  JobsInv'
  <2>1. w \in Procs
    BY DEF Procs
  <2> QED
    BY <1>3, <2>1, LeaseBatchInv, CommitBatchInv, EndsBadlyInv
<1>4. ASSUME NEW v \in Recoverers, \/ StartRecovery(v) \/ Visit(v)
                                   \/ CommitRecovery(v) \/ CrashRecovery(v)
      PROVE  JobsInv'
  <2>1. v \in Procs
    BY DEF Procs
  <2> QED
    BY <1>4, <2>1, RecoveryMovesInv, RecoverJobInv, CommitRecoveryInv,
       EndsBadlyInv DEF Visit, BreakDeadlock
<1>5. ASSUME NEW j \in Jobs, Age(j) PROVE JobsInv'
  BY <1>5, AgeInv
<1> QED
  BY <1>1, <1>2, <1>3, <1>4, <1>5 DEF Next

\* The inductive invariant holds in every reachable state: no transaction ever
\* holds a draft that the committed row has moved away from.
THEOREM Invariance == Spec => []JobsInv
<1> QED
  BY InitInv, NextInv, PTL DEF Spec

\* No attempt of a worker exceeds max_attempts.
THEOREM BoundedAttempts == Spec => []AttemptsAreBounded
<1>1. JobsInv => AttemptsAreBounded
  BY DEF JobsInv
<1> QED
  BY <1>1, Invariance, PTL

-----------------------------------------------------------------------------
(* Who executed a job.                                                     *)

Attempted(j) == \E k \in 1..Len(attempts[j]) : attempts[j][k].by = job[j].executor

Called(j) == \E r \in Requests : /\ pc[r] = "done" /\ ask[r].job = j
                                /\ ask[r].by = job[j].executor
                                /\ ask[r].to = "IN_PROGRESS"

Explained(j) == /\ job[j].executor \in Workers => Attempted(j)
                /\ job[j].executor \in Principals => Called(j)

LEMMA ExecutorsExplained ==
  /\ ExecutorIsOnRecord <=> \A j \in Jobs : Explained(j)
  /\ ExecutorIsOnRecord' <=> \A j \in Jobs : Explained(j)'
<1>1. ExecutorIsOnRecord <=> \A j \in Jobs : Explained(j)
  BY DEF ExecutorIsOnRecord, Explained, Attempted, Called
<1>2. ExecutorIsOnRecord' <=> \A j \in Jobs : Explained(j)'
  BY DEF ExecutorIsOnRecord, Explained, Attempted, Called
<1> QED
  BY <1>1, <1>2

\* Attempts and finished calls stay on record, so a step has to explain only the
\* executors it changes.
LEMMA ExecutorStep ==
  ASSUME attempts \in [Jobs -> Seq(Attempt)], ExecutorIsOnRecord,
         \A j \in Jobs : \/ attempts'[j] = attempts[j]
                        \/ \E a \in Attempt : attempts'[j] = Append(attempts[j], a),
         \A r \in Requests : pc[r] = "done" => pc'[r] = "done" /\ ask'[r] = ask[r],
         \A j \in Jobs : job'[j].executor = job[j].executor \/ Explained(j)'
  PROVE  ExecutorIsOnRecord'
<1> SUFFICES ASSUME NEW j \in Jobs, job'[j].executor = job[j].executor
             PROVE  Explained(j)'
  BY ExecutorsExplained
<1>1. Explained(j)
  BY ExecutorsExplained
<1>2. Attempted(j) => Attempted(j)'
  <2>1. attempts[j] \in Seq(Attempt)
    OBVIOUS
  <2>2. CASE attempts'[j] = attempts[j]
    BY <2>2 DEF Attempted
  <2>3. ASSUME NEW a \in Attempt, attempts'[j] = Append(attempts[j], a)
        PROVE  Attempted(j) => Attempted(j)'
    <3>1. /\ Len(attempts'[j]) = Len(attempts[j]) + 1 /\ Len(attempts[j]) \in Nat
          /\ \A k \in 1..Len(attempts[j]) : attempts'[j][k] = attempts[j][k]
      BY <2>1, <2>3
    <3>2. ASSUME NEW k \in 1..Len(attempts[j]), attempts[j][k].by = job[j].executor
          PROVE  /\ k \in 1..Len(attempts'[j])
                 /\ attempts'[j][k].by = job'[j].executor
      BY <3>1, <3>2
    <3> QED
      BY <3>2 DEF Attempted
  <2> QED
    BY <2>2, <2>3
<1>3. Called(j) => Called(j)'
  BY DEF Called
<1> QED
  BY <1>1, <1>2, <1>3 DEF Explained

LEMMA ExecutorNext == JobsInv /\ ExecutorIsOnRecord /\ [Next]_vars => ExecutorIsOnRecord'
<1> SUFFICES ASSUME JobsInv, ExecutorIsOnRecord, [Next]_vars PROVE ExecutorIsOnRecord'
  OBVIOUS
<1>0. TypeOK /\ ProcsAreSound /\ DraftsAreCurrent /\ attempts \in [Jobs -> Seq(Attempt)]
  BY DEF JobsInv, TypeOK
<1>1. ASSUME NEW p \in Procs, pc[p] # "done", UNCHANGED <<job, attempts>>,
             \E next : pc' = [pc EXCEPT ![p] = next],
             \A q \in Requests : q # p => ask'[q] = ask[q]
      PROVE  ExecutorIsOnRecord'
  <2>1. \A r \in Requests : pc[r] = "done" => pc'[r] = "done" /\ ask'[r] = ask[r]
    BY <1>0, <1>1 DEF TypeOK, Procs
  <2> QED
    BY <1>1, <2>1, <1>0, ExecutorStep
<1>2. ASSUME NEW r \in Requests, Receive(r) \/ Load(r) \/ Refuse(r) \/ AbortRequest(r) \/ Flush(r)
      PROVE  ExecutorIsOnRecord'
  <2>1. /\ r \in Procs /\ pc[r] # "done" /\ UNCHANGED <<job, attempts>>
        /\ \E next : pc' = [pc EXCEPT ![r] = next]
    BY <1>2 DEF Procs, Receive, Load, Refuse, AbortRequest, Flush, RollBack
  <2>2. \A q \in Requests : q # r => ask'[q] = ask[q]
    BY <1>0, <1>2 DEF Receive, Load, Refuse, AbortRequest, Flush, RollBack, TypeOK
  <2> QED
    BY <1>1, <2>1, <2>2
<1>3. ASSUME NEW p \in Workers \cup Recoverers,
             UNCHANGED <<ask, attempts>>,
             pc' = pc \/ \E next : pc' = [pc EXCEPT ![p] = next],
             \A j \in Jobs : job'[j].executor = job[j].executor
      PROVE  ExecutorIsOnRecord'
  <2>1. p \notin Requests
    BY JobsAssumption
  <2>2. ASSUME NEW r \in Requests PROVE pc'[r] = pc[r]
    <3>1. r \in DOMAIN pc /\ r # p
      BY <1>0, <2>1 DEF TypeOK, Procs
    <3> QED
      BY <1>3, <3>1
  <2> QED
    BY <1>3, <2>2, <1>0, ExecutorStep
<1>4. ASSUME NEW p \in Workers \cup Recoverers,
             \/ LeaseBatch(p) \/ CrashWorker(p) \/ StartRecovery(p)
             \/ RecoverJob(p) \/ PassOver(p) \/ CrashRecovery(p)
      PROVE  ExecutorIsOnRecord'
  <2>1. UNCHANGED <<job, ask, attempts>>
    BY <1>4 DEF LeaseBatch, CrashWorker, StartRecovery, RecoverJob, PassOver,
                CrashRecovery, RollBack
  <2>2. pc' = pc \/ \E next : pc' = [pc EXCEPT ![p] = next]
    BY <1>4 DEF LeaseBatch, CrashWorker, StartRecovery, RecoverJob, PassOver,
                CrashRecovery, RollBack
  <2> QED
    BY <1>3, <2>1, <2>2
<1>5. ASSUME NEW j \in Jobs, Age(j) PROVE ExecutorIsOnRecord'
  <2>1. \A k \in Jobs : job'[k].executor = job[k].executor
    BY <1>0, <1>5 DEF Age, TypeOK, Row
  <2>2. UNCHANGED <<pc, ask, attempts>>
    BY <1>5 DEF Age
  <2> QED
    BY <2>1, <2>2, <1>0, ExecutorStep
\* A call names its caller as executor only when it executes the job.
<1>6. ASSUME NEW r \in Requests, CommitRequest(r) PROVE ExecutorIsOnRecord'
  <2>1. /\ r \in Procs /\ pc[r] = "commit" /\ ask' = ask
        /\ pc' = [pc EXCEPT ![r] = "done"] /\ attempts' = attempts
        /\ job' = Installed(r)
    BY <1>6 DEF Procs, CommitRequest
  <2>2. /\ DOMAIN draft[r] = {ask[r].job} /\ ask[r] \in Ask
        /\ ask[r].row \in Row
    BY <1>0, <2>1 DEF ProcsAreSound, ProcIsSound
  <2>3. ASSUME NEW j \in Jobs, job'[j].executor # job[j].executor
        PROVE  Explained(j)'
    <3>1. j = ask[r].job /\ job'[j] = Transitioned(ask[r], job[j])
      BY <1>0, <2>1, <2>2, <2>3 DEF Installed, DraftsAreCurrent, DraftIsCurrent
    <3>2. job[j] \in Row
      BY <1>0 DEF TypeOK
    <3>3. job'[j].executor = Flushed(ask[r].row, Assigned(ask[r]), job[j]).executor
      BY <3>1, <3>2 DEF Transitioned, Flushed, Row
    <3>4. Assigned(ask[r]).executor # ask[r].row.executor
          /\ job'[j].executor = Assigned(ask[r]).executor
      BY <2>3, <3>2, <3>3 DEF Flushed, Row
    <3>5. ask[r].to = "IN_PROGRESS" /\ job'[j].executor = ask[r].by
      BY <2>2, <3>4 DEF Assigned, Row
    <3>6. ask[r].by \in Principals
      BY <2>2 DEF Ask
    <3>7. pc'[r] = "done"
      BY <1>0, <2>1 DEF TypeOK
    <3> QED
      BY <2>1, <3>1, <3>5, <3>6, <3>7, RowsAssumption DEF Explained, Called
  <2>4. \A q \in Requests : pc[q] = "done" => pc'[q] = "done" /\ ask'[q] = ask[q]
    BY <1>0, <2>1 DEF TypeOK, Procs
  <2> QED
    BY <2>1, <2>3, <2>4, <1>0, ExecutorStep
\* A worker names itself and leaves an attempt.
<1>7. ASSUME NEW w \in Workers, CommitBatch(w) PROVE ExecutorIsOnRecord'
  <2>1. /\ w \in Procs /\ ask' = ask /\ job' = Installed(w)
        /\ pc' = [pc EXCEPT ![w] = "idle"]
    BY <1>7 DEF Procs, CommitBatch
  <2>2. ASSUME NEW j \in DOMAIN draft[w]
        PROVE  /\ j \in Jobs
               /\ \E a \in Attempt : attempts'[j] = Append(attempts[j], a)
               /\ Explained(j)'
    <3>1. j \in Jobs /\ job[j] \in Row /\ draft[w][j] \in Row
      BY <1>0, <2>1 DEF TypeOK
    <3>2. job'[j] = Processed(job[j], w)
      BY <1>0, <2>1, <3>1 DEF Installed, DraftsAreCurrent, DraftIsCurrent
    <3>3. job'[j].executor = w
      BY <3>1, <3>2 DEF Processed, Row
    <3> PICK a : a = [number |-> draft[w][j].attempt_count, by |-> w]
      OBVIOUS
    <3>4. a \in Attempt /\ a.by = w
      BY <3>1 DEF Attempt, Row
    <3>5. attempts'[j] = Append(attempts[j], a)
      BY <1>7, <3>1 DEF CommitBatch
    <3>6. attempts[j] \in Seq(Attempt)
      BY <1>0, <3>1 DEF TypeOK
    <3>7. /\ Len(attempts'[j]) \in 1..Len(attempts'[j])
          /\ attempts'[j][Len(attempts'[j])] = a
      BY <3>4, <3>5, <3>6
    <3> QED
      BY <3>1, <3>3, <3>4, <3>5, <3>7, RowsAssumption DEF Explained, Attempted
  <2>3. ASSUME NEW j \in Jobs \ DOMAIN draft[w]
        PROVE  attempts'[j] = attempts[j] /\ job'[j] = job[j]
    BY <1>7, <2>1 DEF CommitBatch, Installed
  <2>4. \A q \in Requests : pc[q] = "done" => pc'[q] = "done" /\ ask'[q] = ask[q]
    BY <1>0, <2>1, JobsAssumption DEF TypeOK
  <2>5. \A j \in Jobs : \/ attempts'[j] = attempts[j]
                        \/ \E a \in Attempt : attempts'[j] = Append(attempts[j], a)
    BY <2>2, <2>3
  <2>6. \A j \in Jobs : job'[j].executor = job[j].executor \/ Explained(j)'
    BY <2>2, <2>3
  <2> QED
    BY <2>4, <2>5, <2>6, <1>0, ExecutorStep
\* A recovery leaves the executor alone.
<1>8. ASSUME NEW v \in Recoverers, CommitRecovery(v) PROVE ExecutorIsOnRecord'
  <2>1. /\ v \in Procs /\ job' = Installed(v) /\ UNCHANGED <<ask, attempts>>
        /\ pc' = [pc EXCEPT ![v] = "idle"]
    BY <1>8 DEF Procs, CommitRecovery
  <2>2. \A j \in Jobs : job'[j] = job[j] \/ job'[j] = Recovered(job[j])
    BY <1>0, <2>1 DEF Installed, DraftsAreCurrent, DraftIsCurrent
  <2>3. ASSUME NEW j \in Jobs PROVE job'[j].executor = job[j].executor
    <3>1. job[j] \in Row
      BY <1>0 DEF TypeOK
    <3>2. Recovered(job[j]).executor = job[j].executor
      BY <3>1 DEF Recovered, Row
    <3> QED
      BY <2>2, <3>2
  <2> QED
    BY <1>3, <2>1, <2>3
<1>9. CASE UNCHANGED vars
  BY <1>0, <1>9, ExecutorStep DEF vars
<1> QED
  BY <1>2, <1>4, <1>5, <1>6, <1>7, <1>8, <1>9
  DEF Next, Handle, Visit, BreakDeadlock

\* Whoever a job names as executor has executed it.
THEOREM ExecutorHolds == Spec => []ExecutorIsOnRecord
<1>1. Init => ExecutorIsOnRecord
  <2>1. \A s \in Starts : NewJob(s).executor = NoOne
    BY DEF NewJob
  <2>2. ASSUME Init, NEW j \in Jobs PROVE job[j].executor = NoOne
    <3>1. job \in [Jobs -> {NewJob(s) : s \in Starts}]
      BY <2>2 DEF Init
    <3>2. PICK s \in Starts : job[j] = NewJob(s)
      BY <3>1
    <3> QED
      BY <2>1, <3>2
  <2> QED
    BY <2>2, RowsAssumption DEF ExecutorIsOnRecord
<1> QED
  BY <1>1, InitInv, NextInv, ExecutorNext, PTL DEF Spec

-----------------------------------------------------------------------------
(* The refinement.  The initial states map to initial states of the        *)
(* ledger, and each step to a step of the ledger or to none: the drafts a  *)
(* transaction installs are what the ledger would compute from the         *)
(* committed rows at that instant.                                         *)

\* What a call has read and not yet written.
SeenBy(r) == [job |-> ask[r].job, row |-> ask[r].row,
              to |-> ask[r].to, by |-> ask[r].by]

Seen == [r \in Requests |-> IF pc[r] \in {"flush", "commit"}
                            THEN SeenBy(r) ELSE NoOne]

\* The ledger's operators are the ones of WriteBackRows.
LEMMA SameRows ==
  /\ \A s : Ledger!require_realm(s) = require_realm(s)
  /\ \A s : Ledger!validate_writeback_job_transition(s) =
                validate_writeback_job_transition(s)
  /\ \A s, b : Ledger!Transitioned(s, b) = Transitioned(s, b)
  /\ \A b : Ledger!Eligible(b) = Eligible(b)
  /\ \A b : Ledger!Orphaned(b) = Orphaned(b)
  /\ \A b : Ledger!Recovered(b) = Recovered(b)
  /\ \A b, w : Ledger!Processed(b, w) = Processed(b, w)
  /\ \A s : Ledger!NewJob(s) = NewJob(s)
  /\ Ledger!WriteBackJobStatus = WriteBackJobStatus
<1>1. Ledger!WRITEBACK_JOB_TRANSITIONS = WRITEBACK_JOB_TRANSITIONS
  BY DEF Ledger!WRITEBACK_JOB_TRANSITIONS, WRITEBACK_JOB_TRANSITIONS
<1>2. \A s : Ledger!require_realm(s) = require_realm(s)
  BY DEF Ledger!require_realm, require_realm
<1>3. \A s : Ledger!validate_writeback_job_transition(s) =
                validate_writeback_job_transition(s)
  BY <1>1 DEF Ledger!validate_writeback_job_transition,
              validate_writeback_job_transition
<1>4. \A s : Ledger!Assigned(s) = Assigned(s)
  BY DEF Ledger!Assigned, Assigned
<1>5. \A o, n, b : Ledger!Flushed(o, n, b) = Flushed(o, n, b)
  BY DEF Ledger!Flushed, Flushed
<1>6. \A s, b : Ledger!Transitioned(s, b) = Transitioned(s, b)
  BY <1>4, <1>5 DEF Ledger!Transitioned, Transitioned
<1>7. /\ \A b : Ledger!Eligible(b) = Eligible(b)
      /\ \A b : Ledger!Orphaned(b) = Orphaned(b)
      /\ \A b : Ledger!Recovered(b) = Recovered(b)
  BY DEF Ledger!Eligible, Eligible, Ledger!Orphaned, Orphaned,
         Ledger!Recovered, Recovered
<1>8. \A b, w : Ledger!Processed(b, w) = Processed(b, w)
  BY DEF Ledger!Processed, Processed
<1>9. \A s : Ledger!NewJob(s) = NewJob(s)
  BY DEF Ledger!NewJob, NewJob
<1>10. Ledger!WriteBackJobStatus = WriteBackJobStatus
  BY DEF Ledger!WriteBackJobStatus, WriteBackJobStatus
<1> QED
  BY <1>2, <1>3, <1>6, <1>7, <1>8, <1>9, <1>10

\* Initial states are initial states of the ledger.
LEMMA InitMaps == Init => Ledger!Init
<1> SUFFICES ASSUME Init PROVE Ledger!Init
  OBVIOUS
<1>1. job \in [Jobs -> {Ledger!NewJob(s) : s \in Ledger!WriteBackJobStatus}]
  <2>1. Starts \subseteq Ledger!WriteBackJobStatus
    BY SameRows, JobsAssumption
  <2>2. job \in [Jobs -> {Ledger!NewJob(s) : s \in Starts}]
    BY SameRows DEF Init
  <2> QED
    BY <2>1, <2>2
<1>2. attempts = [j \in Jobs |-> << >>]
  BY DEF Init
<1>3. \A r \in Requests : pc[r] = "new"
  BY DEF Init, Procs
<1> QED
  BY <1>1, <1>2, <1>3 DEF Ledger!Init

\* A step that moves no call out of, into or within its window, and leaves the
\* committed rows alone, is not visible in the ledger.
LEMMA Invisible ==
  ASSUME UNCHANGED <<job, attempts>>,
         \A r \in Requests : Seen'[r] = Seen[r]
  PROVE  UNCHANGED Ledger!vars
BY DEF Ledger!vars, Seen, SeenBy

\* The calls of everyone else are where they were.
LEMMA OnlyOneMoves ==
  ASSUME JobsInv, NEW p \in Procs,
         \A q \in Procs : q # p => pc'[q] = pc[q],
         \A q \in Requests : q # p => ask'[q] = ask[q]
  PROVE  /\ \A q \in Requests : q # p => Seen'[q] = Seen[q]
         /\ p \notin Requests => \A q \in Requests : Seen'[q] = Seen[q]
BY DEF Seen, SeenBy, Procs

\* The arrival of a call is invisible in the ledger.
LEMMA ReceiveMaps ==
  ASSUME JobsInv, NEW r \in Requests, Receive(r)
  PROVE  UNCHANGED Ledger!vars
<1>1. /\ pc[r] = "new" /\ pc' = [pc EXCEPT ![r] = "load"]
      /\ UNCHANGED <<job, attempts>>
      /\ r \in Procs
  BY DEF Receive, Procs
<1>2. \A q \in Requests : q # r => ask'[q] = ask[q]
  BY DEF Receive, JobsInv, TypeOK
<1>3. \A q \in Procs : pc'[q] = IF q = r THEN "load" ELSE pc[q]
  BY <1>1 DEF JobsInv, TypeOK
<1>4. Seen'[r] = Seen[r]
  BY <1>1, <1>3 DEF Seen
<1> QED
  BY <1>1, <1>2, <1>3, <1>4, OnlyOneMoves, Invisible

\* Reading the row and passing its checks is the ledger's Read.
LEMMA LoadMaps ==
  ASSUME JobsInv, NEW r \in Requests, Load(r)
  PROVE  Ledger!Next
<1>1. /\ pc[r] = "load" /\ pc' = [pc EXCEPT ![r] = "flush"]
      /\ ask' = [ask EXCEPT ![r] = Loaded(r)]
      /\ Accepted(r)
      /\ UNCHANGED <<job, attempts>>
      /\ r \in Procs
  BY DEF Load, Procs
<1>2. ask[r] \in Ask
  BY <1>1 DEF JobsInv, ProcsAreSound, ProcIsSound, Procs
<1>a. PICK j \in Jobs, to \in WriteBackJobStatus, by \in Principals :
         j = ask[r].job /\ to = ask[r].to /\ by = ask[r].by
  BY <1>2 DEF Ask
<1> DEFINE s == [job |-> j, row |-> job[j], to |-> to, by |-> by]
<1>3. /\ ask'[r] = [ask[r] EXCEPT !.row = job[j]]
      /\ \A q \in Requests : q # r => ask'[q] = ask[q]
  BY <1>1, <1>a DEF JobsInv, TypeOK, Loaded
<1>4. /\ pc'[r] = "flush"
      /\ \A q \in Procs : q # r => pc'[q] = pc[q]
  BY <1>1 DEF JobsInv, TypeOK
<1>5. Seen'[r] = s
  BY <1>2, <1>a, <1>3, <1>4 DEF Seen, SeenBy, Ask
<1>6. \A q \in Requests : q # r => Seen'[q] = Seen[q]
  BY <1>1, <1>3, <1>4, OnlyOneMoves
<1>7. Seen' = [Seen EXCEPT ![r] = s]
  BY <1>5, <1>6 DEF Seen
<1>8. require_realm(s) /\ validate_writeback_job_transition(s)
  BY <1>1, <1>2, <1>a DEF Accepted, Loaded, require_realm, Ask,
                          validate_writeback_job_transition
<1>9. Ledger!Read(r, s)
  BY <1>1, <1>7, <1>8, SameRows DEF Ledger!Read, Seen, SeenBy
<1>10. Ledger!WriteBackJobStatus = WriteBackJobStatus
  BY SameRows
<1> QED
  BY <1>9, <1>10 DEF Ledger!Next

\* A call that ends without a commit is forgotten.
LEMMA EndsMap ==
  ASSUME JobsInv, NEW r \in Requests, Refuse(r) \/ AbortRequest(r)
  PROVE  Ledger!Next
<1>1. PICK where \in {"refused", "aborted"} : RollBack(r, where)
  BY DEF Refuse, AbortRequest
<1>2. /\ pc' = [pc EXCEPT ![r] = where]
      /\ UNCHANGED <<job, attempts, ask>>
      /\ r \in Procs
  BY <1>1 DEF RollBack, Procs
<1>3. /\ pc'[r] \in {"refused", "aborted"}
      /\ \A q \in Procs : q # r => pc'[q] = pc[q]
  BY <1>2 DEF JobsInv, TypeOK
<1>4. Seen'[r] = NoOne
  BY <1>3 DEF Seen
<1>5. \A q \in Requests : q # r => Seen'[q] = Seen[q]
  BY <1>2, <1>3, OnlyOneMoves
<1>6. Seen' = [Seen EXCEPT ![r] = NoOne]
  BY <1>4, <1>5 DEF Seen
<1>7. Ledger!Forget(r)
  BY <1>2, <1>6 DEF Ledger!Forget, Seen, SeenBy
<1> QED
  BY <1>7 DEF Ledger!Next

\* The UPDATE of a call is invisible until it commits.
LEMMA FlushMaps ==
  ASSUME JobsInv, NEW r \in Requests, Flush(r)
  PROVE  UNCHANGED Ledger!vars
<1>1. /\ pc[r] = "flush" /\ pc' = [pc EXCEPT ![r] = "commit"]
      /\ UNCHANGED <<job, attempts, ask>>
      /\ r \in Procs
  BY DEF Flush, Procs
<1>2. /\ pc'[r] = "commit"
      /\ \A q \in Procs : q # r => pc'[q] = pc[q]
  BY <1>1 DEF JobsInv, TypeOK
<1>3. Seen'[r] = Seen[r]
  BY <1>1, <1>2 DEF Seen, SeenBy
<1> QED
  BY <1>1, <1>2, <1>3, OnlyOneMoves, Invisible

\* An UPDATE that commits writes over the row that is there at that instant.
LEMMA CommitRequestMaps ==
  ASSUME JobsInv, NEW r \in Requests, CommitRequest(r)
  PROVE  Ledger!Next
<1> DEFINE k == ask[r].job
<1>1. /\ pc[r] = "commit" /\ pc' = [pc EXCEPT ![r] = "done"]
      /\ job' = Installed(r)
      /\ UNCHANGED <<attempts, ask>>
      /\ r \in Procs
  BY DEF CommitRequest, Procs
<1>2. /\ ask[r] \in Ask /\ ask[r].row \in Row
      /\ DOMAIN draft[r] = {k}
      /\ k \in Jobs
  BY <1>1 DEF JobsInv, ProcsAreSound, ProcIsSound, Ask
<1>3. draft[r][k] = Transitioned(ask[r], job[k])
  BY <1>1, <1>2 DEF JobsInv, DraftsAreCurrent, DraftIsCurrent
<1>4. Transitioned(ask[r], job[k]) = Transitioned(SeenBy(r), job[k])
  BY <1>2 DEF Transitioned, Assigned, Flushed, SeenBy, Ask
<1>5. job' = [job EXCEPT ![k] = Transitioned(SeenBy(r), job[k])]
  BY <1>1, <1>2, <1>3, <1>4 DEF Installed, JobsInv, TypeOK
<1>6. /\ pc'[r] = "done"
      /\ \A q \in Procs : q # r => pc'[q] = pc[q]
  BY <1>1 DEF JobsInv, TypeOK
<1>7. Seen'[r] = NoOne /\ Seen[r] = SeenBy(r)
  BY <1>1, <1>6 DEF Seen
<1>8. \A q \in Requests : q # r => Seen'[q] = Seen[q]
  BY <1>1, <1>6, OnlyOneMoves
<1>9. Seen' = [Seen EXCEPT ![r] = NoOne]
  BY <1>7, <1>8 DEF Seen
<1>10. SeenBy(r) \in Ledger!Snapshot
  BY <1>2, SameRows DEF SeenBy, Ask, Ledger!Snapshot, Ledger!Row, Row
<1>11. Ledger!Write(r)
  <2>1. SeenBy(r).job = k
    BY DEF SeenBy
  <2>2. job' = [job EXCEPT ![Seen[r].job] =
                              Ledger!Transitioned(Seen[r], job[Seen[r].job])]
    BY <1>5, <1>7, <2>1, SameRows
  <2>3. Seen[r] \in Ledger!Snapshot
    BY <1>7, <1>10
  <2> QED
    BY <1>1, <1>9, <2>2, <2>3 DEF Ledger!Write, Seen, SeenBy
<1> QED
  BY <1>11 DEF Ledger!Next

\* A worker's commit is one instant at which each of its jobs was eligible.
LEMMA CommitBatchMaps ==
  ASSUME JobsInv, NEW w \in Workers, CommitBatch(w)
  PROVE  Ledger!Next
<1> DEFINE S == DOMAIN draft[w]
<1>1. /\ pc[w] = "leased" /\ pc' = [pc EXCEPT ![w] = "idle"]
      /\ job' = Installed(w)
      /\ attempts' = [j \in Jobs |->
                        IF j \in S
                        THEN Append(attempts[j],
                                    [number |-> draft[w][j].attempt_count,
                                     by     |-> w])
                        ELSE attempts[j]]
      /\ UNCHANGED ask
      /\ w \in Procs /\ w \notin Requests
  BY JobsAssumption DEF CommitBatch, Procs
<1>2. S \subseteq Jobs
  BY <1>1 DEF JobsInv, TypeOK
<1>3. \A j \in S : Eligible(job[j]) /\ draft[w][j] = Processed(job[j], w)
  BY <1>1 DEF JobsInv, DraftsAreCurrent, DraftIsCurrent
<1>4. job' = [j \in Jobs |-> IF j \in S THEN Processed(job[j], w) ELSE job[j]]
  BY <1>1, <1>3 DEF Installed
<1>5. \A j \in Jobs : Processed(job[j], w).attempt_count =
                         job[j].attempt_count + 1
  BY DEF Processed, JobsInv, TypeOK, Row
<1>6. attempts' = [j \in Jobs |->
                    IF j \in S
                    THEN Append(attempts[j],
                                [number |-> job[j].attempt_count + 1,
                                 by     |-> w])
                    ELSE attempts[j]]
  BY <1>1, <1>2, <1>3, <1>5
<1>7. UNCHANGED Seen
  <2>1. \A q \in Procs : q # w => pc'[q] = pc[q]
    BY <1>1 DEF JobsInv, TypeOK
  <2>2. \A q \in Requests : Seen'[q] = Seen[q]
    BY <1>1, <2>1, OnlyOneMoves
  <2> QED
    BY <2>2 DEF Seen
<1>8. /\ \A j \in S : Ledger!Eligible(job[j])
      /\ job' = [j \in Jobs |-> IF j \in S THEN Ledger!Processed(job[j], w)
                                           ELSE job[j]]
  BY <1>3, <1>4, SameRows
<1>9. Ledger!Process(w, S)
  BY <1>6, <1>7, <1>8 DEF Ledger!Process, Seen, SeenBy
<1>10. S \in SUBSET Jobs
  BY <1>2
<1> QED
  BY <1>9, <1>10 DEF Ledger!Next

\* A recovery's commit is one instant at which each of its jobs was an orphan.
LEMMA CommitRecoveryMaps ==
  ASSUME JobsInv, NEW v \in Recoverers, CommitRecovery(v)
  PROVE  Ledger!Next
<1> DEFINE S == DOMAIN draft[v]
<1>1. /\ pc[v] = "recovering" /\ pc' = [pc EXCEPT ![v] = "idle"]
      /\ job' = Installed(v)
      /\ UNCHANGED <<attempts, ask>>
      /\ v \in Procs /\ v \notin Requests
  BY JobsAssumption DEF CommitRecovery, Procs
<1>2. S \in SUBSET Jobs
  BY <1>1 DEF JobsInv, TypeOK
<1>3. \A j \in S : Orphaned(job[j]) /\ draft[v][j] = Recovered(job[j])
  BY <1>1 DEF JobsInv, DraftsAreCurrent, DraftIsCurrent
<1>4. job' = [j \in Jobs |-> IF j \in S THEN Recovered(job[j]) ELSE job[j]]
  BY <1>1, <1>3 DEF Installed
<1>5. UNCHANGED Seen
  <2>1. \A q \in Procs : q # v => pc'[q] = pc[q]
    BY <1>1 DEF JobsInv, TypeOK
  <2>2. \A q \in Requests : Seen'[q] = Seen[q]
    BY <1>1, <2>1, OnlyOneMoves
  <2> QED
    BY <2>2 DEF Seen
<1>6. /\ \A j \in S : Ledger!Orphaned(job[j])
      /\ job' = [j \in Jobs |-> IF j \in S THEN Ledger!Recovered(job[j])
                                           ELSE job[j]]
  BY <1>3, <1>4, SameRows
<1>7. Ledger!Recover(S)
  BY <1>1, <1>5, <1>6 DEF Ledger!Recover, Seen, SeenBy
<1> QED
  BY <1>2, <1>7 DEF Ledger!Next

\* Leases, crashes and the moves of a recovery before its commit do not show.
LEMMA QuietMaps ==
  ASSUME JobsInv, NEW p \in Workers \cup Recoverers,
         \/ p \in Workers /\ (LeaseBatch(p) \/ CrashWorker(p))
         \/ p \in Recoverers /\ \/ StartRecovery(p) \/ RecoverJob(p)
                                 \/ PassOver(p) \/ CrashRecovery(p)
  PROVE  UNCHANGED Ledger!vars
<1>1. /\ UNCHANGED <<job, attempts, ask>>
      /\ p \in Procs /\ p \notin Requests
  BY JobsAssumption DEF LeaseBatch, CrashWorker, StartRecovery, RecoverJob,
     PassOver, CrashRecovery, RollBack, Procs
<1>2. \A q \in Procs : q # p => pc'[q] = pc[q]
  <2>1. UNCHANGED pc \/ \E where : pc' = [pc EXCEPT ![p] = where]
    BY DEF LeaseBatch, CrashWorker, StartRecovery, RecoverJob,
       PassOver, CrashRecovery, RollBack
  <2> QED
    BY <2>1 DEF JobsInv, TypeOK
<1> QED
  BY <1>1, <1>2, OnlyOneMoves, Invisible

\* Time passes for the ledger too.
LEMMA AgeMaps ==
  ASSUME JobsInv, NEW j \in Jobs, Age(j)
  PROVE  Ledger!Next
BY DEF Age, Ledger!Age, Ledger!Next

\* Every step is a step of the ledger or leaves it alone.
LEMMA StepMaps ==
  ASSUME JobsInv, [Next]_vars
  PROVE  [Ledger!Next]_(Ledger!vars)
<1>1. CASE UNCHANGED vars
  BY <1>1 DEF vars, Ledger!vars
<1>2. ASSUME NEW r \in Requests, Receive(r) \/ Handle(r) \/ AbortRequest(r)
      PROVE  [Ledger!Next]_(Ledger!vars)
  BY <1>2, ReceiveMaps, LoadMaps, EndsMap, FlushMaps, CommitRequestMaps
     DEF Handle
<1>3. ASSUME NEW w \in Workers, LeaseBatch(w) \/ CommitBatch(w) \/ CrashWorker(w)
      PROVE  [Ledger!Next]_(Ledger!vars)
  BY <1>3, QuietMaps, CommitBatchMaps
<1>4. ASSUME NEW v \in Recoverers, \/ StartRecovery(v) \/ Visit(v)
                                   \/ CommitRecovery(v) \/ CrashRecovery(v)
      PROVE  [Ledger!Next]_(Ledger!vars)
  BY <1>4, QuietMaps, CommitRecoveryMaps DEF Visit, BreakDeadlock
<1>5. ASSUME NEW j \in Jobs, Age(j) PROVE [Ledger!Next]_(Ledger!vars)
  BY <1>5, AgeMaps
<1> QED
  BY <1>1, <1>2, <1>3, <1>4, <1>5 DEF Next

\* Batches, recoveries and API calls, with all their locks, leases, waits and
\* crashes, do to the rows what the ledger allows.
THEOREM Refinement == Spec => ImplementsLedger
<1>1. []JobsInv /\ [][Next]_vars => [][Ledger!Next]_(Ledger!vars)
  BY StepMaps, PTL
<1> QED
  BY InitMaps, Invariance, <1>1, PTL DEF Spec, ImplementsLedger, Ledger!Spec
=============================================================================
