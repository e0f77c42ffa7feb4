--------------------------- MODULE WriteBackLedger ---------------------------
(***************************************************************************)
(* What the write-back workers promise, without locks, leases or crashes.  *)
(* A worker's batch happens at one instant: each job in it is eligible at  *)
(* that instant, becomes SUCCEEDED and gets its attempt record.  A         *)
(* recovery happens at one instant too.  A call of                         *)
(* transition_writeback_job does not: it reads at one instant and writes   *)
(* at a later one, and that is all the code promises about it.             *)
(***************************************************************************)
EXTENDS WriteBackRows

VARIABLES
    job,       \* the row of each job
    attempts,  \* the attempt records of each job, in order
    seen       \* what each call has read and not yet written, or NoOne

vars == <<job, attempts, seen>>

Init ==
    /\ job \in [Jobs -> {NewJob(s) : s \in WriteBackJobStatus}]
    /\ attempts = [j \in Jobs |-> << >>]
    /\ seen = [r \in Requests |-> NoOne]

Read(r, s) ==
    /\ s.row = job[s.job]
    /\ require_realm(s)
    /\ validate_writeback_job_transition(s)
    /\ seen' = [seen EXCEPT ![r] = s]
    /\ UNCHANGED <<job, attempts>>

Write(r) ==
    /\ seen[r] \in Snapshot
    /\ job' = [job EXCEPT ![seen[r].job] = Transitioned(seen[r], @)]
    /\ seen' = [seen EXCEPT ![r] = NoOne]
    /\ UNCHANGED attempts

Forget(r) ==
    /\ seen' = [seen EXCEPT ![r] = NoOne]
    /\ UNCHANGED <<job, attempts>>

Process(w, S) ==
    /\ \A j \in S : Eligible(job[j])
    /\ job' = [j \in Jobs |-> IF j \in S THEN Processed(job[j], w) ELSE job[j]]
    /\ attempts' = [j \in Jobs |->
                      IF j \in S
                      THEN Append(attempts[j],
                                  [number |-> job[j].attempt_count + 1,
                                   by     |-> w])
                      ELSE attempts[j]]
    /\ UNCHANGED seen

Recover(S) ==
    /\ \A j \in S : Orphaned(job[j])
    /\ job' = [j \in Jobs |-> IF j \in S THEN Recovered(job[j]) ELSE job[j]]
    /\ UNCHANGED <<attempts, seen>>

Age(j) ==
    /\ job' = [job EXCEPT ![j].stale = TRUE]
    /\ UNCHANGED <<attempts, seen>>

Next ==
    \/ \E r \in Requests :
          \/ \E j \in Jobs, to \in WriteBackJobStatus, by \in Principals :
                Read(r, [job |-> j, row |-> job[j], to |-> to, by |-> by])
          \/ Write(r)
          \/ Forget(r)
    \/ \E S \in SUBSET Jobs : Recover(S) \/ \E w \in Workers : Process(w, S)
    \/ \E j \in Jobs : Age(j)

Spec == Init /\ [][Next]_vars
=============================================================================
