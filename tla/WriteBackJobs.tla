---------------------------- MODULE WriteBackJobs ----------------------------
(***************************************************************************)
(* Write-back jobs under concurrent API calls, workers and recoveries      *)
(* (accounting/workflow.py, transition_writeback_job; accounting/          *)
(* services.py, execute_writeback_job; accounting/worker.py).              *)
(*                                                                         *)
(* Each is one database transaction.  A worker leases its batch with       *)
(* SELECT ... FOR UPDATE SKIP LOCKED and keeps the row locks until it      *)
(* commits, so that a crash is a rollback.  A recovery is one UPDATE,      *)
(* which waits for a locked row and then looks at its WHERE again.  An API *)
(* call reads the job WITHOUT a lock, decides, and writes what it decided  *)
(* once it gets the row.                                                   *)
(***************************************************************************)
EXTENDS WriteBackRows

CONSTANTS
    Recoverers,     \* processes that run recover_orphan_jobs
    RolesOf,        \* the roles of each principal
    DirectTargets,  \* what direct callers of transition_writeback_job ask for
    Starts,         \* the statuses jobs are found in
    BatchSize       \* max_batch_size

Procs == Requests \cup Workers \cup Recoverers

ASSUME JobsAssumption ==
    /\ RolesOf \in [Principals -> SUBSET Role]
    /\ DirectTargets \subseteq WriteBackJobStatus
    /\ Starts \subseteq WriteBackJobStatus
    /\ BatchSize \in Nat
    /\ Requests \cap (Workers \cup Recoverers) = {}
    /\ Workers \cap Recoverers = {}
    /\ NoOne \notin Procs

VARIABLES
    job,       \* committed write_back_job rows
    attempts,  \* committed write_back_attempt rows of each job, in order
    audit,     \* committed "writeback_job.execute" audit events of each job
    lock,      \* the transaction that holds the row lock of each job
    pc,        \* where each process stands
    ask,       \* what each request asks for, with the row it loaded
    todo,      \* rows the UPDATE of a recovery has still to visit
    draft      \* uncommitted rows of each transaction

vars == <<job, attempts, audit, lock, pc, ask, todo, draft>>

\* What a request asks for, through the endpoint or directly, and the row it
\* has loaded.
Ask == [job : Jobs, row : Row \cup {NoOne}, to : WriteBackJobStatus,
        by : Principals, via : {"execute", "direct"}]

Places == {"new", "load", "flush", "commit", "done", "refused", "aborted",
           "idle", "leased", "recovering"}

TypeOK ==
    /\ job \in [Jobs -> Row]
    /\ attempts \in [Jobs -> Seq(Attempt)]
    /\ audit \in [Jobs -> Seq(Requests)]
    /\ lock \in [Jobs -> Procs \cup {NoOne}]
    /\ pc \in [Procs -> Places]
    /\ ask \in [Requests -> Ask \cup {NoOne}]
    /\ todo \in [Recoverers -> SUBSET Jobs]
    /\ draft = [p \in Procs |-> draft[p]]
    /\ \A p \in Procs : /\ DOMAIN draft[p] \subseteq Jobs
                        /\ draft[p] \in [DOMAIN draft[p] -> Row]

NoDraft == [j \in {} |-> NoOne]

Init ==
    /\ job \in [Jobs -> {NewJob(s) : s \in Starts}]
    /\ attempts = [j \in Jobs |-> << >>]
    /\ audit = [j \in Jobs |-> << >>]
    /\ lock = [j \in Jobs |-> NoOne]
    /\ pc = [p \in Procs |-> IF p \in Requests THEN "new" ELSE "idle"]
    /\ ask = [r \in Requests |-> NoOne]
    /\ todo = [v \in Recoverers |-> {}]
    /\ draft = [p \in Procs |-> NoDraft]

-----------------------------------------------------------------------------
(* Transactions.                                                           *)

CanLock_NoForUpdate(p, j) == j \in Jobs

CanLock(p, j) == lock[j] \in {NoOne, p}

Unlocked(p) == [j \in Jobs |-> IF lock[j] = p THEN NoOne ELSE lock[j]]

\* The committed rows once the transaction of p is committed.
Installed(p) ==
    [j \in Jobs |-> IF j \in DOMAIN draft[p] THEN draft[p][j] ELSE job[j]]

\* An exception, a lost connection or the death of the process.
RollBack(p, where) ==
    /\ pc' = [pc EXCEPT ![p] = where]
    /\ draft' = [draft EXCEPT ![p] = NoDraft]
    /\ lock' = Unlocked(p)
    /\ UNCHANGED <<job, attempts, audit, ask>>

-----------------------------------------------------------------------------
(* transition_writeback_job, called by the execute endpoint or directly.   *)

Receive(r) ==
    /\ pc[r] = "new"
    /\ \E j \in Jobs, by \in Principals, via \in {"execute", "direct"} :
       \E to \in IF via = "execute" THEN {"IN_PROGRESS"} ELSE DirectTargets :
          /\ via = "execute" =>
                "ACCOUNTING_WRITEBACK" \in
                    get_permissions_for_roles(RolesOf[by])
          /\ ask' = [ask EXCEPT ![r] = [job |-> j, row |-> NoOne, to |-> to,
                                        by |-> by, via |-> via]]
    /\ pc' = [pc EXCEPT ![r] = "load"]
    /\ UNCHANGED <<job, attempts, audit, lock, todo, draft>>

\* The request with the row its SELECT returns.
Loaded(r) == [ask[r] EXCEPT !.row = job[ask[r].job]]

Accepted(r) ==
    /\ require_realm(Loaded(r))
    /\ validate_writeback_job_transition(Loaded(r))

\* SELECT without FOR UPDATE, then the checks.
Load(r) ==
    /\ pc[r] = "load"
    /\ Accepted(r)
    /\ ask' = [ask EXCEPT ![r] = Loaded(r)]
    /\ pc' = [pc EXCEPT ![r] = "flush"]
    /\ UNCHANGED <<job, attempts, audit, lock, todo, draft>>

Refuse(r) ==
    /\ pc[r] = "load"
    /\ ~Accepted(r)
    /\ RollBack(r, "refused")
    /\ UNCHANGED todo

\* The UPDATE, which waits for the row lock.
Flush(r) ==
    LET j == ask[r].job IN
    /\ pc[r] = "flush"
    /\ CanLock(r, j)
    /\ lock' = [lock EXCEPT ![j] = r]
    /\ draft' = [draft EXCEPT ![r] =
                    [k \in {j} |-> Transitioned(ask[r], job[j])]]
    /\ pc' = [pc EXCEPT ![r] = "commit"]
    /\ UNCHANGED <<job, attempts, audit, ask, todo>>

\* get_db commits; the execute endpoint has recorded its audit event.
CommitRequest(r) ==
    /\ pc[r] = "commit"
    /\ job' = Installed(r)
    /\ audit' = [audit EXCEPT ![ask[r].job] =
                   IF ask[r].via = "execute" THEN Append(@, r) ELSE @]
    /\ lock' = Unlocked(r)
    /\ draft' = [draft EXCEPT ![r] = NoDraft]
    /\ pc' = [pc EXCEPT ![r] = "done"]
    /\ UNCHANGED <<attempts, ask, todo>>

AbortRequest(r) ==
    /\ pc[r] \in {"load", "flush", "commit"}
    /\ RollBack(r, "aborted")
    /\ UNCHANGED todo

-----------------------------------------------------------------------------
(* _process_batch and _process_job.                                        *)

Leasable_ReadyOnly(w) ==
    {j \in Jobs : job[j].status = "READY" /\ Eligible(job[j]) /\ CanLock(w, j)}

Leasable(w) == {j \in Jobs : Eligible(job[j]) /\ CanLock(w, j)}

\* ORDER BY created_at LIMIT max_batch_size.
FirstOf(S) == {j \in S : Cardinality({k \in S : k < j}) < BatchSize}

\* A batch that finds no job changes nothing and is left out.
LeaseBatch(w) ==
    LET S == FirstOf(Leasable(w)) IN
    /\ pc[w] = "idle"
    /\ S # {}
    /\ lock' = [j \in Jobs |-> IF j \in S THEN w ELSE lock[j]]
    /\ draft' = [draft EXCEPT ![w] = [j \in S |-> Processed(job[j], w)]]
    /\ pc' = [pc EXCEPT ![w] = "leased"]
    /\ UNCHANGED <<job, attempts, audit, ask, todo>>

CommitBatch(w) ==
    /\ pc[w] = "leased"
    /\ job' = Installed(w)
    /\ attempts' = [j \in Jobs |->
                      IF j \in DOMAIN draft[w]
                      THEN Append(attempts[j],
                                  [number |-> draft[w][j].attempt_count,
                                   by     |-> w])
                      ELSE attempts[j]]
    /\ lock' = Unlocked(w)
    /\ draft' = [draft EXCEPT ![w] = NoDraft]
    /\ pc' = [pc EXCEPT ![w] = "idle"]
    /\ UNCHANGED <<audit, ask, todo>>

\* The worker dies with its batch and is started again.
CrashWorker(w) ==
    /\ pc[w] = "leased"
    /\ RollBack(w, "idle")
    /\ UNCHANGED todo

-----------------------------------------------------------------------------
(* recover_orphan_jobs: one UPDATE, visiting the rows that matched when it *)
(* began, in no particular order.                                          *)

StartRecovery(v) ==
    /\ pc[v] = "idle"
    /\ \E j \in Jobs : Orphaned(job[j])
    /\ todo' = [todo EXCEPT ![v] = {j \in Jobs : Orphaned(job[j])}]
    /\ pc' = [pc EXCEPT ![v] = "recovering"]
    /\ UNCHANGED <<job, attempts, audit, lock, ask, draft>>

StillOrphaned_NoRecheck(j) == j \in Jobs

\* A row that changed while the UPDATE waited is tested again.
StillOrphaned(j) == Orphaned(job[j])

RecoverJob(v) ==
    \E j \in todo[v] :
        /\ pc[v] = "recovering"
        /\ CanLock(v, j)
        /\ StillOrphaned(j)
        /\ lock' = [lock EXCEPT ![j] = v]
        /\ draft' = [draft EXCEPT ![v] =
                        [k \in DOMAIN draft[v] \cup {j} |->
                            IF k = j THEN Recovered(job[j])
                                     ELSE draft[v][k]]]
        /\ todo' = [todo EXCEPT ![v] = @ \ {j}]
        /\ UNCHANGED <<job, attempts, audit, pc, ask>>

PassOver(v) ==
    \E j \in todo[v] :
        /\ pc[v] = "recovering"
        /\ CanLock(v, j)
        /\ ~StillOrphaned(j)
        /\ todo' = [todo EXCEPT ![v] = @ \ {j}]
        /\ UNCHANGED <<job, attempts, audit, lock, pc, ask, draft>>

CommitRecovery(v) ==
    /\ pc[v] = "recovering"
    /\ todo[v] = {}
    /\ job' = Installed(v)
    /\ lock' = Unlocked(v)
    /\ draft' = [draft EXCEPT ![v] = NoDraft]
    /\ pc' = [pc EXCEPT ![v] = "idle"]
    /\ UNCHANGED <<attempts, audit, ask, todo>>

\* Two recoveries that hold a row the other one waits for: PostgreSQL ends one.
Waits(v, u) ==
    /\ todo[v] # {}
    /\ \A j \in todo[v] : lock[j] = u

CrashRecovery(v) ==
    /\ pc[v] = "recovering"
    /\ RollBack(v, "idle")
    /\ todo' = [todo EXCEPT ![v] = {}]

BreakDeadlock(v) ==
    /\ \E u \in Recoverers \ {v} : Waits(v, u) /\ Waits(u, v)
    /\ CrashRecovery(v)

\* The stuck threshold passes without a write of the job.
Age(j) ==
    /\ job[j].status = "IN_PROGRESS"
    /\ ~job[j].stale
    /\ job' = [job EXCEPT ![j].stale = TRUE]
    /\ UNCHANGED <<attempts, audit, lock, pc, ask, todo, draft>>

-----------------------------------------------------------------------------
Handle(r) == Load(r) \/ Refuse(r) \/ Flush(r) \/ CommitRequest(r)

Visit(v) == RecoverJob(v) \/ PassOver(v) \/ BreakDeadlock(v)

Next ==
    \/ \E r \in Requests : Receive(r) \/ Handle(r) \/ AbortRequest(r)
    \/ \E w \in Workers : LeaseBatch(w) \/ CommitBatch(w) \/ CrashWorker(w)
    \/ \E v \in Recoverers : \/ StartRecovery(v) \/ Visit(v)
                             \/ CommitRecovery(v) \/ CrashRecovery(v)
    \/ \E j \in Jobs : Age(j)

Spec == Init /\ [][Next]_vars

\* Running handlers are scheduled.  A worker polls for ever and survives its
\* exceptions; it may crash, but not in every batch.
FairSpec ==
    /\ Spec
    /\ \A r \in Requests : WF_vars(Handle(r))
    /\ \A w \in Workers : WF_vars(LeaseBatch(w)) /\ SF_vars(CommitBatch(w))

\* Time passes and someone calls recover_orphan_jobs again and again, which
\* nothing in the application does; sooner or later the calls are no longer
\* interrupted, except to break a deadlock.
OpsFairSpec ==
    /\ FairSpec
    /\ \A j \in Jobs : WF_vars(Age(j))
    /\ \A v \in Recoverers : /\ WF_vars(StartRecovery(v))
                             /\ WF_vars(Visit(v))
                             /\ WF_vars(CommitRecovery(v))
    /\ <>[][\A v \in Recoverers : CrashRecovery(v) => BreakDeadlock(v)]_vars

-----------------------------------------------------------------------------
(* Properties.                                                             *)

\* What a transaction is about to commit is what it would compute from the
\* committed row now: a worker still owns an eligible job when it commits, a
\* recovery an orphan, and a call writes over the row that is there.
DraftIsCurrent(p, j) ==
    /\ lock[j] = p
    /\ p \in Requests => draft[p][j] = Transitioned(ask[p], job[j])
    /\ p \in Workers => /\ Eligible(job[j])
                        /\ draft[p][j] = Processed(job[j], p)
    /\ p \in Recoverers => /\ Orphaned(job[j])
                           /\ draft[p][j] = Recovered(job[j])

DraftsAreCurrent == \A p \in Procs : \A j \in DOMAIN draft[p] : DraftIsCurrent(p, j)

\* Where a process stands says what it holds.
ProcIsSound(p) ==
    /\ pc[p] \notin {"commit", "leased", "recovering"} => draft[p] = NoDraft
    /\ p \in Requests =>
          /\ pc[p] \notin {"idle", "leased", "recovering"}
          /\ pc[p] # "new" => ask[p] \in Ask
          /\ pc[p] \in {"flush", "commit"} =>
                /\ ask[p].row \in Row
                /\ require_realm(ask[p])
                /\ validate_writeback_job_transition(ask[p])
          /\ pc[p] = "commit" => DOMAIN draft[p] = {ask[p].job}
    /\ p \in Workers => pc[p] \in {"idle", "leased"}
    /\ p \in Recoverers => pc[p] \in {"idle", "recovering"}

ProcsAreSound == \A p \in Procs : ProcIsSound(p)

\* No attempt of a worker exceeds max_attempts, although calls of
\* transition_writeback_job count without looking at it and may set the count
\* back.
AttemptsAreBounded ==
    \A j \in Jobs : \A k \in 1..Len(attempts[j]) :
        attempts[j][k].number \in 1..MaxAttempts

\* The inductive invariant of the specification.
JobsInv ==
    /\ TypeOK
    /\ ProcsAreSound
    /\ DraftsAreCurrent
    /\ AttemptsAreBounded

\* Whoever the row names as executor executed the job: a worker left an attempt
\* record, a principal a committed call for IN_PROGRESS.
ExecutorIsOnRecord ==
    \A j \in Jobs :
        LET e == job[j].executor IN
        /\ e \in Workers => \E k \in 1..Len(attempts[j]) : attempts[j][k].by = e
        /\ e \in Principals =>
              \E r \in Requests : /\ pc[r] = "done"
                                  /\ ask[r].job = j
                                  /\ ask[r].by = e
                                  /\ ask[r].to = "IN_PROGRESS"

\* With its locks, leases, crashes and waiting UPDATEs, this is the ledger:
\* batches and recoveries take effect at the instant they commit.
Ledger == INSTANCE WriteBackLedger WITH
    seen <- [r \in Requests |->
               IF pc[r] \in {"flush", "commit"}
               THEN [job |-> ask[r].job, row |-> ask[r].row,
                     to |-> ask[r].to, by |-> ask[r].by]
               ELSE NoOne]

ImplementsLedger == Ledger!Spec

\* A job that may still be tried does not wait for ever in READY or
\* FAILED_RETRYABLE, whatever crashes and whichever jobs are older.
EligibleJobsRun ==
    \A j \in Jobs : Eligible(job[j]) ~> ~Eligible(job[j])

\* A job left IN_PROGRESS with attempts to spare is recovered, if
\* recover_orphan_jobs is called again and again.
OrphansWithAttemptsAreRecovered ==
    \A j \in Jobs :
        LET left == job[j].status = "IN_PROGRESS" /\
                    job[j].attempt_count < MaxAttempts
        IN left ~> ~left

\* recover_orphan_jobs: "Recover jobs left in IN_PROGRESS by crashed workers."
OrphansAreRecovered ==
    \A j \in Jobs :
        job[j].status = "IN_PROGRESS" ~> job[j].status # "IN_PROGRESS"

\* test_no_duplicate_execution_after_recovery: "After recovery, the same job is
\* only processed once more, not duplicated".  An attempt of a worker always
\* succeeds, so a job has at most one.
NotExecutedAgain == \A j \in Jobs : Len(attempts[j]) <= 1
=============================================================================
