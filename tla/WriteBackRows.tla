---------------------------- MODULE WriteBackRows ----------------------------
(***************************************************************************)
(* What the operations on write-back jobs compute from one write_back_job  *)
(* row (accounting/workflow.py, transition_writeback_job, and              *)
(* accounting/worker.py).  WriteBackLedger and WriteBackJobs give it       *)
(* behaviour.                                                              *)
(***************************************************************************)
EXTENDS WorkflowTables, OrmSession, Integers, FiniteSets, Sequences

CONSTANTS
    Jobs,         \* write-back jobs, numbered in order of creation
    Requests,     \* calls of transition_writeback_job; each made at most once
    Workers,      \* worker processes
    Principals,   \* authenticated principals
    InRealm,      \* the pairs <<principal, job>> has_realm_access allows
    MaxAttempts,  \* max_attempts of every job
    NoOne         \* NULL

ASSUME RowsAssumption ==
    /\ Jobs \subseteq Nat
    /\ InRealm \subseteq Principals \X Jobs
    /\ MaxAttempts \in Nat
    /\ Principals \cap Workers = {}
    /\ NoOne \notin Principals \cup Workers \cup Requests

\* started_at, completed_at and the failure columns are written with the status
\* and decide nothing; next_retry_at is read by the worker and written by no
\* one.  stale says that updated_at is older than the stuck threshold.
Row == [status        : WriteBackJobStatus,
        attempt_count : Nat,
        version       : Nat,
        executor      : Principals \cup Workers \cup {NoOne},
        stale         : BOOLEAN]

\* A job nobody has executed yet.
NewJob(s) == [status |-> s, attempt_count |-> 0, version |-> 1,
              executor |-> NoOne, stale |-> FALSE]

\* write_back_attempt
Attempt == [number : Nat, by : Workers]

\* A request as transition_writeback_job has it after its SELECT: the job, the
\* row it loaded, the target and the caller.
Snapshot == [job : Jobs, row : Row, to : WriteBackJobStatus, by : Principals]

\* The checks of transition_writeback_job on the row it loaded.
validate_writeback_job_transition(s) ==
    <<s.row.status, s.to>> \in WRITEBACK_JOB_TRANSITIONS

require_realm(s) == <<s.by, s.job>> \in InRealm

Assigned_AnyExecutor(s) ==
    [s.row EXCEPT
        !.status        = s.to,
        !.version       = @ + 1,
        !.attempt_count = IF s.to = "IN_PROGRESS" THEN @ + 1 ELSE @,
        !.executor      = s.by]

\* The session's object once the handler set its attributes.  Nothing compares
\* attempt_count with max_attempts here.
Assigned(s) ==
    [s.row EXCEPT
        !.status        = s.to,
        !.version       = @ + 1,
        !.attempt_count = IF s.to = "IN_PROGRESS" THEN @ + 1 ELSE @,
        !.executor      = IF s.to = "IN_PROGRESS" THEN s.by ELSE @]

\* The row its UPDATE leaves, which may be another than the row it loaded:
\* transition_writeback_job does not lock it.  updated_at is written too.
Transitioned(s, base) ==
    [Flushed(s.row, Assigned(s), base) EXCEPT !.stale = FALSE]

\* The jobs a worker asks for.
Eligible(row) ==
    /\ row.status \in {"READY", "FAILED_RETRYABLE"}
    /\ row.attempt_count < MaxAttempts

\* _process_job: the job goes to IN_PROGRESS and, in shadow mode, at once to
\* SUCCEEDED.
Processed(row, w) ==
    [row EXCEPT !.status        = "SUCCEEDED",
                !.attempt_count = @ + 1,
                !.executor      = w,
                !.stale         = FALSE]

Orphaned_OffByOne(row) ==
    /\ row.status = "IN_PROGRESS"
    /\ row.stale
    /\ row.attempt_count + 1 < MaxAttempts

\* The WHERE of recover_orphan_jobs.
Orphaned(row) ==
    /\ row.status = "IN_PROGRESS"
    /\ row.stale
    /\ row.attempt_count < MaxAttempts

Recovered(row) == [row EXCEPT !.status = "FAILED_RETRYABLE", !.stale = FALSE]
=============================================================================
