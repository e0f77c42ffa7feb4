--------------------------- MODULE WorkItemReview ---------------------------
(***************************************************************************)
(* The review of accounting work items by concurrent HTTP requests         *)
(* (accounting/services.py and workflow.py over db/session.py).            *)
(*                                                                         *)
(* A request is one handler call and one database transaction: it runs     *)
(* its SELECTs, takes row locks, stages its writes and commits, or is      *)
(* rolled back and leaves nothing.  PostgreSQL runs READ COMMITTED: a      *)
(* SELECT sees the last committed row, and SELECT ... FOR UPDATE waits for *)
(* the lock of the row.                                                    *)
(*                                                                         *)
(* What makes this hard is the ORM session.  A row already loaded in the   *)
(* session keeps its attributes when SELECT ... FOR UPDATE returns it      *)
(* again, so approve, record_correction and create_escalation, which load  *)
(* the item before transition_work_item locks it, judge the status as it   *)
(* was before they waited.  claim, release, reject, defer and the          *)
(* reopening of an escalation do not load first, and judge the locked row. *)
(***************************************************************************)
EXTENDS ReviewRows

VARIABLES
    row,         \* committed accounting_work_item rows
    log,         \* committed work_item_transition rows of each item, in order
    escalation,  \* committed escalation rows, named by the creating request
    lock,        \* the request that holds the row lock of each item
    pc,          \* where each request stands
    ask,         \* what each request asks for
    at,          \* position in ask[r].items (a batch has several)
    copy,        \* the item as the session of each request last loaded it
    draft,       \* uncommitted writes of each request, per item it wrote
    outcome      \* per item, how a batch reports it

vars == <<row, log, escalation, lock, pc, ask, at, copy, draft, outcome>>

Working == {"load", "flush", "lock", "write", "commit"}
Ended   == {"done", "refused", "aborted"}

TypeOK ==
    /\ row \in [Items -> Row]
    /\ log \in [Items -> Seq(Entry)]
    /\ escalation \in [Requests -> EscalationState]
    /\ lock \in [Items -> Requests \cup {NoOne}]
    /\ pc \in [Requests -> {"new"} \cup Working \cup Ended]
    /\ ask \in [Requests -> Ask \cup {NoOne}]
    /\ at \in [Requests -> Nat]
    /\ copy \in [Requests -> Row \cup {NoOne}]
    /\ draft = [r \in Requests |-> draft[r]]
    /\ \A r \in Requests :
          /\ DOMAIN draft[r] \subseteq Items
          /\ draft[r] \in [DOMAIN draft[r] ->
                             [row : Row, entries : Seq(Entry), judged : Row]]
    /\ outcome \in [Requests -> Seq({"SUCCESS", "SKIPPED", "FAILED"})]

\* A transaction that wrote nothing.
NoDraft == [i \in {} |-> NoOne]

Init ==
    /\ row \in [Items -> {NewRow(s) : s \in Starts}]
    /\ log = [i \in Items |-> << >>]
    /\ escalation = [r \in Requests |-> "ABSENT"]
    /\ lock = [i \in Items |-> NoOne]
    /\ pc = [r \in Requests |-> "new"]
    /\ ask = [r \in Requests |-> NoOne]
    /\ at = [r \in Requests |-> 1]
    /\ copy = [r \in Requests |-> NoOne]
    /\ draft = [r \in Requests |-> NoDraft]
    /\ outcome = [r \in Requests |-> << >>]

-----------------------------------------------------------------------------
(* What is asked.                                                          *)

TargetsOf(kind) ==
    CASE kind = "claim"    -> {"IN_REVIEW"}
      [] kind = "release"  -> {"NEEDS_REVIEW"}
      [] kind = "reject"   -> {"REJECTED"}
      [] kind = "defer"    -> {"DEFERRED"}
      [] kind = "correct"  -> {"CORRECTED"}
      [] kind = "escalate" -> {"ESCALATED"}
      [] kind = "reopen"   -> {"NEEDS_REVIEW"}
      [] kind = "pipeline" -> PipelineTargets
      [] kind = "resolve"  -> {NoOne}
      [] OTHER             -> {"APPROVED"}

\* A batch names any number of items; the model takes one or two.
ItemLists(kind) ==
    IF kind = "batch" THEN {<<i>> : i \in Items} \cup (Items \X Items)
                      ELSE {<<i>> : i \in Items}

\* An escalation is resolved by naming a row that exists; its item comes with
\* it.
Names(a) ==
    IF a.kind \in {"resolve", "reopen"}
    THEN /\ a.esc \in Requests
         /\ escalation[a.esc] # "ABSENT"
         /\ a.items = ask[a.esc].items
    ELSE a.esc = NoOne

\* A request arrives and its permission dependency lets it in.
Receive(r) ==
    /\ pc[r] = "new"
    /\ \E kind \in Kinds, by \in Principals, esc \in Requests \cup {NoOne} :
       \E to \in TargetsOf(kind), items \in ItemLists(kind) :
          LET a == [kind |-> kind, by |-> by, items |-> items, to |-> to,
                    esc |-> esc]
          IN /\ LetIn(a)
             /\ Names(a)
             /\ ask' = [ask EXCEPT ![r] = a]
             /\ pc' = [pc EXCEPT ![r] =
                         IF kind \in LockFirst \ {"reopen"} THEN "lock"
                                                            ELSE "load"]
    /\ UNCHANGED <<row, log, escalation, lock, at, copy, draft, outcome>>

-----------------------------------------------------------------------------
(* Helpers of the handlers.                                                *)

Item(r) == ask[r].items[at[r]]

\* What a plain SELECT of r returns: its own uncommitted write, or the last
\* committed row.
Visible(r, i) == IF i \in DOMAIN draft[r] THEN draft[r][i].row ELSE row[i]

\* The attributes transition_work_item sees once it holds the lock: those of
\* the object already in the session if there is one, else the locked row.
Judged(r) == IF ask[r].kind \in LoadFirst THEN copy[r]
                                          ELSE Visible(r, Item(r))

require_realm(r, i) == <<ask[r].by, i>> \in InRealm

\* The checks of transition_work_item.  ValueError is tested before the
\* permission, after the realm.
validate_work_item_transition_TargetOnly(r) ==
    ask[r].to \in {e[2] : e \in WORK_ITEM_TRANSITIONS}

validate_work_item_transition(r) ==
    <<Judged(r).status, ask[r].to>> \in WORK_ITEM_TRANSITIONS

Authorised_EndpointOnly(r) ==
    EndpointPermission(ask[r].kind) \subseteq
        get_permissions_for_roles(RolesOf[ask[r].by])

Authorised(r) ==
    RequiredPermissions(Judged(r).status, ask[r].to) \subseteq
        get_permissions_for_roles(RolesOf[ask[r].by])

Allowed(r) ==
    /\ require_realm(r, Item(r))
    /\ validate_work_item_transition(r)
    /\ Authorised(r)

\* The session's object after the handler set its attributes.
Assigned(r) == Moved(r, ask[r], Judged(r))

\* An UPDATE of item i.  What it was judged on is remembered for the sake of
\* ImplementsReview.
Stage(r, i, judged, newRow, entries) ==
    draft' = [draft EXCEPT ![r] =
                [j \in DOMAIN draft[r] \cup {i} |->
                    IF j = i
                    THEN [row |-> newRow, entries |-> entries, judged |-> judged]
                    ELSE draft[r][j]]]

CanLock_NoForUpdate(r, i) == i \in Items

CanLock(r, i) == lock[i] \in {NoOne, r}

Unlocked_Leaks(r) == [i \in Items |-> lock[i]]

Unlocked(r) == [i \in Items |-> IF lock[i] = r THEN NoOne ELSE lock[i]]

\* After the current item: the next one of a batch, or the commit.
Onward(r) ==
    /\ at' = [at EXCEPT ![r] = @ + 1]
    /\ pc' = [pc EXCEPT ![r] = IF at[r] < Len(ask[r].items) THEN "load"
                                                            ELSE "commit"]

RollBack(r, how) ==
    /\ pc' = [pc EXCEPT ![r] = how]
    /\ draft' = [draft EXCEPT ![r] = NoDraft]
    /\ lock' = Unlocked(r)
    /\ UNCHANGED <<row, log, escalation, ask, at, copy, outcome>>

-----------------------------------------------------------------------------
(* The handlers.                                                           *)

\* The unlocked SELECT with which approve, record_correction and
\* create_escalation begin.
Load(r) ==
    /\ pc[r] = "load"
    /\ ask[r].kind \in LoadFirst
    /\ ask[r].kind \in {"correct", "escalate"} => require_realm(r, Item(r))
    /\ copy' = [copy EXCEPT ![r] = Visible(r, Item(r))]
    /\ pc' = [pc EXCEPT ![r] =
                IF OnlyCorrects(ask[r], Visible(r, Item(r))) THEN "write"
                                                             ELSE "lock"]
    /\ UNCHANGED <<row, log, escalation, lock, ask, at, draft, outcome>>

\* resolve_escalation reads the escalation without a lock.
ReadEscalation(r) ==
    /\ pc[r] = "load"
    /\ ask[r].kind \in {"resolve", "reopen"}
    /\ escalation[ask[r].esc] = "OPEN"
    /\ pc' = [pc EXCEPT ![r] = "flush"]
    /\ UNCHANGED <<row, log, escalation, lock, ask, at, copy, draft, outcome>>

\* Its UPDATE of the escalation row, flushed before the item is selected; the
\* row stays locked until the transaction ends.
HoldsEscalation(q, e) ==
    /\ pc[q] \in {"lock", "commit"}
    /\ ask[q].kind \in {"resolve", "reopen"}
    /\ ask[q].esc = e

FlushEscalation(r) ==
    /\ pc[r] = "flush"
    /\ \A q \in Requests \ {r} : ~HoldsEscalation(q, ask[r].esc)
    /\ pc' = [pc EXCEPT ![r] = IF ask[r].kind = "reopen" THEN "lock"
                                                         ELSE "commit"]
    /\ UNCHANGED <<row, log, escalation, lock, ask, at, copy, draft, outcome>>

\* transition_work_item up to its flush: lock, validate, record the transition
\* and write the row.
transition_work_item(r) ==
    LET i == Item(r) IN
    /\ pc[r] = "lock"
    /\ CanLock(r, i)
    /\ Allowed(r)
    /\ lock' = [lock EXCEPT ![i] = r]
    /\ Stage(r, i, Judged(r), Flushed(Judged(r), Assigned(r), Visible(r, i)),
             <<EntryOf(r, ask[r], Judged(r))>>)
    /\ outcome' = [outcome EXCEPT ![r] = Append(@, "SUCCESS")]
    /\ Onward(r)
    /\ UNCHANGED <<row, log, escalation, ask, copy>>

SkipOutcome_AlwaysSuccess(r) == IF ask[r].kind = "batch" THEN "SUCCESS"
                                                           ELSE "FAILED"

SkipOutcome(r) == IF require_realm(r, Item(r)) /\
                     ~validate_work_item_transition(r)
                  THEN "SKIPPED" ELSE "FAILED"

\* batch_approve catches the refusal of an item and goes on with the next one;
\* the item stays locked.
SkipBatchItem(r) ==
    LET i == Item(r) IN
    /\ pc[r] = "lock"
    /\ ask[r].kind = "batch"
    /\ CanLock(r, i)
    /\ ~Allowed(r)
    /\ lock' = [lock EXCEPT ![i] = r]
    /\ outcome' = [outcome EXCEPT ![r] = Append(@, SkipOutcome(r))]
    /\ Onward(r)
    /\ UNCHANGED <<row, log, escalation, ask, copy, draft>>

\* Any other handler lets ValueError and PermissionError end the request.
Refuse(r) ==
    /\ \/ /\ pc[r] = "load"
          /\ ask[r].kind \in {"correct", "escalate"}
          /\ ~require_realm(r, Item(r))
       \/ /\ pc[r] = "load"
          /\ ask[r].kind \in {"resolve", "reopen"}
          /\ escalation[ask[r].esc] # "OPEN"
       \/ /\ pc[r] = "lock"
          /\ ask[r].kind # "batch"
          /\ CanLock(r, Item(r))
          /\ ~Allowed(r)
    /\ RollBack(r, "refused")

\* The row an UPDATE of the corrected field leaves.
CorrectedRow_WholeRow(r, i) == [copy[r] EXCEPT !.recommended = r]

CorrectedRow_SignsOff(r, i) ==
    [Visible(r, i) EXCEPT !.recommended = r, !.approved_by = ask[r].by]

CorrectedRow(r, i) == [Visible(r, i) EXCEPT !.recommended = r]

\* A correction outside review: the UPDATE waits for the row like any other,
\* and records no transition.
WriteCorrection(r) ==
    LET i == Item(r) IN
    /\ pc[r] = "write"
    /\ CanLock(r, i)
    /\ lock' = [lock EXCEPT ![i] = r]
    /\ Stage(r, i, copy[r], CorrectedRow(r, i), << >>)
    /\ Onward(r)
    /\ UNCHANGED <<row, log, escalation, ask, copy, outcome>>

\* get_db commits: rows, transitions and escalations together, and the locks
\* are released.
Commit(r) ==
    /\ pc[r] = "commit"
    /\ row' = [i \in Items |-> Visible(r, i)]
    /\ log' = [i \in Items |-> IF i \in DOMAIN draft[r]
                               THEN log[i] \o draft[r][i].entries
                               ELSE log[i]]
    /\ escalation' = EscalationsAfter(r, ask[r], escalation)
    /\ lock' = Unlocked(r)
    /\ pc' = [pc EXCEPT ![r] = "done"]
    /\ draft' = [draft EXCEPT ![r] = NoDraft]
    /\ UNCHANGED <<ask, at, copy, outcome>>

\* The process dies, the client disconnects or the database fails.
Abort(r) ==
    /\ pc[r] \in Working
    /\ RollBack(r, "aborted")

\* PostgreSQL's deadlock detector ends one transaction of a cycle of waiters.
\* In a batch the error is caught, but the transaction is already dead: the
\* next flush raises and the whole batch is rolled back.
Waits(q, p) ==
    /\ q # p
    /\ \/ pc[q] \in {"lock", "write"} /\ lock[Item(q)] = p
       \/ pc[q] = "flush" /\ HoldsEscalation(p, ask[q].esc)

Deadlocked(r) ==
    \E S \in SUBSET Requests :
        /\ r \in S
        /\ \A q \in S : /\ \E p \in S : Waits(q, p)
                        /\ \E p \in S : Waits(p, q)

BreakDeadlock(r) ==
    /\ Deadlocked(r)
    /\ RollBack(r, "aborted")

-----------------------------------------------------------------------------
Handle(r) ==
    \/ Load(r)
    \/ ReadEscalation(r)
    \/ FlushEscalation(r)
    \/ transition_work_item(r)
    \/ SkipBatchItem(r)
    \/ Refuse(r)
    \/ WriteCorrection(r)
    \/ Commit(r)
    \/ BreakDeadlock(r)

Next == \E r \in Requests : Receive(r) \/ Handle(r) \/ Abort(r)

Spec == Init /\ [][Next]_vars

\* A running handler is scheduled by the event loop and the database resolves
\* deadlocks; nobody has to send a request, and nothing has to crash.
FairSpec == Spec /\ \A r \in Requests : WF_vars(Handle(r))

-----------------------------------------------------------------------------
(* Properties.                                                             *)

\* A row that a transaction wrote and has not committed is locked by it, so
\* that no two transactions ever have writes of one item in flight.
WritesAreLocked ==
    \A r \in Requests : \A i \in DOMAIN draft[r] : lock[i] = r

\* The committed status of an item is the target of its last recorded
\* transition: whatever a rollback, a crash or a stale write does, the row and
\* work_item_transition never tell different stories.
RowMatchesAudit ==
    \A i \in Items :
        log[i] # << >> => row[i].status = log[i][Len(log[i])].to

\* Every recorded transition is an edge of WORK_ITEM_TRANSITIONS made by a
\* principal with the permission that edge asks for and access to the realm,
\* though stale requests judge a status the row no longer has.
AuditIsLegal ==
    \A i \in Items : \A k \in 1..Len(log[i]) : LegalEntry(log[i][k], i)

\* What the writes in flight of a request hold, until they are committed: a
\* row whose status is the target of the transition staged with it or, when
\* there is none, the committed status; and, for the handlers that lock first,
\* one legal edge and one version on from the committed row.
DraftIsFaithful(r, i) ==
    LET d == draft[r][i] IN
    /\ \/ d.entries = << >> /\ d.row.status = row[i].status
       \/ \E e \in Entry : /\ d.entries = <<e>>
                           /\ d.row.status = e.to
                           /\ LegalEntry(e, i)
    /\ ask[r].kind \in LockFirst =>
          /\ <<row[i].status, d.row.status>> \in WORK_ITEM_TRANSITIONS
          /\ d.row.version = row[i].version + 1

DraftsAreFaithful ==
    \A r \in Requests : \A i \in DOMAIN draft[r] : DraftIsFaithful(r, i)

\* Where a request stands says what it knows: it asked for something, it looks
\* at one of its items, and it has loaded what it is about to judge.
RequestIsSound(r) ==
    /\ pc[r] = "new" => at[r] = 1
    /\ pc[r] # "new" =>
          /\ ask[r] \in Ask
          /\ ask[r].kind # "resolve" => ask[r].to \in WorkItemStatus
          /\ ask[r].kind # "batch" => Len(ask[r].items) = 1
    /\ pc[r] \in {"load", "flush", "lock", "write"} =>
          at[r] \in DOMAIN ask[r].items
    /\ pc[r] \in {"lock", "write"} =>
          /\ ask[r].kind # "resolve"
          /\ ask[r].kind \in LoadFirst => copy[r] \in Row
    /\ pc[r] = "write" => ask[r].kind = "correct"
    /\ pc[r] \notin Working => draft[r] = NoDraft
    /\ pc[r] \in {"load", "flush", "lock", "write"} /\ ask[r].kind # "batch" =>
          draft[r] = NoDraft

RequestsAreSound == \A r \in Requests : RequestIsSound(r)

\* The inductive invariant of the specification.
ReviewInv ==
    /\ TypeOK
    /\ RequestsAreSound
    /\ WritesAreLocked
    /\ DraftsAreFaithful
    /\ RowMatchesAudit
    /\ AuditIsLegal

\* The handlers that lock before they look are serialised: the row they commit
\* is one edge and one version on from the row they replace.
LockFirstIsSerial ==
    [][\A r \in Requests, i \in Items :
          /\ pc[r] = "commit" /\ pc'[r] = "done"
          /\ ask[r].kind \in LockFirst
          /\ i \in DOMAIN draft[r]
          => /\ <<row[i].status, row'[i].status>> \in WORK_ITEM_TRANSITIONS
             /\ row'[i].version = row[i].version + 1]_vars

\* Two reviewers who claim the same item: only one succeeds.  Between two
\* claims on record the item was sent back to NEEDS_REVIEW.
OneClaim ==
    \A i \in Items : \A k \in 1..Len(log[i]) : \A j \in 1..(k - 1) :
        log[i][j].to = "IN_REVIEW" /\ log[i][k].to = "IN_REVIEW" =>
            \E m \in (j + 1)..(k - 1) : log[i][m].to = "NEEDS_REVIEW"

\* Whoever the row names as reviewer of an item in review made the claim last
\* on record, and whoever it names as approver once approved it.
ActorsOnRecord ==
    \A i \in Items :
        /\ row[i].status = "IN_REVIEW" /\ log[i] # << >> =>
               row[i].assigned_reviewer = log[i][Len(log[i])].by
        /\ row[i].approved_by # NoOne =>
               \E k \in 1..Len(log[i]) : /\ log[i][k].to = "APPROVED"
                                         /\ log[i][k].by = row[i].approved_by

\* The trail of an item breaks only where an operation that loads first judged
\* a row that had moved on: a transition judged under the lock starts where the
\* one before it on record ended.
LockedStepsChain ==
    \A i \in Items : \A k \in 2..Len(log[i]) :
        ask[log[i][k].req].kind \in LockFirst => log[i][k].from = log[i][k - 1].to

\* All or nothing: a committed request left exactly the transitions it reports,
\* item by item for a batch, and any other request left none.
AllOrNothing ==
    \A r \in Requests :
        {i \in Items : \E k \in 1..Len(log[i]) : log[i][k].req = r} =
            {i \in Items : /\ pc[r] = "done"
                           /\ \E k \in 1..Len(outcome[r]) :
                                 /\ outcome[r][k] = "SUCCESS"
                                 /\ ask[r].items[k] = i}

\* With its sessions, locks, deadlocks and rollbacks, this is the ledger: a
\* request judges each item at one instant and takes effect at a later one, as
\* a whole or not at all, and what it judged first under the lock is what it
\* replaces.
JudgedItems(r) ==
    DOMAIN draft[r] \cup
        (IF pc[r] \in {"lock", "write"} /\ ask[r].kind \in LoadFirst
         THEN {Item(r)} ELSE {})

JudgedRows ==
    [r \in Requests |->
        [i \in JudgedItems(r) |->
            IF i \in DOMAIN draft[r] THEN draft[r][i].judged ELSE copy[r]]]

Over == {r \in Requests : pc[r] \in Ended}

Ledger == INSTANCE ReviewLedger WITH judged <- JudgedRows, over <- Over

ImplementsReview == Ledger!Spec

\* A request that began ends: no handler waits for ever for a row lock, also
\* when two batches lock the same items in opposite orders.
RequestsEnd ==
    \A r \in Requests : pc[r] \in Working ~> pc[r] \in Ended

\* test_concurrent_approval_same_version: "Two approvers try to approve the
\* same version: only one succeeds".
OneApprovalPerVersion ==
    \A i \in Items : \A k \in 1..Len(log[i]) : \A j \in 1..(k - 1) :
        log[i][j].to = "APPROVED" /\ log[i][k].to = "APPROVED" =>
            \E m \in (j + 1)..(k - 1) : log[i][m].to = "NEEDS_REVIEW"

\* release(): "Release a work item back to the queue (IN_REVIEW to
\* NEEDS_REVIEW)".  A release of an item in review is not turned down.
ReleaseIsAccepted ==
    [][\A r \in Requests :
          /\ pc[r] = "lock" /\ ask[r].kind = "release"
          /\ pc'[r] = "refused"
          /\ require_realm(r, Item(r))
          => row[Item(r)].status # "IN_REVIEW"]_vars
=============================================================================
