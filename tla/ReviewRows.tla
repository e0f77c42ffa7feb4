----------------------------- MODULE ReviewRows -----------------------------
(***************************************************************************)
(* What the review requests ask for, and what a transition does to one row *)
(* of accounting_work_item (accounting/models.py, router.py, services.py   *)
(* and workflow.py).  ReviewLedger and WorkItemReview give it behaviour.   *)
(***************************************************************************)
EXTENDS WorkflowTables, OrmSession, Naturals, FiniteSets, Sequences

CONSTANTS
    Items,       \* work items
    Requests,    \* requests; each is made at most once
    Principals,  \* authenticated principals
    RolesOf,     \* the roles of each principal
    InRealm,     \* the pairs <<principal, item>> has_realm_access allows
    Kinds,       \* the operations requested
    Starts,      \* the statuses items are found in
    NoOne        \* NULL

\* Operations that lock the item before they look at it, and those that load
\* it first.  "resolve" and "reopen" are the two actions of resolve_escalation;
\* "pipeline" is a direct caller of transition_work_item, the service's
\* interface for the steps no endpoint performs.
LockFirst == {"claim", "release", "reject", "defer", "reopen", "pipeline"}
LoadFirst == {"approve", "batch", "correct", "escalate"}
AllKinds  == LockFirst \cup LoadFirst \cup {"resolve"}

PipelineTargets ==
    WorkItemStatus \ {"IN_REVIEW", "CORRECTED", "APPROVED", "REJECTED",
                      "DEFERRED", "ESCALATED"}

ASSUME ReviewAssumption ==
    /\ RolesOf \in [Principals -> SUBSET Role]
    /\ InRealm \subseteq Principals \X Items
    /\ Kinds \subseteq AllKinds
    /\ Starts \subseteq WorkItemStatus
    /\ NoOne \notin Principals \cup Requests

\* The columns the workflow decides on.  approved_at, rejected_at and the other
\* columns written with them follow the status and are left out; a correction
\* is told apart by the request that wrote it.
Row == [status            : WorkItemStatus,
        version           : Nat,
        assigned_reviewer : Principals \cup {NoOne},
        approved_by       : Principals \cup {NoOne},
        recommended       : Requests \cup {NoOne},
        escalation_status : {"NONE", "OPEN", "REOPENED"}]

\* An item as it is found.
NewRow(s) == [status |-> s, version |-> 1, assigned_reviewer |-> NoOne,
              approved_by |-> NoOne, recommended |-> NoOne,
              escalation_status |-> "NONE"]

Entry == [from : WorkItemStatus, to : WorkItemStatus, by : Principals,
          req : Requests]

Ask == [kind  : Kinds,
        by    : Principals,
        items : Seq(Items),
        to    : WorkItemStatus \cup {NoOne},
        esc   : Requests \cup {NoOne}]

EscalationState == {"ABSENT", "OPEN", "RESOLVED", "REOPENED"}

\* The permission the endpoint's dependency demands before the handler runs.
EndpointPermission(kind) ==
    CASE kind \in {"approve", "batch", "resolve", "reopen"} ->
                                                   {"ACCOUNTING_APPROVE"}
      [] kind = "pipeline" -> {}
      [] OTHER             -> {"ACCOUNTING_REVIEW"}

LetIn(a) ==
    EndpointPermission(a.kind) \subseteq get_permissions_for_roles(RolesOf[a.by])

\* A correction goes through a transition only from IN_REVIEW or NEEDS_REVIEW;
\* in any other status it just writes the field.
OnlyCorrects(a, judged) ==
    a.kind = "correct" /\ judged.status \notin {"IN_REVIEW", "NEEDS_REVIEW"}

\* The session's object after the handler of a set its attributes.
Moved(r, a, judged) ==
    [judged EXCEPT
        !.status            = a.to,
        !.version           = @ + 1,
        !.approved_by       = IF a.to = "APPROVED" THEN a.by ELSE @,
        !.assigned_reviewer = IF a.to = "IN_REVIEW" THEN a.by ELSE @,
        !.recommended       = IF a.kind = "correct" THEN r ELSE @,
        !.escalation_status = CASE a.kind = "escalate" -> "OPEN"
                                [] a.kind = "reopen"   -> "REOPENED"
                                [] OTHER               -> @]

EntryOf_AfterAssignment(r, a, judged) ==
    [from |-> a.to, to |-> a.to, by |-> a.by, req |-> r]

\* The work_item_transition row that is recorded with it.
EntryOf(r, a, judged) ==
    [from |-> judged.status, to |-> a.to, by |-> a.by, req |-> r]

\* An edge of WORK_ITEM_TRANSITIONS, by a principal with the permission that
\* edge asks for and access to the item's realm.
LegalEntry(e, i) ==
    /\ <<e.from, e.to>> \in WORK_ITEM_TRANSITIONS
    /\ RequiredPermissions(e.from, e.to) \subseteq
           get_permissions_for_roles(RolesOf[e.by])
    /\ <<e.by, i>> \in InRealm

\* The escalations once request r, asking for a, is committed.
EscalationsAfter(r, a, escalations) ==
    CASE a.kind = "escalate" -> [escalations EXCEPT ![r] = "OPEN"]
      [] a.kind = "resolve"  -> [escalations EXCEPT ![a.esc] = "RESOLVED"]
      [] a.kind = "reopen"   -> [escalations EXCEPT ![a.esc] = "REOPENED"]
      [] OTHER               -> escalations
=============================================================================
