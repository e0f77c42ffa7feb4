--------------------------- MODULE WorkflowTables ---------------------------
(***************************************************************************)
(* The two state machines of the accounting workflow, and who may drive    *)
(* them: accounting/__init__.py (statuses and transition tables),          *)
(* accounting/workflow.py (the permission a transition asks for) and       *)
(* security/roles.py (the permissions a role grants).  Everything here is  *)
(* constant data; WorkItemReview and WriteBackJobs give it behaviour.      *)
(***************************************************************************)

WorkItemStatus ==
    {"INGESTED", "VALIDATED", "RECOMMENDED", "NEEDS_REVIEW", "IN_REVIEW",
     "CORRECTED", "APPROVED", "REJECTED", "DEFERRED", "READY_FOR_WRITEBACK",
     "WRITEBACK_IN_PROGRESS", "WRITTEN", "WRITEBACK_FAILED", "RECONCILING",
     "RECONCILED", "RECONCILIATION_FAILED", "ESCALATED", "CLOSED"}

\* The edges <<current, target>> of the work-item state machine.
WORK_ITEM_TRANSITIONS ==
    UNION {{"INGESTED"}    \X {"VALIDATED", "ESCALATED"},
           {"VALIDATED"}   \X {"RECOMMENDED", "ESCALATED"},
           {"RECOMMENDED"} \X {"NEEDS_REVIEW", "APPROVED"},
           {"NEEDS_REVIEW"} \X
               {"IN_REVIEW", "APPROVED", "REJECTED", "DEFERRED", "ESCALATED"},
           {"IN_REVIEW"} \X
               {"CORRECTED", "APPROVED", "REJECTED", "DEFERRED", "ESCALATED"},
           {"CORRECTED"} \X {"APPROVED", "REJECTED", "DEFERRED", "ESCALATED"},
           {"APPROVED"}  \X {"READY_FOR_WRITEBACK", "ESCALATED", "CLOSED"},
           {"REJECTED"}  \X {"CLOSED"},
           {"DEFERRED"}  \X {"NEEDS_REVIEW", "CLOSED"},
           {"READY_FOR_WRITEBACK"}   \X {"WRITEBACK_IN_PROGRESS", "CLOSED"},
           {"WRITEBACK_IN_PROGRESS"} \X {"WRITTEN", "WRITEBACK_FAILED"},
           {"WRITTEN"} \X {"RECONCILING", "RECONCILIATION_FAILED"},
           {"WRITEBACK_FAILED"} \X
               {"READY_FOR_WRITEBACK", "ESCALATED", "CLOSED"},
           {"RECONCILING"} \X {"RECONCILED", "RECONCILIATION_FAILED"},
           {"RECONCILED"}  \X {"CLOSED"},
           {"RECONCILIATION_FAILED"} \X {"ESCALATED", "CLOSED"},
           {"ESCALATED"} \X {"NEEDS_REVIEW", "CLOSED"}}

WriteBackJobStatus ==
    {"PENDING", "VALIDATING", "READY", "IN_PROGRESS", "SUCCEEDED",
     "FAILED_RETRYABLE", "FAILED_PERMANENT", "CANCELLED", "REQUIRES_REVIEW",
     "RECONCILED"}

\* The edges <<current, target>> of the write-back job state machine.
WRITEBACK_JOB_TRANSITIONS ==
    UNION {{"PENDING"}    \X {"VALIDATING", "CANCELLED"},
           {"VALIDATING"} \X {"READY", "FAILED_PERMANENT", "REQUIRES_REVIEW"},
           {"READY"}      \X {"IN_PROGRESS", "CANCELLED"},
           {"IN_PROGRESS"} \X
               {"SUCCEEDED", "FAILED_RETRYABLE", "FAILED_PERMANENT"},
           {"SUCCEEDED"} \X {"RECONCILED"},
           {"FAILED_RETRYABLE"} \X
               {"IN_PROGRESS", "FAILED_PERMANENT", "REQUIRES_REVIEW"},
           {"REQUIRES_REVIEW"} \X {"IN_PROGRESS", "CANCELLED"}}

-----------------------------------------------------------------------------
Role == {"VIEWER", "ACCOUNTANT", "APPROVER", "ML_OPERATOR", "ADMIN",
         "SERVICE_ACCOUNT"}

Permission == {"ACCOUNTING_READ", "ACCOUNTING_REVIEW", "ACCOUNTING_APPROVE",
               "ACCOUNTING_WRITEBACK", "ACCOUNTING_RECONCILE"}

\* The accounting permissions each role grants; the QuickBooks, ML, audit and
\* identity permissions guard no operation of these modules.
ROLE_PERMISSIONS ==
    [role \in Role |->
        CASE role = "ACCOUNTANT" -> {"ACCOUNTING_READ", "ACCOUNTING_REVIEW",
                                     "ACCOUNTING_RECONCILE"}
          [] role = "APPROVER"   -> Permission
          [] role = "ADMIN"      -> {"ACCOUNTING_READ", "ACCOUNTING_REVIEW",
                                     "ACCOUNTING_RECONCILE"}
          [] OTHER               -> {"ACCOUNTING_READ"}]

get_permissions_for_roles(roles) == UNION {ROLE_PERMISSIONS[r] : r \in roles}

\* _TRANSITION_PERMISSIONS: the permission each listed edge asks for.  An edge
\* that is not listed asks for none.
ReviewEdges ==
    UNION {{"NEEDS_REVIEW"} \X {"IN_REVIEW", "REJECTED", "DEFERRED"},
           {"IN_REVIEW"}    \X {"CORRECTED", "REJECTED", "DEFERRED"},
           {"CORRECTED"}    \X {"REJECTED", "DEFERRED"},
           {"DEFERRED", "ESCALATED"} \X {"NEEDS_REVIEW"}}

ApproveEdges == {"NEEDS_REVIEW", "IN_REVIEW", "CORRECTED"} \X {"APPROVED"}

WritebackEdges == {"APPROVED", "WRITEBACK_FAILED"} \X {"READY_FOR_WRITEBACK"}

RequiredPermissions(from, to) ==
    {p \in {"ACCOUNTING_REVIEW"}    : <<from, to>> \in ReviewEdges} \cup
    {p \in {"ACCOUNTING_APPROVE"}   : <<from, to>> \in ApproveEdges} \cup
    {p \in {"ACCOUNTING_WRITEBACK"} : <<from, to>> \in WritebackEdges}
=============================================================================
