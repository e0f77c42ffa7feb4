------------------------- MODULE MCWorkItemReview -------------------------
(***************************************************************************)
(* WorkItemReview on small instances: an accountant, an approver and a     *)
(* service account without accounting permissions beyond reading.          *)
(***************************************************************************)
EXTENDS WorkItemReview, TLC

CONSTANTS i1, i2, r1, r2, r3, r4, acc, app, svc

MCRolesOf ==
    [p \in Principals |-> CASE p = acc -> {"ACCOUNTANT"}
                             [] p = app -> {"APPROVER"}
                             [] OTHER   -> {"SERVICE_ACCOUNT"}]

MCInRealm == Principals \X Items
MCOutOfRealm == (Principals \X Items) \ {<<app, i2>>}
RequestSymmetry == Permutations(Requests)
ReviewKinds == AllKinds \ {"batch"}
=============================================================================
