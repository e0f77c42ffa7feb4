--------------------------- MODULE MCWriteBackJobs ---------------------------
(***************************************************************************)
(* WriteBackJobs on small instances: an approver, who may execute jobs,    *)
(* and a service account, which by security/roles.py may not.              *)
(***************************************************************************)
EXTENDS WriteBackJobs, TLC

CONSTANTS r1, r2, r3, w1, w2, v1, v2, app, svc

MCRolesOf == [p \in Principals |-> IF p = app THEN {"APPROVER"}
                                              ELSE {"SERVICE_ACCOUNT"}]
MCInRealm == Principals \X Jobs
MCOutOfRealm == {pj \in Principals \X Jobs : pj[1] = app \/ pj[2] = 1}

ProcSymmetry == Permutations(Requests) \cup Permutations(Workers)
                  \cup Permutations(Recoverers)
=============================================================================
