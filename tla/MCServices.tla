----------------------------- MODULE MCServices -----------------------------
(***************************************************************************)
(* The services that do not share state, checked in one run: a behaviour   *)
(* is one of one part, the others rest.                                    *)
(***************************************************************************)
EXTENDS CategoryReview, CategorizationRun, QuickBooksClient, AccountQueries,
        ModelRegistry, AccessTokens

\* The parts share these values: the first for what acts, or is acted on, alone.
CONSTANTS x1, x2, y1, y2, z1, z2

VARIABLE part

Parts == {"review", "engine", "client", "accounts", "registry", "access"}

restVars(of) ==
    /\ of # "review"   => UNCHANGED categoryVars
    /\ of # "engine"   => UNCHANGED engineVars
    /\ of # "client"   => UNCHANGED apiVars
    /\ of # "accounts" => UNCHANGED coaVars
    /\ of # "registry" => UNCHANGED registryVars
    /\ of # "access"   => UNCHANGED accessVars

ServicesInit ==
    /\ part \in Parts
    /\ CategoryInit /\ EngineInit /\ ClientInit
    /\ CoaInit /\ RegistryInit /\ AccessInit

ServicesNext ==
    /\ \/ part = "review" /\ CategoryNext
       \/ part = "engine" /\ EngineNext
       \/ part = "client" /\ ClientNext
       \/ part = "accounts" /\ CoaNext
       \/ part = "registry" /\ RegistryNext
       \/ part = "access" /\ AccessNext
    /\ restVars(part) /\ UNCHANGED part

ServicesSpec == ServicesInit /\ [][ServicesNext]_<<part, categoryVars, engineVars,
                    apiVars, coaVars, registryVars, accessVars>>

\* Every variable of every part keeps its type.
ServicesTypeOK ==
    /\ part \in Parts
    /\ CategoryTypeOK /\ EngineTypeOK /\ ApiTypeOK
    /\ CoaTypeOK /\ RegistryTypeOK /\ AccessTypeOK

-----------------------------------------------------------------------------
(* Names, rules and transactions of the engine.                            *)

Name(pre, suf) == [core |-> "acme", pre |-> pre, suf |-> suf]
MCNames == {Name(0, 0), Name(0, 2)}
Rent == {"rent"}
MCShapes ==
    {[kind |-> "EXACT_VENDOR", name |-> Name(0, 2)],
     [kind |-> "NORMALIZED_VENDOR", name |-> Name(0, 0)],
     [kind |-> "DESCRIPTION_CONTAINS", text |-> Rent],
     [kind |-> "MEMO_CONTAINS", text |-> {}],
     [kind |-> "TRANSACTION_TYPE", type |-> "Bill"],
     [kind |-> "AMOUNT_RANGE", low |-> 1, high |-> 2],
     [kind |-> "COMPOSITE", all |-> {[kind |-> "vendor_equals", name |-> Name(0, 0)],
                                     [kind |-> "memo_contains", text |-> Rent]}]}
Txn(t, v, d, m) == [type |-> t, vendor |-> v, description |-> d, memo |-> m, amount |-> -2]
MCFeed == {Txn("Purchase", Name(0, 0), Rent, {}), Txn("Purchase", Name(0, 2), {}, Rent),
           Txn("Journal", NoName, {}, {})}

(* The chart of accounts: the second account comes before its parent, and  *)
(* the first one cannot be normalized after a change.                      *)
MCFirstParent == 1 :> 0 @@ 2 :> 3 @@ 3 :> 0
MCOdd == {<<1, 2>>}
MCType == 1 :> "Bank" @@ 2 :> "Expense" @@ 3 :> ""
MCClass == 1 :> "Asset" @@ 2 :> "Expense" @@ 3 :> ""

Symmetry == Permutations({x1, x2}) \cup Permutations({y1, y2})
=============================================================================
