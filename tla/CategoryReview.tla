--------------------------- MODULE CategoryReview ---------------------------
(***************************************************************************)
(* Review of one categorization and its write-back to QuickBooks           *)
(* (categorization/review.py, repository.py and                            *)
(* integrations/quickbooks/writeback).                                     *)
(*                                                                         *)
(* A request reads the row without a lock, judges that copy, and writes    *)
(* the columns it changed.  approve_and_apply commits three times: the     *)
(* approval, the APPLYING mark, the outcome; between the last two it       *)
(* fetches the transaction, compares it with what was reviewed and posts   *)
(* the update.  The process may die between any two of these steps.        *)
(*                                                                         *)
(* Rows are independent of each other: one categorization is enough.  The  *)
(* remote is known by its use: QuickBooks refuses an update whose          *)
(* SyncToken is not the current one, and an answer may be lost.            *)
(***************************************************************************)
EXTENDS OrmSession, Integers

CONSTANTS
    Asks,         \* requests; each is made at most once
    Accts,        \* accounts of the realm
    MaxEdits,     \* bound: people edit the transaction this many times
    NoAcct        \* the empty string and NULL

VARIABLES
    category,     \* the transaction_categorization row
    decisions,    \* categorization_decision rows
    labels,       \* categorization_training_label rows
    acctState,    \* qb_account rows: "active", "inactive" or "deleted"
    purchase,     \* QuickBooks: SyncToken, account of the first line, edits
    ask           \* what each request knows, and what its post did

categoryVars == <<category, decisions, labels, acctState, purchase, ask>>

ReviewKinds == {"APPROVE", "CHANGE_ACCOUNT", "REJECT", "DEFER"}
Kinds       == ReviewKinds \cup {"APPLY"}
CategoryStatuses ==
    {"ABSENT", "NEEDS_REVIEW", "APPROVED", "APPLYING", "APPLIED",
     "APPLY_FAILED", "STALE", "REJECTED", "DEFERRED"}
AskSteps == {"idle", "account", "decide", "mark", "fetch", "post", "record",
             "label", "done", "refused", "dead"}

CategoryRow ==
    [status : CategoryStatuses, recommended : Accts \cup {NoAcct},
     approved : Accts \cup {NoAcct}, requires_review : BOOLEAN, version : Nat]

\* What no request writes: the type, whether the stored hash was computed
\* from a QuickBooks entity, and whether the first line carries an account.
NoCategory == [status |-> "ABSENT", recommended |-> NoAcct, approved |-> NoAcct,
               requires_review |-> TRUE, version |-> 1]

NewAsk == [pc |-> "idle", kind |-> "APPLY", acct |-> NoAcct, key |-> FALSE,
           client |-> FALSE, loaded |-> NoCategory, active |-> FALSE,
           token |-> 0, outcome |-> "none", posted |-> FALSE]

CategoryTypeOK ==
    /\ category \in CategoryRow
    /\ decisions \subseteq [by : Asks, decision : ReviewKinds, version : Nat,
                            acct : Accts \cup {NoAcct}]
    /\ labels \subseteq Asks \X {"APPROVE", "APPROVE_VERIFIED", "MANUAL_SELECTION",
                                 "APPROVE_APPLY_FAILED", "APPROVE_STALE"}
    /\ acctState \in [Accts -> {"active", "inactive", "deleted"}]
    /\ purchase \in [token : Nat, account : Accts \cup {NoAcct}, edits : Nat,
                     type : {"Purchase", "Bill"}, line : {"account", "other"},
                     hashed : {"entity", "stored"}]
    /\ \A q \in Asks : ask[q].pc \in AskSteps /\ ask[q].kind \in Kinds

CategoryInit ==
    /\ category = NoCategory
    /\ decisions = {} /\ labels = {}
    /\ acctState = [a \in Accts |-> "active"]
    /\ purchase = [token |-> 0, account |-> NoAcct, edits |-> 0,
                   type |-> "Purchase", line |-> "account", hashed |-> "entity"]
    /\ ask = [q \in Asks |-> NewAsk]

-----------------------------------------------------------------------------
(* The environment.                                                        *)

\* A row as it waits for review.  The tests insert it; its sync token is the
\* one the transaction has now.
AddCategory ==
    /\ category.status = "ABSENT"
    /\ \E a \in Accts \cup {NoAcct} :
          category' = [category EXCEPT !.status = "NEEDS_REVIEW", !.recommended = a]
    /\ \E t \in {"Purchase", "Bill"}, l \in {"account", "other"},
          h \in {"entity", "stored"} :
          /\ t = "Bill" => l = "account" /\ h = "entity"
          /\ h = "stored" => l = "account"
          /\ purchase' = [purchase EXCEPT !.type = t, !.line = l, !.hashed = h]
    /\ UNCHANGED <<decisions, labels, acctState, ask>>

\* The synchronisation of accounts finds one deactivated or deleted.
LoseAccount ==
    /\ category.status # "ABSENT"
    /\ \A a \in Accts : acctState[a] = "active"
    /\ \E a \in Accts, s \in {"inactive", "deleted"} :
          acctState' = [acctState EXCEPT ![a] = s]
    /\ UNCHANGED <<category, decisions, labels, purchase, ask>>

\* Somebody edits the transaction in QuickBooks.
EditPurchase ==
    /\ category.status # "ABSENT" /\ purchase.edits < MaxEdits
    /\ purchase' = [purchase EXCEPT !.token = @ + 1, !.edits = @ + 1,
                                    !.account = NoAcct]
    /\ UNCHANGED <<category, decisions, labels, acctState, ask>>

-----------------------------------------------------------------------------
(* A request up to its first commit.                                       *)

Go(q, fields) ==
    ask' = [ask EXCEPT ![q] = [f \in DOMAIN ask[q] |->
                                  IF f \in DOMAIN fields THEN fields[f] ELSE ask[q][f]]]

\* A request that ends forgets all but what it asked for and what it did.
End(q, pc) ==
    ask' = [ask EXCEPT ![q] = [NewAsk EXCEPT !.pc = pc, !.acct = ask[q].acct,
                                             !.client = ask[q].client,
                                             !.outcome = ask[q].outcome,
                                             !.posted = ask[q].posted]]

\* No application row is ever written, so the lookup by idempotency key never
\* finds one: a row that is decided or being applied is refused.
Refuses(kind, status) ==
    status \in IF kind = "APPLY" THEN {"APPROVED", "APPLIED", "APPLYING"}
                                 ELSE {"APPROVED", "APPLIED"}

\* The request arrives and reads the row; NoAcct asks for what is recommended.
ReadCategory(q) ==
    /\ ask[q].pc = "idle" /\ category.status # "ABSENT"
    /\ \E kind \in Kinds, a \in Accts \cup {NoAcct}, key, client, current \in BOOLEAN :
          LET wanted == IF a = NoAcct \/ kind = "APPROVE"
                        THEN category.recommended ELSE a
              refused == \/ Refuses(kind, category.status)
                         \/ kind = "APPLY" /\ ~current
                         \/ kind \in {"APPLY", "APPROVE"} /\ wanted = NoAcct
                         \/ kind = "CHANGE_ACCOUNT" /\ a = NoAcct
          IN /\ kind # "APPLY" => ~key /\ ~client /\ current
             /\ kind \in {"APPROVE", "REJECT", "DEFER"} => a = NoAcct
             /\ client => key
             /\ IF refused
                THEN End(q, "refused")
                ELSE Go(q, [pc     |-> IF kind \in {"REJECT", "DEFER"}
                                       THEN "decide" ELSE "account",
                            kind   |-> kind, acct |-> wanted, key |-> key,
                            client |-> client, loaded |-> category])
    /\ UNCHANGED <<category, decisions, labels, acctState, purchase>>

\* The account is read once; later checks see this copy.
ReadAccount(q) ==
    /\ ask[q].pc = "account"
    /\ IF acctState[ask[q].acct] = "deleted"
       THEN End(q, "refused")
       ELSE Go(q, [pc |-> "decide", active |-> acctState[ask[q].acct] = "active"])
    /\ UNCHANGED <<category, decisions, labels, acctState, purchase>>

\* What the flush writes when q's copy becomes new.
Written(q, new) == category' = Flushed(ask[q].loaded, new, category)

\* Mutant: a deferral is not recorded as a decision.
Decide_NotWhenDeferred(q, new, kind, acct) ==
    /\ Written(q, new)
    /\ decisions' = IF kind = "DEFER" THEN decisions ELSE decisions \cup
          {[by |-> q, decision |-> kind, version |-> new.version, acct |-> acct]}

Decide(q, new, kind, acct) ==
    /\ Written(q, new)
    /\ decisions' = decisions \cup
          {[by |-> q, decision |-> kind, version |-> new.version, acct |-> acct]}

Approved(row, acct) ==
    [row EXCEPT !.status = "APPROVED", !.approved = acct, !.requires_review = FALSE]

\* First commit of approve_and_apply: the only decision that moves the version.
ApproveLocally(q) ==
    /\ ask[q].pc = "decide" /\ ask[q].kind = "APPLY"
    /\ LET new == [Approved(ask[q].loaded, ask[q].acct) EXCEPT !.version = @ + 1]
       IN /\ Decide(q, new, "APPROVE", ask[q].acct)
          /\ Go(q, [pc |-> IF purchase.type = "Purchase" /\ ask[q].key
                           THEN "mark" ELSE "label",
                    loaded |-> new])
    /\ UNCHANGED <<labels, acctState, purchase>>

\* review() with APPROVE: one transaction with decision and label.
Approve(q) ==
    /\ ask[q].pc = "decide" /\ ask[q].kind = "APPROVE"
    /\ Decide(q, Approved(ask[q].loaded, ask[q].acct), "APPROVE", ask[q].acct)
    /\ labels' = labels \cup {<<q, "APPROVE">>}
    /\ End(q, "done")
    /\ UNCHANGED <<acctState, purchase>>

\* review() with CHANGE_ACCOUNT.  The decision's previous_account_id refers to
\* qb_account.id and is given a QuickBooks id: with a previous account the
\* insert is refused and the request rolled back.
ChangeAccount(q) ==
    /\ ask[q].pc = "decide" /\ ask[q].kind = "CHANGE_ACCOUNT"
    /\ IF {ask[q].loaded.approved, ask[q].loaded.recommended} # {NoAcct}
       THEN /\ End(q, "refused")
            /\ UNCHANGED <<category, decisions, labels>>
       ELSE /\ Decide(q, Approved(ask[q].loaded, ask[q].acct), "CHANGE_ACCOUNT", ask[q].acct)
            /\ labels' = labels \cup {<<q, "MANUAL_SELECTION">>}
            /\ End(q, "done")
    /\ UNCHANGED <<acctState, purchase>>

Reject(q) ==
    /\ ask[q].pc = "decide" /\ ask[q].kind = "REJECT"
    /\ Decide(q, [ask[q].loaded EXCEPT !.status = "REJECTED", !.requires_review = FALSE],
              "REJECT", NoAcct)
    /\ End(q, "done")
    /\ UNCHANGED <<labels, acctState, purchase>>

Defer(q) ==
    /\ ask[q].pc = "decide" /\ ask[q].kind = "DEFER"
    /\ Decide(q, [ask[q].loaded EXCEPT !.status = "DEFERRED"], "DEFER", NoAcct)
    /\ End(q, "done")
    /\ UNCHANGED <<labels, acctState, purchase>>

-----------------------------------------------------------------------------
(* Applying.                                                               *)

\* A request without API client (the only kind the router makes) simulates.
MarkApplying(q) ==
    /\ ask[q].pc = "mark"
    /\ LET new == [ask[q].loaded EXCEPT !.status = "APPLYING"]
           apply == ask[q].active /\ ask[q].client
       IN /\ Written(q, new)
          /\ Go(q, [loaded  |-> new,
                    pc      |-> IF apply THEN "fetch" ELSE "record",
                    outcome |-> CASE apply -> "none"
                                  [] ~ask[q].active -> "APPLY_FAILED"
                                  [] OTHER -> "APPLIED"])
    /\ UNCHANGED <<decisions, labels, acctState, purchase>>

\* Mutant: the SyncToken is not compared, only the hash.
Stale_HashOnly(entity) == entity.hashed = "stored"

\* check_stale: the reviewed token is 0, and a hash that was computed from the
\* stored transaction matches no QuickBooks entity.
Stale(entity) == entity.token # 0 \/ entity.hashed = "stored"

FetchPurchase(q) ==
    /\ ask[q].pc = "fetch"
    /\ \/ Go(q, [pc |-> "record", outcome |-> "APPLY_FAILED"])
       \/ /\ Stale(purchase)
          /\ Go(q, [pc |-> "record", outcome |-> "STALE"])
       \/ /\ ~Stale(purchase)
          /\ Go(q, [pc |-> "post", token |-> purchase.token])
    /\ UNCHANGED <<category, decisions, labels, acctState, purchase>>

\* The account of the first line after the update: lines of other detail types
\* are sent back as they are.
Updated(q) ==
    [purchase EXCEPT !.token = @ + 1,
                     !.account = IF purchase.line = "other" THEN @ ELSE ask[q].acct]

\* Mutant: the account of the answer is not looked at.
Verified_TotalOnly(q, answer, sameTotal) == sameTotal

\* Total unchanged and the account in place, judged on the answer.
Verified(q, answer, sameTotal) == sameTotal /\ answer.account = ask[q].acct

\* The post, as often as the client sends it: applied or not, answered or not.
PostUpdate(q) ==
    /\ ask[q].pc = "post"
    /\ \/ /\ UNCHANGED purchase
          /\ Go(q, [pc |-> "record", outcome |-> "APPLY_FAILED"])
       \/ /\ ask[q].token = purchase.token
          /\ purchase' = Updated(q)
          /\ \E answered, sameTotal \in BOOLEAN :
                Go(q, [pc      |-> "record",
                       outcome |-> IF answered /\ Verified(q, purchase', sameTotal)
                                   THEN "APPLIED" ELSE "APPLY_FAILED",
                       posted  |-> TRUE])
    /\ UNCHANGED <<category, decisions, labels, acctState>>

RecordOutcome(q) ==
    /\ ask[q].pc = "record"
    /\ LET new == [ask[q].loaded EXCEPT !.status = ask[q].outcome]
       IN Written(q, new) /\ Go(q, [pc |-> "label", loaded |-> new])
    /\ UNCHANGED <<decisions, labels, acctState, purchase>>

LabelSource(status) ==
    CASE status = "APPLIED" -> "APPROVE_VERIFIED"
      [] status = "APPLY_FAILED" -> "APPROVE_APPLY_FAILED"
      [] status = "STALE" -> "APPROVE_STALE"
      [] OTHER -> "APPROVE"

AddLabel(q) ==
    /\ ask[q].pc = "label"
    /\ labels' = labels \cup {<<q, LabelSource(ask[q].loaded.status)>>}
    /\ End(q, "done")
    /\ UNCHANGED <<category, decisions, acctState, purchase>>

\* The process dies; what was not committed is lost.
DieInReview(q) ==
    /\ ask[q].pc \notin {"idle", "done", "refused", "dead"}
    /\ End(q, "dead")
    /\ UNCHANGED <<category, decisions, labels, acctState, purchase>>

CategoryNext ==
    \/ AddCategory \/ LoseAccount \/ EditPurchase
    \/ \E q \in Asks :
          \/ ReadCategory(q) \/ ReadAccount(q)
          \/ ApproveLocally(q) \/ Approve(q) \/ ChangeAccount(q)
          \/ Reject(q) \/ Defer(q)
          \/ MarkApplying(q) \/ FetchPurchase(q) \/ PostUpdate(q)
          \/ RecordOutcome(q) \/ AddLabel(q) \/ DieInReview(q)

CategorySpec == CategoryInit /\ [][CategoryNext]_categoryVars

-----------------------------------------------------------------------------
(* Properties.                                                             *)

\* At most one request ever changes the transaction, however many are accepted
\* together, repeated by the client or cut off: the reviewed SyncToken is
\* compared after the fetch (service.py:108) and sent back with the update.
OneEffect == \A p, q \in Asks : ask[p].posted /\ ask[q].posted => p = q

\* An update never lands on a transaction somebody edited in QuickBooks after
\* it was reviewed.
NoEditIsOverwritten ==
    [][\A q \in Asks : ~ask[q].posted /\ ask'[q].posted => purchase.edits = 0]_categoryVars

\* A request with an API client that records APPLIED has changed the
\* transaction to its account: a lost answer, an answer with another total or a
\* line of another kind never pass for success.
AppliedIsVerified ==
    \A q \in Asks : ask[q].outcome = "APPLIED" /\ ask[q].client
                    => /\ ask[q].posted
                       /\ purchase.edits = 0 => purchase.account = ask[q].acct

\* Whatever stands in the row was decided by somebody: a decision row says so,
\* even when requests overwrite each other or die between their commits.
DecisionOnRecord ==
    LET decided(kinds) == \E d \in decisions : d.decision \in kinds
    IN /\ category.status \in {"APPROVED", "APPLYING", "APPLIED", "APPLY_FAILED", "STALE"}
             => decided({"APPROVE", "CHANGE_ACCOUNT"})
       /\ category.status = "REJECTED" => decided({"REJECT"})
       /\ category.status = "DEFERRED" => decided({"DEFER"})
       /\ category.approved # NoAcct
             => \E d \in decisions : d.acct = category.approved

\* When requests with an API client are all there is, an applied row names the
\* account the transaction has.  (pr-stage7.md:82 promises the check of the
\* expected version.  Two requests that were judged on one version leave the
\* row of one and the update of the other.)
AppliedIsApproved ==
    /\ category.status = "APPLIED" /\ purchase.edits = 0
    /\ \A q \in Asks : ask[q].pc = "idle" \/ ask[q].client
    /\ \E q \in Asks : ask[q].posted
    => purchase.account = category.approved
=============================================================================
