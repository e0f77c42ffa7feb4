------------------------ MODULE CategorizationProofs ------------------------
(***************************************************************************)
(* Proofs about categorization, from the registry of the models and the    *)
(* run of the engine to the decision and its post to QuickBooks, for any   *)
(* sets of requests, accounts, models, shadow runs, names, rules and       *)
(* transactions and any number of edits.                                   *)
(***************************************************************************)
EXTENDS CategoryReview, ModelRegistry, CategorizationRun, OrderLemmas,
        SequenceTheorems

-----------------------------------------------------------------------------
(* The decision.  The argument for one effect is the SyncToken: a request  *)
(* posts only with the token that was reviewed, 0, and whatever changes    *)
(* the transaction moves it.                                               *)

AskFields == {"pc", "kind", "acct", "key", "client", "loaded", "active", "token",
              "outcome", "posted"}
RowFields == {"status", "recommended", "approved", "requires_review", "version"}
PurchaseFields == {"token", "account", "edits", "type", "line", "hashed"}

OnRecord(kinds) == \E d \in decisions : d.decision \in kinds
ApprovalOnRecord == OnRecord({"APPROVE", "CHANGE_ACCOUNT"})

\* What is known of one request.
RequestInv(q) ==
    LET a == ask[q]
    IN /\ DOMAIN a = AskFields /\ DOMAIN a.loaded = RowFields
       /\ a.posted \in BOOLEAN
       /\ a.posted => purchase.token > 0
       /\ a.pc = "post" => a.token = 0
       /\ a.pc \in {"idle", "account", "decide", "mark", "fetch", "post"} => a.outcome = "none"
       /\ a.pc = "record" => a.outcome \in {"APPLIED", "APPLY_FAILED", "STALE"}
       /\ a.pc \in {"mark", "fetch", "post", "record", "label"} => ApprovalOnRecord
       /\ a.outcome = "APPLIED" /\ a.client
          => a.posted /\ (purchase.edits = 0 => purchase.account = a.acct)

PurchaseInv ==
    /\ DOMAIN purchase = PurchaseFields
    /\ purchase.token \in Nat /\ purchase.edits \in Nat
    /\ purchase.edits <= purchase.token

CategoryInv ==
    /\ DOMAIN ask = Asks /\ DOMAIN category = RowFields
    /\ PurchaseInv
    /\ \A q \in Asks : RequestInv(q)
    /\ OneEffect
    /\ DecisionOnRecord

\* What every step but a post that lands keeps.
Kept == /\ CategoryInv'
        /\ \A q \in Asks : ask'[q].posted = ask[q].posted

LEMMA CategoryInvInit == CategoryInit => CategoryInv
<1> SUFFICES ASSUME CategoryInit PROVE CategoryInv
  OBVIOUS
<1>1. DOMAIN ask = Asks /\ DOMAIN category = RowFields
  BY DEF CategoryInit, NoCategory, RowFields
<1>2. PurchaseInv
  BY DEF CategoryInit, PurchaseInv, PurchaseFields
<1>3. \A q \in Asks : /\ ask[q] = NewAsk /\ ask[q].posted = FALSE
                      /\ ask[q].pc = "idle" /\ ask[q].outcome = "none"
  BY DEF CategoryInit, NewAsk
<1>4. DOMAIN NewAsk = AskFields /\ DOMAIN NewAsk.loaded = RowFields
  BY DEF NewAsk, NoCategory, AskFields, RowFields
<1>5. \A q \in Asks : RequestInv(q)
  BY <1>3, <1>4 DEF RequestInv
<1>6. OneEffect
  BY <1>3 DEF OneEffect
<1>7. DecisionOnRecord
  BY DEF CategoryInit, NoCategory, DecisionOnRecord
<1> QED
  BY <1>1, <1>2, <1>5, <1>6, <1>7 DEF CategoryInv

\* What the two ways of moving a request write.
LEMMA GoWrites ==
  ASSUME DOMAIN ask = Asks, NEW q \in Asks, DOMAIN ask[q] = AskFields,
         NEW fields, Go(q, fields)
  PROVE  /\ DOMAIN ask' = Asks /\ DOMAIN ask'[q] = AskFields
         /\ \A o \in Asks : o # q => ask'[o] = ask[o]
         /\ \A f \in AskFields : ask'[q][f] = IF f \in DOMAIN fields THEN fields[f]
                                              ELSE ask[q][f]
<1>1. ask' = [ask EXCEPT ![q] = [f \in AskFields |->
                 IF f \in DOMAIN fields THEN fields[f] ELSE ask[q][f]]]
  BY DEF Go
<1> QED
  BY <1>1

LEMMA EndWrites ==
  ASSUME DOMAIN ask = Asks, NEW q \in Asks, NEW pc, End(q, pc)
  PROVE  /\ DOMAIN ask' = Asks /\ DOMAIN ask'[q] = AskFields
         /\ \A o \in Asks : o # q => ask'[o] = ask[o]
         /\ ask'[q].pc = pc /\ ask'[q].loaded = NoCategory
         /\ ask'[q].acct = ask[q].acct /\ ask'[q].client = ask[q].client
         /\ ask'[q].outcome = ask[q].outcome /\ ask'[q].posted = ask[q].posted
<1> DEFINE new == [NewAsk EXCEPT !.pc = pc, !.acct = ask[q].acct,
                                 !.client = ask[q].client,
                                 !.outcome = ask[q].outcome,
                                 !.posted = ask[q].posted]
<1>1. ask' = [ask EXCEPT ![q] = new]
  BY DEF End
<1>2. DOMAIN new = AskFields /\ new.pc = pc /\ new.loaded = NoCategory
  BY DEF NewAsk, AskFields
<1>3. /\ new.acct = ask[q].acct /\ new.client = ask[q].client
      /\ new.outcome = ask[q].outcome /\ new.posted = ask[q].posted
  BY DEF NewAsk
<1> HIDE DEF new
<1> QED
  BY <1>1, <1>2, <1>3

\* A step of one request that leaves the transaction alone and takes no decision
\* back has to keep that request's part, and DecisionOnRecord.
LEMMA LocalStep ==
  ASSUME CategoryInv, NEW q \in Asks, DOMAIN ask' = Asks,
         \A o \in Asks : o # q => ask'[o] = ask[o],
         UNCHANGED purchase, decisions \subseteq decisions',
         RequestInv(q)', ask'[q].posted = ask[q].posted,
         DOMAIN category' = RowFields, DecisionOnRecord'
  PROVE  Kept
<1>1. ASSUME NEW o \in Asks PROVE RequestInv(o)'
  <2>1. CASE o = q
    BY <2>1
  <2>2. CASE o # q
    <3>1. RequestInv(o) /\ ask'[o] = ask[o]
      BY <2>2 DEF CategoryInv
    <3>2. ApprovalOnRecord => ApprovalOnRecord'
      BY DEF ApprovalOnRecord, OnRecord
    <3> QED
      BY <3>1, <3>2 DEF RequestInv
  <2> QED
    BY <2>1, <2>2
<1>2. \A o \in Asks : ask'[o].posted = ask[o].posted
  OBVIOUS
<1>3. OneEffect'
  BY <1>2 DEF CategoryInv, OneEffect
<1> QED
  BY <1>1, <1>2, <1>3 DEF CategoryInv, PurchaseInv, Kept

\* The end of a request keeps what is known: only its account, its client and
\* what it did are left of it.
LEMMA EndStep ==
  ASSUME CategoryInv, NEW q \in Asks, NEW pc \in {"done", "refused", "dead"}, End(q, pc),
         UNCHANGED purchase, decisions \subseteq decisions',
         DOMAIN category' = RowFields, DecisionOnRecord'
  PROVE  Kept
<1>1. DOMAIN ask = Asks /\ RequestInv(q)
  BY DEF CategoryInv
<1>2. /\ DOMAIN ask' = Asks /\ DOMAIN ask'[q] = AskFields
      /\ \A o \in Asks : o # q => ask'[o] = ask[o]
      /\ ask'[q].pc = pc /\ ask'[q].loaded = NoCategory
      /\ ask'[q].acct = ask[q].acct /\ ask'[q].client = ask[q].client
      /\ ask'[q].outcome = ask[q].outcome /\ ask'[q].posted = ask[q].posted
  BY <1>1, EndWrites
<1>3. DOMAIN NoCategory = RowFields
  BY DEF NoCategory, RowFields
<1>4. RequestInv(q)'
  BY <1>1, <1>2, <1>3 DEF RequestInv
<1> QED
  BY <1>2, <1>4, LocalStep

\* A column of the row is what it was or what the request assigned.
LEMMA WrittenColumns ==
  ASSUME DOMAIN category = RowFields, NEW q \in Asks, NEW new, Written(q, new)
  PROVE  /\ DOMAIN category' = RowFields
         /\ \A col \in RowFields :
               \/ category'[col] = category[col]
               \/ category'[col] = new[col] /\ new[col] # ask[q].loaded[col]
BY DEF Written, Flushed

LEMMA RecordKept ==
  ASSUME DecisionOnRecord, UNCHANGED category, decisions \subseteq decisions'
  PROVE  DecisionOnRecord'
BY DEF DecisionOnRecord

\* A decision puts itself on record.
LEMMA DecideKeeps ==
  ASSUME DOMAIN category = RowFields, DecisionOnRecord, NEW q \in Asks,
         NEW new, NEW kind, NEW acct, Decide(q, new, kind, acct),
         \/ new.status = "APPROVED" /\ kind \in {"APPROVE", "CHANGE_ACCOUNT"}
         \/ new.status = "REJECTED" /\ kind = "REJECT"
         \/ new.status = "DEFERRED" /\ kind = "DEFER",
         new.approved \in {ask[q].loaded.approved, acct}
  PROVE  /\ DOMAIN category' = RowFields /\ decisions \subseteq decisions'
         /\ DecisionOnRecord'
         /\ \E d \in decisions' : d.decision = kind
<1> DEFINE mine == [by |-> q, decision |-> kind, version |-> new.version, acct |-> acct]
<1>1. decisions' = decisions \cup {mine} /\ Written(q, new)
  BY DEF Decide
<1>2. mine.decision = kind /\ mine.acct = acct
  OBVIOUS
<1> HIDE DEF mine
<1>3. /\ DOMAIN category' = RowFields
      /\ category'.status \in {category.status, new.status}
      /\ \/ category'.approved = category.approved
         \/ category'.approved = acct
  BY <1>1, WrittenColumns DEF RowFields
<1>4. mine \in decisions' /\ decisions \subseteq decisions'
  BY <1>1
<1>5. CASE new.status = "APPROVED" /\ kind \in {"APPROVE", "CHANGE_ACCOUNT"}
  BY <1>2, <1>3, <1>4, <1>5 DEF DecisionOnRecord
<1>6. CASE new.status = "REJECTED" /\ kind = "REJECT"
  BY <1>2, <1>3, <1>4, <1>6 DEF DecisionOnRecord
<1>7. CASE new.status = "DEFERRED" /\ kind = "DEFER"
  BY <1>2, <1>3, <1>4, <1>7 DEF DecisionOnRecord
<1>8. DecisionOnRecord'
  BY <1>5, <1>6, <1>7
<1> QED
  BY <1>2, <1>3, <1>4, <1>8

\* The marks of an application stand on the approval before them.
LEMMA ApplyKeeps ==
  ASSUME DOMAIN category = RowFields, DecisionOnRecord, ApprovalOnRecord,
         UNCHANGED decisions, NEW q \in Asks, NEW new, Written(q, new),
         new.status \in {"APPLYING", "APPLIED", "APPLY_FAILED", "STALE"},
         new.approved = ask[q].loaded.approved
  PROVE  DOMAIN category' = RowFields /\ DecisionOnRecord'
<1>1. /\ DOMAIN category' = RowFields
      /\ category'.status \in {category.status, new.status}
      /\ category'.approved = category.approved
  BY WrittenColumns DEF RowFields
<1> QED
  BY <1>1 DEF DecisionOnRecord, ApprovalOnRecord, OnRecord

\* A request that goes on keeps its account, its client and what it did.
LEMMA GoStep ==
  ASSUME CategoryInv, NEW q \in Asks, NEW fields, Go(q, fields), ask[q].outcome = "none",
         UNCHANGED purchase, decisions \subseteq decisions',
         DOMAIN fields \subseteq AskFields \ {"outcome", "posted", "token"},
         fields.pc \in {"account", "decide", "mark", "fetch", "label"},
         "pc" \in DOMAIN fields,
         fields.pc \in {"mark", "fetch", "label"} => ApprovalOnRecord',
         "loaded" \in DOMAIN fields => DOMAIN fields.loaded = RowFields,
         DOMAIN category' = RowFields, DecisionOnRecord'
  PROVE  Kept
<1>1. DOMAIN ask = Asks /\ RequestInv(q)
  BY DEF CategoryInv
<1>2. DOMAIN ask[q] = AskFields
  BY <1>1 DEF RequestInv
<1>3. /\ DOMAIN ask' = Asks /\ DOMAIN ask'[q] = AskFields
      /\ \A o \in Asks : o # q => ask'[o] = ask[o]
      /\ \A f \in AskFields : ask'[q][f] = IF f \in DOMAIN fields THEN fields[f]
                                           ELSE ask[q][f]
  BY <1>1, <1>2, GoWrites
<1>4. /\ ask'[q].pc = fields.pc
      /\ ask'[q].posted = ask[q].posted /\ ask'[q].outcome = ask[q].outcome
  BY <1>3 DEF AskFields
<1>5. DOMAIN ask'[q].loaded = RowFields
  <2>1. ask'[q].loaded = IF "loaded" \in DOMAIN fields THEN fields.loaded ELSE ask[q].loaded
    BY <1>3 DEF AskFields
  <2> QED
    BY <1>1, <2>1 DEF RequestInv
<1>6. RequestInv(q)'
  BY <1>1, <1>3, <1>4, <1>5 DEF RequestInv
<1> QED
  BY <1>3, <1>4, <1>6, LocalStep

\* What the environment does leaves requests and decisions alone; an update of
\* the transaction moves its token.
LEMMA EnvironmentKeeps ==
  CategoryInv /\ (AddCategory \/ LoseAccount \/ EditPurchase) => Kept
<1> SUFFICES ASSUME CategoryInv, AddCategory \/ LoseAccount \/ EditPurchase
             PROVE  Kept
  OBVIOUS
<1>1. UNCHANGED <<decisions, ask>>
  BY DEF AddCategory, LoseAccount, EditPurchase
<1>2. /\ DOMAIN category' = RowFields /\ category'.approved = category.approved
      /\ category'.status \in {category.status, "NEEDS_REVIEW"}
  BY DEF AddCategory, LoseAccount, EditPurchase, CategoryInv, RowFields
<1>3. DecisionOnRecord'
  BY <1>1, <1>2 DEF CategoryInv, DecisionOnRecord
<1>4. /\ PurchaseInv' /\ purchase'.token >= purchase.token
      /\ \/ purchase'.edits = purchase.edits /\ purchase'.account = purchase.account
         \/ purchase'.edits # 0
  <2>1. PurchaseInv
    BY DEF CategoryInv
  <2>2. CASE AddCategory
    <3>1. PICK t \in {"Purchase", "Bill"}, l \in {"account", "other"}, h \in {"entity", "stored"} :
             purchase' = [purchase EXCEPT !.type = t, !.line = l, !.hashed = h]
      BY <2>2 DEF AddCategory
    <3>2. /\ DOMAIN purchase' = PurchaseFields /\ purchase'.token = purchase.token
          /\ purchase'.edits = purchase.edits /\ purchase'.account = purchase.account
      BY <2>1, <3>1 DEF PurchaseInv, PurchaseFields
    <3> QED
      BY <2>1, <3>2 DEF PurchaseInv
  <2>3. CASE LoseAccount
    BY <2>1, <2>3 DEF LoseAccount, PurchaseInv
  <2>4. CASE EditPurchase
    <3>1. /\ DOMAIN purchase' = PurchaseFields /\ purchase'.token = purchase.token + 1
          /\ purchase'.edits = purchase.edits + 1
      BY <2>1, <2>4 DEF EditPurchase, PurchaseInv, PurchaseFields
    <3> QED
      BY <2>1, <3>1 DEF PurchaseInv
  <2> QED
    BY <2>2, <2>3, <2>4
<1>5. ASSUME NEW q \in Asks PROVE RequestInv(q)'
  <2>1. RequestInv(q)
    BY DEF CategoryInv
  <2>2. ApprovalOnRecord <=> ApprovalOnRecord'
    BY <1>1 DEF ApprovalOnRecord, OnRecord
  <2>3. purchase.token > 0 => purchase'.token > 0
    BY <1>4 DEF CategoryInv, PurchaseInv
  <2> QED
    BY <1>1, <1>4, <2>1, <2>2, <2>3 DEF RequestInv
<1>6. OneEffect'
  BY <1>1 DEF CategoryInv, OneEffect
<1> QED
  BY <1>1, <1>2, <1>3, <1>4, <1>5, <1>6 DEF CategoryInv, Kept

\* Reading the row and the account, and the end of a request.
LEMMA ReadingKeeps ==
  ASSUME CategoryInv, NEW q \in Asks,
         ReadCategory(q) \/ ReadAccount(q) \/ AddLabel(q) \/ DieInReview(q)
  PROVE  Kept
<1>1. UNCHANGED <<category, decisions, purchase>>
  BY DEF ReadCategory, ReadAccount, AddLabel, DieInReview
<1>2. /\ DOMAIN category' = RowFields /\ DecisionOnRecord'
      /\ decisions \subseteq decisions' /\ UNCHANGED purchase
  BY <1>1, RecordKept DEF CategoryInv
<1>3. ASSUME NEW pc \in {"done", "refused", "dead"}, End(q, pc) PROVE Kept
  BY <1>2, <1>3, EndStep
<1>4. RequestInv(q) /\ DOMAIN category = RowFields
  BY DEF CategoryInv
<1>5. ask[q].pc \in {"idle", "account"} => ask[q].outcome = "none"
  BY <1>4 DEF RequestInv
<1>6. ASSUME NEW fields, Go(q, fields), ask[q].outcome = "none",
             DOMAIN fields \subseteq AskFields \ {"outcome", "posted", "token"},
             fields.pc \in {"account", "decide"}, "pc" \in DOMAIN fields,
             "loaded" \in DOMAIN fields => fields.loaded = category
      PROVE  Kept
  BY <1>2, <1>4, <1>6, GoStep
<1>7. CASE ReadCategory(q)
  <2>1. PICK kind, acct, key, client :
          \/ End(q, "refused")
          \/ Go(q, [pc     |-> IF kind \in {"REJECT", "DEFER"} THEN "decide" ELSE "account",
                    kind   |-> kind, acct |-> acct, key |-> key,
                    client |-> client, loaded |-> category])
    <3> DEFINE Wanted(kind, a) == IF a = NoAcct \/ kind = "APPROVE"
                                  THEN category.recommended ELSE a
               Asked(kind, a, key, client) ==
                 [pc     |-> IF kind \in {"REJECT", "DEFER"} THEN "decide" ELSE "account",
                  kind   |-> kind, acct |-> Wanted(kind, a), key |-> key,
                  client |-> client, loaded |-> category]
    <3> DEFINE refused(kind, a, current) ==
                 \/ Refuses(kind, category.status)
                 \/ kind = "APPLY" /\ ~current
                 \/ kind \in {"APPLY", "APPROVE"} /\ Wanted(kind, a) = NoAcct
                 \/ kind = "CHANGE_ACCOUNT" /\ a = NoAcct
    <3>1. PICK kind \in Kinds, a \in Accts \cup {NoAcct}, key, client, current \in BOOLEAN :
            IF refused(kind, a, current) THEN End(q, "refused")
            ELSE Go(q, Asked(kind, a, key, client))
      BY <1>7 DEF ReadCategory
    <3>2. \/ End(q, "refused")
          \/ Go(q, Asked(kind, a, key, client))
      <4> HIDE DEF refused
      <4> QED
        BY <3>1
    <3> QED
      BY <3>2, Zenon
  <2> DEFINE fields == [pc     |-> IF kind \in {"REJECT", "DEFER"} THEN "decide" ELSE "account",
                        kind   |-> kind, acct |-> acct, key |-> key,
                        client |-> client, loaded |-> category]
  <2>2. /\ DOMAIN fields \subseteq AskFields \ {"outcome", "posted", "token"}
        /\ fields.pc \in {"account", "decide"} /\ "pc" \in DOMAIN fields
        /\ fields.loaded = category
    BY DEF AskFields
  <2>3. ask[q].pc = "idle"
    BY <1>7 DEF ReadCategory
  <2> HIDE DEF fields
  <2>4. CASE End(q, "refused")
    BY <1>3, <2>4
  <2>5. CASE Go(q, fields)
    BY <1>5, <1>6, <2>2, <2>3, <2>5
  <2> QED
    BY <2>1, <2>4, <2>5 DEF fields
<1>8. CASE ReadAccount(q)
  <2> DEFINE fields == [pc |-> "decide", active |-> acctState[ask[q].acct] = "active"]
  <2>1. /\ ask[q].pc = "account"
        /\ End(q, "refused") \/ Go(q, fields)
    BY <1>8 DEF ReadAccount
  <2>2. /\ DOMAIN fields \subseteq AskFields \ {"outcome", "posted", "token"}
        /\ fields.pc = "decide" /\ "pc" \in DOMAIN fields /\ "loaded" \notin DOMAIN fields
    BY DEF AskFields
  <2> HIDE DEF fields
  <2> QED
    BY <1>3, <1>5, <1>6, <2>1, <2>2
<1>9. CASE AddLabel(q) \/ DieInReview(q)
  BY <1>3, <1>9 DEF AddLabel, DieInReview
<1> QED
  BY <1>7, <1>8, <1>9

\* The decisions.
LEMMA DecisionsKeep ==
  ASSUME CategoryInv, NEW q \in Asks,
         \/ ApproveLocally(q) \/ Approve(q) \/ ChangeAccount(q) \/ Reject(q) \/ Defer(q)
  PROVE  Kept
<1>1. /\ DOMAIN category = RowFields /\ DecisionOnRecord /\ RequestInv(q)
      /\ DOMAIN ask[q].loaded = RowFields
      /\ ask[q].pc = "decide" => ask[q].outcome = "none"
  BY DEF CategoryInv, RequestInv
<1>2. UNCHANGED purchase
  BY DEF ApproveLocally, Approve, ChangeAccount, Reject, Defer
<1> DEFINE approved == Approved(ask[q].loaded, ask[q].acct)
<1>3. /\ DOMAIN approved = RowFields /\ approved.status = "APPROVED"
      /\ approved.approved = ask[q].acct
  BY <1>1 DEF Approved, RowFields
<1>4. CASE ApproveLocally(q)
  <2> DEFINE new == [approved EXCEPT !.version = @ + 1]
             fields == [pc |-> IF purchase.type = "Purchase" /\ ask[q].key
                               THEN "mark" ELSE "label",
                        loaded |-> new]
  <2>1. /\ Decide(q, new, "APPROVE", ask[q].acct) /\ Go(q, fields)
        /\ ask[q].pc = "decide"
    BY <1>4 DEF ApproveLocally
  <2>2. /\ DOMAIN new = RowFields /\ new.status = "APPROVED" /\ new.approved = ask[q].acct
    <3> HIDE DEF approved
    <3> QED
      BY <1>3 DEF RowFields
  <2>3. /\ DOMAIN fields \subseteq AskFields \ {"outcome", "posted", "token"}
        /\ fields.pc \in {"mark", "label"} /\ "pc" \in DOMAIN fields
        /\ fields.loaded = new
    BY DEF AskFields
  <2> HIDE DEF fields, new, approved
  <2>4. /\ DOMAIN category' = RowFields /\ decisions \subseteq decisions'
        /\ DecisionOnRecord' /\ \E d \in decisions' : d.decision = "APPROVE"
    BY <1>1, <2>1, <2>2, DecideKeeps
  <2>5. ApprovalOnRecord'
    BY <2>4 DEF ApprovalOnRecord, OnRecord
  <2> QED
    BY <1>1, <1>2, <2>1, <2>2, <2>3, <2>4, <2>5, GoStep
<1>5. ASSUME NEW pc \in {"done", "refused"}, End(q, pc), DOMAIN category' = RowFields,
             decisions \subseteq decisions', DecisionOnRecord'
      PROVE  Kept
  BY <1>2, <1>5, EndStep
<1>6. CASE Approve(q)
  <2>1. Decide(q, approved, "APPROVE", ask[q].acct) /\ End(q, "done")
    BY <1>6 DEF Approve
  <2> HIDE DEF approved
  <2> QED
    BY <1>1, <1>3, <1>5, <2>1, DecideKeeps
<1>7. CASE ChangeAccount(q)
  <2>1. \/ End(q, "refused") /\ UNCHANGED <<category, decisions>>
        \/ Decide(q, approved, "CHANGE_ACCOUNT", ask[q].acct) /\ End(q, "done")
    BY <1>7 DEF ChangeAccount
  <2> HIDE DEF approved
  <2>2. CASE End(q, "refused") /\ UNCHANGED <<category, decisions>>
    BY <1>1, <1>5, <2>2, RecordKept
  <2>3. CASE Decide(q, approved, "CHANGE_ACCOUNT", ask[q].acct) /\ End(q, "done")
    BY <1>1, <1>3, <1>5, <2>3, DecideKeeps
  <2> QED
    BY <2>1, <2>2, <2>3
<1>8. CASE Reject(q)
  <2> DEFINE new == [ask[q].loaded EXCEPT !.status = "REJECTED", !.requires_review = FALSE]
  <2>1. Decide(q, new, "REJECT", NoAcct) /\ End(q, "done")
    BY <1>8 DEF Reject
  <2>2. new.status = "REJECTED" /\ new.approved = ask[q].loaded.approved
    BY <1>1 DEF RowFields
  <2> HIDE DEF new
  <2> QED
    BY <1>1, <1>5, <2>1, <2>2, DecideKeeps
<1>9. CASE Defer(q)
  <2> DEFINE new == [ask[q].loaded EXCEPT !.status = "DEFERRED"]
  <2>1. Decide(q, new, "DEFER", NoAcct) /\ End(q, "done")
    BY <1>9 DEF Defer
  <2>2. new.status = "DEFERRED" /\ new.approved = ask[q].loaded.approved
    BY <1>1 DEF RowFields
  <2> HIDE DEF new
  <2> QED
    BY <1>1, <1>5, <2>1, <2>2, DecideKeeps
<1> QED
  BY <1>4, <1>6, <1>7, <1>8, <1>9

\* The application, up to the post.  Each of these moves one request and takes
\* nothing of what it asked for back.
LEMMA ApplyStep ==
  ASSUME CategoryInv, NEW q \in Asks, NEW fields, Go(q, fields),
         UNCHANGED <<purchase, decisions>>, ApprovalOnRecord,
         DOMAIN fields \subseteq {"pc", "loaded", "outcome", "token"},
         DOMAIN category' = RowFields, DecisionOnRecord', "pc" \in DOMAIN fields,
         "loaded" \in DOMAIN fields => DOMAIN fields.loaded = RowFields,
         ask'[q].pc \in {"fetch", "post", "record", "label"},
         ask'[q].pc = "post" => ask'[q].token = 0,
         ask'[q].pc \in {"fetch", "post"} => ask'[q].outcome = "none",
         ask'[q].pc = "record" => ask'[q].outcome \in {"APPLIED", "APPLY_FAILED", "STALE"},
         ask'[q].outcome = "APPLIED" => ask[q].outcome = "APPLIED" \/ ~ask[q].client
  PROVE  Kept
<1>1. DOMAIN ask = Asks /\ RequestInv(q) /\ DOMAIN ask[q] = AskFields
  BY DEF CategoryInv, RequestInv
<1>2. /\ DOMAIN ask' = Asks /\ DOMAIN ask'[q] = AskFields
      /\ \A o \in Asks : o # q => ask'[o] = ask[o]
      /\ \A f \in AskFields : ask'[q][f] = IF f \in DOMAIN fields THEN fields[f]
                                           ELSE ask[q][f]
  BY <1>1, GoWrites
<1>3. /\ ask'[q].posted = ask[q].posted /\ ask'[q].client = ask[q].client
      /\ ask'[q].acct = ask[q].acct
  BY <1>2 DEF AskFields
<1>4. DOMAIN ask'[q].loaded = RowFields
  <2>1. ask'[q].loaded = IF "loaded" \in DOMAIN fields THEN fields.loaded ELSE ask[q].loaded
    BY <1>2 DEF AskFields
  <2> QED
    BY <1>1, <2>1 DEF RequestInv
<1>5. ApprovalOnRecord'
  BY DEF ApprovalOnRecord, OnRecord
<1>6. RequestInv(q)'
  BY <1>1, <1>2, <1>3, <1>4, <1>5 DEF RequestInv
<1> QED
  BY <1>2, <1>3, <1>6, LocalStep

LEMMA ApplyingKeeps ==
  ASSUME CategoryInv, NEW q \in Asks,
         MarkApplying(q) \/ FetchPurchase(q) \/ RecordOutcome(q)
  PROVE  Kept
<1>1. /\ DOMAIN category = RowFields /\ DecisionOnRecord /\ RequestInv(q)
      /\ DOMAIN ask[q].loaded = RowFields /\ DOMAIN ask = Asks /\ DOMAIN ask[q] = AskFields
  BY DEF CategoryInv, RequestInv
<1>2. UNCHANGED purchase /\ UNCHANGED decisions /\ ApprovalOnRecord
  BY <1>1 DEF MarkApplying, FetchPurchase, RecordOutcome, RequestInv
<1>3. ASSUME NEW fields, Go(q, fields)
      PROVE  \A f \in AskFields : ask'[q][f] = IF f \in DOMAIN fields THEN fields[f]
                                              ELSE ask[q][f]
  BY <1>1, <1>3, GoWrites
<1>4. CASE MarkApplying(q)
  <2> DEFINE new == [ask[q].loaded EXCEPT !.status = "APPLYING"]
             apply == ask[q].active /\ ask[q].client
             outcome == CASE apply -> "none"
                          [] ~ask[q].active -> "APPLY_FAILED"
                          [] OTHER -> "APPLIED"
             fields == [loaded |-> new, pc |-> IF apply THEN "fetch" ELSE "record",
                        outcome |-> outcome]
  <2>1. Written(q, new) /\ Go(q, fields)
    BY <1>4 DEF MarkApplying
  <2>2. new.status = "APPLYING" /\ new.approved = ask[q].loaded.approved
        /\ DOMAIN new = RowFields
    BY <1>1 DEF RowFields
  <2>3. \/ apply /\ outcome = "none"
        \/ ~apply /\ outcome = "APPLY_FAILED"
        \/ ~apply /\ outcome = "APPLIED" /\ ~ask[q].client
    OBVIOUS
  <2>4. /\ DOMAIN fields = {"pc", "loaded", "outcome"} /\ fields.loaded = new
        /\ fields.outcome = outcome
        /\ \/ apply /\ fields.pc = "fetch"
           \/ ~apply /\ fields.pc = "record"
    OBVIOUS
  <2> HIDE DEF new, apply, outcome, fields
  <2>5. ask'[q].pc = fields.pc /\ ask'[q].outcome = outcome
    BY <1>3, <2>1, <2>4 DEF AskFields
  <2>6. DOMAIN category' = RowFields /\ DecisionOnRecord'
    BY <1>1, <1>2, <2>1, <2>2, ApplyKeeps
  <2> QED
    BY <1>2, <2>1, <2>2, <2>3, <2>4, <2>5, <2>6, ApplyStep
<1>5. CASE FetchPurchase(q)
  <2>1. UNCHANGED category /\ ask[q].pc = "fetch"
    BY <1>5 DEF FetchPurchase
  <2>2. DOMAIN category' = RowFields /\ DecisionOnRecord' /\ ask[q].outcome = "none"
    BY <1>1, <1>2, <2>1, RecordKept DEF RequestInv
  <2>3. ASSUME NEW outcome \in {"APPLY_FAILED", "STALE"},
               Go(q, [pc |-> "record", outcome |-> outcome])
        PROVE  Kept
    <3> DEFINE fields == [pc |-> "record", outcome |-> outcome]
    <3>1. DOMAIN fields = {"pc", "outcome"} /\ fields.pc = "record"
          /\ fields.outcome = outcome
      OBVIOUS
    <3>2. Go(q, fields)
      BY <2>3
    <3> HIDE DEF fields
    <3>3. ask'[q].pc = "record" /\ ask'[q].outcome = outcome
      BY <1>3, <3>1, <3>2 DEF AskFields
    <3> QED
      BY <1>2, <2>2, <3>1, <3>2, <3>3, ApplyStep
  <2>4. CASE ~Stale(purchase) /\ Go(q, [pc |-> "post", token |-> purchase.token])
    <3> DEFINE fields == [pc |-> "post", token |-> purchase.token]
    <3>1. DOMAIN fields = {"pc", "token"} /\ fields.pc = "post"
          /\ fields.token = purchase.token
      OBVIOUS
    <3>2. Go(q, fields) /\ purchase.token = 0
      BY <2>4 DEF Stale
    <3> HIDE DEF fields
    <3>3. ask'[q].pc = "post" /\ ask'[q].token = 0 /\ ask'[q].outcome = ask[q].outcome
      BY <1>3, <3>1, <3>2 DEF AskFields
    <3> QED
      BY <1>2, <2>2, <3>1, <3>2, <3>3, ApplyStep
  <2> QED
    BY <1>5, <2>3, <2>4 DEF FetchPurchase
<1>6. CASE RecordOutcome(q)
  <2> DEFINE new == [ask[q].loaded EXCEPT !.status = ask[q].outcome]
             fields == [pc |-> "label", loaded |-> new]
  <2>1. Written(q, new) /\ Go(q, fields) /\ ask[q].pc = "record"
    BY <1>6 DEF RecordOutcome
  <2>2. new.status = ask[q].outcome /\ new.approved = ask[q].loaded.approved
        /\ DOMAIN new = RowFields
    BY <1>1 DEF RowFields
  <2>3. ask[q].outcome \in {"APPLIED", "APPLY_FAILED", "STALE"}
    BY <1>1, <2>1 DEF RequestInv
  <2>4. DOMAIN fields = {"pc", "loaded"} /\ fields.loaded = new /\ fields.pc = "label"
    OBVIOUS
  <2> HIDE DEF new, fields
  <2>5. ask'[q].pc = "label" /\ ask'[q].outcome = ask[q].outcome
    BY <1>3, <2>1, <2>4 DEF AskFields
  <2>6. DOMAIN category' = RowFields /\ DecisionOnRecord'
    BY <1>1, <1>2, <2>1, <2>2, <2>3, ApplyKeeps
  <2> QED
    BY <1>2, <2>1, <2>2, <2>4, <2>5, <2>6, ApplyStep
<1> QED
  BY <1>4, <1>5, <1>6

\* The post.  It lands only while the token is the one that was reviewed: nobody
\* has edited the transaction and no other request has posted.
LEMMA PostKeeps ==
  ASSUME CategoryInv, NEW q \in Asks, PostUpdate(q)
  PROVE  Kept \/ (CategoryInv' /\ purchase.edits = 0)
<1>1. /\ DOMAIN category = RowFields /\ DecisionOnRecord /\ RequestInv(q) /\ PurchaseInv
      /\ DOMAIN ask[q].loaded = RowFields /\ DOMAIN ask = Asks /\ DOMAIN ask[q] = AskFields
  BY DEF CategoryInv, RequestInv
<1>2. /\ UNCHANGED decisions /\ UNCHANGED category /\ ApprovalOnRecord
      /\ ask[q].pc = "post" /\ ask[q].token = 0
  BY <1>1 DEF PostUpdate, RequestInv
<1>3. DOMAIN category' = RowFields /\ DecisionOnRecord'
  BY <1>1, <1>2, RecordKept
<1>4. CASE UNCHANGED purchase /\ Go(q, [pc |-> "record", outcome |-> "APPLY_FAILED"])
  <2> DEFINE fields == [pc |-> "record", outcome |-> "APPLY_FAILED"]
  <2>1. DOMAIN fields = {"pc", "outcome"} /\ fields.pc = "record"
        /\ fields.outcome = "APPLY_FAILED"
    OBVIOUS
  <2>2. Go(q, fields) /\ UNCHANGED purchase
    BY <1>4
  <2> HIDE DEF fields
  <2>3. ask'[q].pc = "record" /\ ask'[q].outcome = "APPLY_FAILED"
    BY <1>1, <2>1, <2>2, GoWrites DEF AskFields
  <2> QED
    BY <1>2, <1>3, <2>1, <2>2, <2>3, ApplyStep
<1>5. ASSUME ask[q].token = purchase.token, purchase' = Updated(q),
             NEW answered \in BOOLEAN, NEW sameTotal \in BOOLEAN,
             Go(q, [pc      |-> "record",
                    outcome |-> IF answered /\ Verified(q, purchase', sameTotal)
                                THEN "APPLIED" ELSE "APPLY_FAILED",
                    posted  |-> TRUE])
      PROVE  CategoryInv' /\ purchase.edits = 0
  <2> DEFINE outcome == IF answered /\ Verified(q, purchase', sameTotal)
                        THEN "APPLIED" ELSE "APPLY_FAILED"
             fields == [pc |-> "record", outcome |-> outcome, posted |-> TRUE]
  <2>1. purchase.token = 0 /\ purchase.edits = 0
    BY <1>1, <1>2, <1>5 DEF PurchaseInv
  <2>2. /\ DOMAIN purchase' = PurchaseFields /\ purchase'.token = 1
        /\ purchase'.edits = 0
    BY <1>1, <1>5, <2>1 DEF Updated, PurchaseInv, PurchaseFields
  <2>3. DOMAIN fields = {"pc", "outcome", "posted"} /\ fields.pc = "record"
        /\ fields.outcome = outcome /\ fields.posted = TRUE
    OBVIOUS
  <2>4. outcome \in {"APPLIED", "APPLY_FAILED"}
        /\ (outcome = "APPLIED" => purchase'.account = ask[q].acct)
    BY DEF Verified
  <2>5. Go(q, fields)
    BY <1>5
  <2> HIDE DEF fields, outcome
  <2>6. /\ DOMAIN ask' = Asks /\ DOMAIN ask'[q] = AskFields
        /\ \A o \in Asks : o # q => ask'[o] = ask[o]
        /\ \A f \in AskFields : ask'[q][f] = IF f \in DOMAIN fields THEN fields[f]
                                             ELSE ask[q][f]
    BY <1>1, <2>5, GoWrites
  <2>7. /\ ask'[q].pc = "record" /\ ask'[q].outcome = outcome /\ ask'[q].posted = TRUE
        /\ ask'[q].acct = ask[q].acct /\ ask'[q].loaded = ask[q].loaded
    BY <2>3, <2>6 DEF AskFields
  <2>8. ApprovalOnRecord'
    BY <1>2 DEF ApprovalOnRecord, OnRecord
  <2>9. RequestInv(q)'
    <3>1. /\ DOMAIN ask'[q].loaded = RowFields /\ ask'[q].posted
          /\ ask'[q].posted \in BOOLEAN
      BY <1>1, <2>7
    <3>2. ask'[q].outcome = "APPLIED" => purchase'.account = ask'[q].acct
      BY <2>4, <2>7
    <3>3. ask'[q].outcome \in {"APPLIED", "APPLY_FAILED", "STALE"}
      BY <2>4, <2>7
    <3>4. purchase'.token > 0
      BY <2>2
    <3> QED
      BY <2>6, <2>7, <2>8, <3>1, <3>2, <3>3, <3>4 DEF RequestInv
  <2>10. ASSUME NEW o \in Asks, o # q PROVE RequestInv(o)' /\ ~ask'[o].posted
    <3>1. RequestInv(o) /\ ask'[o] = ask[o]
      BY <2>6, <2>10 DEF CategoryInv
    <3>2. ~ask[o].posted
      BY <2>1, <3>1 DEF RequestInv
    <3> QED
      BY <2>8, <3>1, <3>2 DEF RequestInv
  <2>11. OneEffect'
    BY <2>10 DEF OneEffect
  <2>12. PurchaseInv'
    BY <2>2 DEF PurchaseInv
  <2> QED
    BY <1>3, <2>1, <2>6, <2>9, <2>10, <2>11, <2>12 DEF CategoryInv
<1> QED
  BY <1>4, <1>5 DEF PostUpdate

LEMMA StutterKeeps == CategoryInv /\ UNCHANGED categoryVars => Kept
BY DEF categoryVars, Kept, CategoryInv, PurchaseInv, RequestInv, ApprovalOnRecord,
       OnRecord, OneEffect, DecisionOnRecord

LEMMA CategoryStep ==
  CategoryInv /\ [CategoryNext]_categoryVars
  => Kept \/ (CategoryInv' /\ purchase.edits = 0)
<1> SUFFICES ASSUME CategoryInv, [CategoryNext]_categoryVars
             PROVE  Kept \/ (CategoryInv' /\ purchase.edits = 0)
  OBVIOUS
<1>1. CASE AddCategory \/ LoseAccount \/ EditPurchase
  BY <1>1, EnvironmentKeeps
<1>2. ASSUME NEW q \in Asks,
             ReadCategory(q) \/ ReadAccount(q) \/ AddLabel(q) \/ DieInReview(q)
      PROVE  Kept
  BY <1>2, ReadingKeeps
<1>3. ASSUME NEW q \in Asks,
             \/ ApproveLocally(q) \/ Approve(q) \/ ChangeAccount(q)
             \/ Reject(q) \/ Defer(q)
      PROVE  Kept
  BY <1>3, DecisionsKeep
<1>4. ASSUME NEW q \in Asks, MarkApplying(q) \/ FetchPurchase(q) \/ RecordOutcome(q)
      PROVE  Kept
  BY <1>4, ApplyingKeeps
<1>5. ASSUME NEW q \in Asks, PostUpdate(q)
      PROVE  Kept \/ (CategoryInv' /\ purchase.edits = 0)
  BY <1>5, PostKeeps
<1>6. CASE UNCHANGED categoryVars
  BY <1>6, StutterKeeps
<1> QED
  BY <1>1, <1>2, <1>3, <1>4, <1>5, <1>6 DEF CategoryNext

LEMMA CategoryInvHolds == CategorySpec => []CategoryInv
<1>1. CategoryInv /\ [CategoryNext]_categoryVars => CategoryInv'
  BY CategoryStep DEF Kept
<1> QED
  BY <1>1, CategoryInvInit, PTL DEF CategorySpec

\* However many requests are accepted together, cut off or repeated by the
\* client, one of them at most changes the transaction (writeback/service.py).
THEOREM OneEffectHolds == CategorySpec => []OneEffect
<1>1. CategoryInv => OneEffect
  BY DEF CategoryInv
<1> QED
  BY <1>1, CategoryInvHolds, PTL

\* An update lands only on a transaction nobody edited since it was reviewed
\* (writeback/service.py, stale.py).
THEOREM NoEditIsOverwrittenHolds == CategorySpec => NoEditIsOverwritten
<1>1. CategoryInv /\ [CategoryNext]_categoryVars
      => [\A q \in Asks : ~ask[q].posted /\ ask'[q].posted
                          => purchase.edits = 0]_categoryVars
  BY CategoryStep DEF Kept
<1> QED
  BY <1>1, CategoryInvHolds, PTL DEF CategorySpec, NoEditIsOverwritten

\* A recorded success of a request with an API client was verified on the
\* transaction (writeback/service.py).
THEOREM AppliedIsVerifiedHolds == CategorySpec => []AppliedIsVerified
<1>1. CategoryInv => AppliedIsVerified
  BY DEF CategoryInv, RequestInv, AppliedIsVerified
<1> QED
  BY <1>1, CategoryInvHolds, PTL

\* Every status and account of the row has its decision row, however requests
\* overwrite each other or die between commits (categorization/review.py).
THEOREM DecisionOnRecordHolds == CategorySpec => []DecisionOnRecord
<1>1. CategoryInv => DecisionOnRecord
  BY DEF CategoryInv
<1> QED
  BY <1>1, CategoryInvHolds, PTL

\* What a request under way holds; the rest of its record only decides.
TypedAsk(a) ==
    /\ a.pc \in AskSteps /\ a.kind \in Kinds
    /\ a.acct \in Accts \cup {NoAcct}
    /\ a.loaded \in CategoryRow

ReviewTypes == CategoryTypeOK /\ \A q \in Asks : TypedAsk(ask[q])

LEMMA GoTypes ==
  ASSUME CategoryInv, ReviewTypes, NEW q \in Asks, NEW fields, Go(q, fields),
         "pc" \in DOMAIN fields => fields.pc \in AskSteps,
         "kind" \in DOMAIN fields => fields.kind \in Kinds,
         "acct" \in DOMAIN fields => fields.acct \in Accts \cup {NoAcct},
         "loaded" \in DOMAIN fields => fields.loaded \in CategoryRow
  PROVE  \A o \in Asks : TypedAsk(ask[o])'
<1>1. DOMAIN ask = Asks /\ DOMAIN ask[q] = AskFields /\ TypedAsk(ask[q])
  BY DEF CategoryInv, RequestInv, ReviewTypes
<1>2. /\ \A o \in Asks : o # q => ask'[o] = ask[o]
      /\ \A f \in AskFields : ask'[q][f] = IF f \in DOMAIN fields THEN fields[f]
                                           ELSE ask[q][f]
  BY <1>1, GoWrites
<1>3. TypedAsk(ask'[q])
  <2>1. {"pc", "kind", "acct", "loaded"} \subseteq AskFields
    BY DEF AskFields
  <2>2. ask'[q].pc \in AskSteps
    BY <1>1, <1>2, <2>1 DEF TypedAsk
  <2>3. ask'[q].kind \in Kinds
    BY <1>1, <1>2, <2>1 DEF TypedAsk
  <2>4. ask'[q].acct \in Accts \cup {NoAcct}
    BY <1>1, <1>2, <2>1 DEF TypedAsk
  <2>5. ask'[q].loaded \in CategoryRow
    BY <1>1, <1>2, <2>1 DEF TypedAsk
  <2> QED
    BY <2>2, <2>3, <2>4, <2>5 DEF TypedAsk
<1>4. ASSUME NEW o \in Asks PROVE TypedAsk(ask'[o])
  BY <1>2, <1>3 DEF ReviewTypes
<1> QED
  BY <1>4 DEF TypedAsk

LEMMA NoCategoryType == NoCategory \in CategoryRow
  BY DEF NoCategory, CategoryRow, CategoryStatuses

LEMMA EndTypes ==
  ASSUME CategoryInv, ReviewTypes, NEW q \in Asks, NEW pc \in AskSteps, End(q, pc)
  PROVE  \A o \in Asks : TypedAsk(ask[o])'
<1>1. DOMAIN ask = Asks /\ TypedAsk(ask[q])
  BY DEF CategoryInv, ReviewTypes
<1>2. /\ \A o \in Asks : o # q => ask'[o] = ask[o]
      /\ ask'[q].pc = pc /\ ask'[q].loaded = NoCategory /\ ask'[q].acct = ask[q].acct
  BY <1>1, EndWrites
<1>3. ask'[q].kind \in Kinds
  <2>1. ask'[q] = [NewAsk EXCEPT !.pc = pc, !.acct = ask[q].acct,
                                 !.client = ask[q].client,
                                 !.outcome = ask[q].outcome,
                                 !.posted = ask[q].posted]
    BY <1>1 DEF End
  <2> QED
    BY <2>1 DEF NewAsk, Kinds
<1>4. TypedAsk(ask'[q])
  BY <1>1, <1>2, <1>3, NoCategoryType DEF TypedAsk
<1>5. ASSUME NEW o \in Asks PROVE TypedAsk(ask'[o])
  BY <1>2, <1>4 DEF ReviewTypes
<1> QED
  BY <1>5 DEF TypedAsk

LEMMA WrittenType ==
  ASSUME category \in CategoryRow, NEW q \in Asks, NEW new \in CategoryRow, Written(q, new)
  PROVE  category' \in CategoryRow
BY DEF Written, Flushed, CategoryRow

LEMMA DecideTypes ==
  ASSUME ReviewTypes, NEW q \in Asks, NEW new \in CategoryRow,
         NEW kind \in ReviewKinds, NEW acct \in Accts \cup {NoAcct},
         Decide(q, new, kind, acct)
  PROVE  /\ category' \in CategoryRow
         /\ decisions' \subseteq [by : Asks, decision : ReviewKinds, version : Nat,
                                  acct : Accts \cup {NoAcct}]
<1>1. category' \in CategoryRow
  BY WrittenType DEF Decide, ReviewTypes, CategoryTypeOK
<1>2. new.version \in Nat
  BY DEF CategoryRow
<1> QED
  BY <1>1, <1>2 DEF Decide, ReviewTypes, CategoryTypeOK

LEMMA ApprovedType ==
  ASSUME NEW row \in CategoryRow, NEW acct \in Accts \cup {NoAcct}
  PROVE  /\ Approved(row, acct) \in CategoryRow
         /\ [Approved(row, acct) EXCEPT !.version = @ + 1] \in CategoryRow
<1>1. Approved(row, acct) \in CategoryRow
  BY DEF Approved, CategoryRow, CategoryStatuses
<1>2. ASSUME NEW r \in CategoryRow PROVE [r EXCEPT !.version = @ + 1] \in CategoryRow
  BY DEF CategoryRow
<1> QED
  BY <1>1, <1>2

LEMMA StatusType ==
  ASSUME NEW row \in CategoryRow, NEW status \in CategoryStatuses
  PROVE  /\ [row EXCEPT !.status = status] \in CategoryRow
         /\ [row EXCEPT !.status = status, !.requires_review = FALSE] \in CategoryRow
BY DEF CategoryRow

LEMMA ReviewTypesNext ==
  ASSUME CategoryInv, ReviewTypes, [CategoryNext]_categoryVars
  PROVE  ReviewTypes'
<1>0. /\ CategoryTypeOK /\ \A q \in Asks : TypedAsk(ask[q])
      /\ category \in CategoryRow
  BY DEF ReviewTypes, CategoryTypeOK
<1>1. ASSUME /\ category' \in CategoryRow
             /\ decisions' \subseteq [by : Asks, decision : ReviewKinds, version : Nat,
                                      acct : Accts \cup {NoAcct}]
             /\ labels' = labels \/ \E q \in Asks : \E l \in {"APPROVE", "APPROVE_VERIFIED",
                   "MANUAL_SELECTION", "APPROVE_APPLY_FAILED", "APPROVE_STALE"} :
                   labels' = labels \cup {<<q, l>>},
             UNCHANGED <<acctState, purchase>>,
             \A q \in Asks : TypedAsk(ask[q])'
      PROVE  ReviewTypes'
  <2>1. labels' \subseteq Asks \X {"APPROVE", "APPROVE_VERIFIED", "MANUAL_SELECTION",
                                   "APPROVE_APPLY_FAILED", "APPROVE_STALE"}
    BY <1>0, <1>1 DEF CategoryTypeOK
  <2>2. \A q \in Asks : ask'[q].pc \in AskSteps /\ ask'[q].kind \in Kinds
    BY <1>1 DEF TypedAsk
  <2> QED
    BY <1>0, <1>1, <2>1, <2>2 DEF ReviewTypes, CategoryTypeOK
<1> DEFINE Same == UNCHANGED <<category, decisions, labels, acctState, purchase>>
<1>2. ASSUME Same, \A q \in Asks : TypedAsk(ask[q])' PROVE ReviewTypes'
  BY <1>0, <1>1, <1>2 DEF CategoryTypeOK
<1>3. CASE AddCategory
  <2>1. PICK a \in Accts \cup {NoAcct} :
           category' = [category EXCEPT !.status = "NEEDS_REVIEW", !.recommended = a]
    BY <1>3 DEF AddCategory
  <2>2. category' \in CategoryRow
    BY <1>0, <2>1 DEF CategoryRow, CategoryStatuses
  <2>3. PICK t \in {"Purchase", "Bill"}, l \in {"account", "other"}, h \in {"entity", "stored"} :
           purchase' = [purchase EXCEPT !.type = t, !.line = l, !.hashed = h]
    BY <1>3 DEF AddCategory
  <2>4. UNCHANGED <<decisions, labels, acctState, ask>>
    BY <1>3 DEF AddCategory
  <2> QED
    BY <1>0, <2>2, <2>3, <2>4 DEF ReviewTypes, CategoryTypeOK, TypedAsk
<1>4. CASE LoseAccount
  BY <1>0, <1>4 DEF LoseAccount, ReviewTypes, CategoryTypeOK, TypedAsk
<1>5. CASE EditPurchase
  <2>1. purchase' = [purchase EXCEPT !.token = purchase.token + 1,
                                     !.edits = purchase.edits + 1, !.account = NoAcct]
    BY <1>5 DEF EditPurchase
  <2>2. purchase' \in [token : Nat, account : Accts \cup {NoAcct}, edits : Nat,
                       type : {"Purchase", "Bill"}, line : {"account", "other"},
                       hashed : {"entity", "stored"}]
    <3>1. purchase.token + 1 \in Nat /\ purchase.edits + 1 \in Nat
      BY <1>0 DEF CategoryTypeOK
    <3> QED
      BY <1>0, <2>1, <3>1 DEF CategoryTypeOK
  <2>3. UNCHANGED <<category, decisions, labels, acctState, ask>>
    BY <1>5 DEF EditPurchase
  <2> QED
    BY <1>0, <2>2, <2>3 DEF ReviewTypes, CategoryTypeOK, TypedAsk
<1>6. CASE UNCHANGED categoryVars
  BY <1>0, <1>6 DEF categoryVars, ReviewTypes, CategoryTypeOK, TypedAsk
<1>7. ASSUME NEW q \in Asks, ReadCategory(q) PROVE ReviewTypes'
  <2> DEFINE Wanted(kind, a) == IF a = NoAcct \/ kind = "APPROVE"
                                THEN category.recommended ELSE a
             Asked(kind, a, key, client) ==
               [pc     |-> IF kind \in {"REJECT", "DEFER"} THEN "decide" ELSE "account",
                kind   |-> kind, acct |-> Wanted(kind, a), key |-> key,
                client |-> client, loaded |-> category]
             refused(kind, a, current) ==
               \/ Refuses(kind, category.status)
               \/ kind = "APPLY" /\ ~current
               \/ kind \in {"APPLY", "APPROVE"} /\ Wanted(kind, a) = NoAcct
               \/ kind = "CHANGE_ACCOUNT" /\ a = NoAcct
  <2>1. PICK kind \in Kinds, a \in Accts \cup {NoAcct}, key, client, current \in BOOLEAN :
          IF refused(kind, a, current) THEN End(q, "refused")
          ELSE Go(q, Asked(kind, a, key, client))
    BY <1>7 DEF ReadCategory
  <2> DEFINE fields == Asked(kind, a, key, client)
  <2>2. /\ fields.pc \in AskSteps /\ fields.kind \in Kinds
        /\ fields.acct \in Accts \cup {NoAcct} /\ fields.loaded \in CategoryRow
    BY <1>0 DEF AskSteps, CategoryRow
  <2>3. End(q, "refused") \/ Go(q, fields)
    <3> HIDE DEF refused, Asked
    <3> QED
      BY <2>1
  <2> HIDE DEF fields
  <2>4. "refused" \in AskSteps
    BY DEF AskSteps
  <2>5. \A o \in Asks : TypedAsk(ask[o])'
    BY <2>2, <2>3, <2>4, GoTypes, EndTypes
  <2>6. Same
    BY <1>7 DEF ReadCategory
  <2> QED
    BY <1>2, <2>5, <2>6
<1>8. ASSUME NEW q \in Asks, ReadAccount(q) PROVE ReviewTypes'
  <2> DEFINE fields == [pc |-> "decide", active |-> acctState[ask[q].acct] = "active"]
  <2>1. /\ DOMAIN fields = {"pc", "active"} /\ fields.pc \in AskSteps /\ "refused" \in AskSteps
    BY DEF AskSteps
  <2>2. (End(q, "refused") \/ Go(q, fields)) /\ Same
    BY <1>8 DEF ReadAccount
  <2> HIDE DEF fields
  <2>3. \A o \in Asks : TypedAsk(ask[o])'
    BY <2>1, <2>2, GoTypes, EndTypes
  <2> QED
    BY <1>2, <2>2, <2>3
<1>9. ASSUME NEW q \in Asks, ApproveLocally(q) PROVE ReviewTypes'
  <2> DEFINE new == [Approved(ask[q].loaded, ask[q].acct) EXCEPT !.version = @ + 1]
             fields == [pc |-> IF purchase.type = "Purchase" /\ ask[q].key
                               THEN "mark" ELSE "label", loaded |-> new]
  <2>1. Decide(q, new, "APPROVE", ask[q].acct) /\ Go(q, fields)
        /\ UNCHANGED <<labels, acctState, purchase>>
    BY <1>9 DEF ApproveLocally
  <2>2. new \in CategoryRow /\ ask[q].acct \in Accts \cup {NoAcct} /\ "APPROVE" \in ReviewKinds
    BY <1>0, ApprovedType DEF TypedAsk, ReviewKinds
  <2> HIDE DEF new
  <2>3. DOMAIN fields = {"pc", "loaded"} /\ fields.pc \in AskSteps /\ fields.loaded \in CategoryRow
    BY <2>2 DEF AskSteps
  <2> HIDE DEF fields
  <2>4. \A o \in Asks : TypedAsk(ask[o])'
    BY <2>1, <2>3, GoTypes
  <2> QED
    BY <1>1, <2>1, <2>2, <2>4, DecideTypes
<1>10. ASSUME NEW q \in Asks, Approve(q) \/ ChangeAccount(q) \/ Reject(q) \/ Defer(q)
       PROVE  ReviewTypes'
  <2>1. /\ ask[q].acct \in Accts \cup {NoAcct} /\ NoAcct \in Accts \cup {NoAcct}
        /\ ask[q].loaded \in CategoryRow
        /\ {"APPROVE", "CHANGE_ACCOUNT", "REJECT", "DEFER"} = ReviewKinds
        /\ {"done", "refused"} \subseteq AskSteps
        /\ {"REJECTED", "DEFERRED"} \subseteq CategoryStatuses
    BY <1>0 DEF TypedAsk, ReviewKinds, AskSteps, CategoryStatuses
  <2>2. UNCHANGED <<acctState, purchase>>
    BY <1>10 DEF Approve, ChangeAccount, Reject, Defer
  <2>3. \A o \in Asks : TypedAsk(ask[o])'
    <3>1. End(q, "done") \/ End(q, "refused")
      BY <1>10 DEF Approve, ChangeAccount, Reject, Defer
    <3> QED
      BY <2>1, <3>1, EndTypes
  <2>4. CASE Approve(q)
    BY <1>1, <2>1, <2>2, <2>3, <2>4, ApprovedType, DecideTypes DEF Approve
  <2>5. CASE ChangeAccount(q)
    <3>1. CASE UNCHANGED <<category, decisions, labels>>
      BY <1>2, <2>2, <2>3, <3>1
    <3>2. CASE /\ Decide(q, Approved(ask[q].loaded, ask[q].acct), "CHANGE_ACCOUNT", ask[q].acct)
               /\ labels' = labels \cup {<<q, "MANUAL_SELECTION">>}
      BY <1>1, <2>1, <2>2, <2>3, <3>2, ApprovedType, DecideTypes
    <3> QED
      BY <2>5, <3>1, <3>2 DEF ChangeAccount
  <2>6. CASE Reject(q)
    <3> DEFINE new == [ask[q].loaded EXCEPT !.status = "REJECTED", !.requires_review = FALSE]
    <3>1. new \in CategoryRow
      BY <2>1, StatusType
    <3>2. Decide(q, new, "REJECT", NoAcct) /\ labels' = labels
      BY <2>6 DEF Reject
    <3> HIDE DEF new
    <3> QED
      BY <1>1, <2>1, <2>2, <2>3, <3>1, <3>2, DecideTypes
  <2>7. CASE Defer(q)
    <3> DEFINE new == [ask[q].loaded EXCEPT !.status = "DEFERRED"]
    <3>1. new \in CategoryRow
      BY <2>1, StatusType
    <3>2. Decide(q, new, "DEFER", NoAcct) /\ labels' = labels
      BY <2>7 DEF Defer
    <3> HIDE DEF new
    <3> QED
      BY <1>1, <2>1, <2>2, <2>3, <3>1, <3>2, DecideTypes
  <2> QED
    BY <1>10, <2>4, <2>5, <2>6, <2>7
<1>11. ASSUME NEW q \in Asks, MarkApplying(q) \/ RecordOutcome(q) PROVE ReviewTypes'
  <2>1. ask[q].pc = "record" => ask[q].outcome \in CategoryStatuses
    BY DEF CategoryInv, RequestInv, CategoryStatuses
  <2>2. PICK status \in CategoryStatuses :
           \E fields :
              /\ Written(q, [ask[q].loaded EXCEPT !.status = status])
              /\ Go(q, fields) /\ {"pc", "loaded"} \subseteq DOMAIN fields
              /\ DOMAIN fields \subseteq {"pc", "loaded", "outcome"}
              /\ fields.pc \in AskSteps
              /\ fields.loaded = [ask[q].loaded EXCEPT !.status = status]
    <3>1. CASE MarkApplying(q)
      <4> DEFINE new == [ask[q].loaded EXCEPT !.status = "APPLYING"]
                 apply == ask[q].active /\ ask[q].client
                 fields == [loaded  |-> new,
                            pc      |-> IF apply THEN "fetch" ELSE "record",
                            outcome |-> CASE apply -> "none"
                                          [] ~ask[q].active -> "APPLY_FAILED"
                                          [] OTHER -> "APPLIED"]
      <4>1. Written(q, new) /\ Go(q, fields)
        BY <3>1 DEF MarkApplying
      <4>2. /\ DOMAIN fields = {"loaded", "pc", "outcome"}
            /\ fields.pc \in AskSteps /\ fields.loaded = new
            /\ "APPLYING" \in CategoryStatuses
        BY DEF AskSteps, CategoryStatuses
      <4> HIDE DEF fields
      <4> QED
        BY <4>1, <4>2
    <3>2. CASE RecordOutcome(q)
      <4> DEFINE new == [ask[q].loaded EXCEPT !.status = ask[q].outcome]
                 fields == [pc |-> "label", loaded |-> new]
      <4>1. Written(q, new) /\ Go(q, fields) /\ ask[q].outcome \in CategoryStatuses
        BY <2>1, <3>2 DEF RecordOutcome
      <4>2. /\ DOMAIN fields = {"loaded", "pc"}
            /\ fields.pc \in AskSteps /\ fields.loaded = new
        BY DEF AskSteps
      <4> HIDE DEF fields
      <4> QED
        BY <4>1, <4>2
    <3> QED
      BY <1>11, <3>1, <3>2
  <2> DEFINE new == [ask[q].loaded EXCEPT !.status = status]
  <2>3. new \in CategoryRow
    BY <1>0, StatusType DEF TypedAsk
  <2> HIDE DEF new
  <2>4. PICK fields : /\ Written(q, new) /\ Go(q, fields)
                      /\ DOMAIN fields \subseteq {"pc", "loaded", "outcome"}
                      /\ fields.pc \in AskSteps /\ fields.loaded = new
    BY <2>2 DEF new
  <2>5. \A o \in Asks : TypedAsk(ask[o])'
    BY <2>3, <2>4, GoTypes
  <2>6. category' \in CategoryRow
    BY <1>0, <2>3, <2>4, WrittenType
  <2>7. UNCHANGED <<decisions, labels, acctState, purchase>>
    BY <1>11 DEF MarkApplying, RecordOutcome
  <2> QED
    BY <1>0, <1>1, <2>5, <2>6, <2>7 DEF CategoryTypeOK
<1>12. ASSUME NEW q \in Asks, FetchPurchase(q) PROVE ReviewTypes'
  <2>1. \E fields : /\ Go(q, fields) /\ DOMAIN fields \subseteq {"pc", "outcome", "token"}
                    /\ "pc" \in DOMAIN fields => fields.pc \in AskSteps
    <3> DEFINE failed == [pc |-> "record", outcome |-> "APPLY_FAILED"]
               stale == [pc |-> "record", outcome |-> "STALE"]
               posting == [pc |-> "post", token |-> purchase.token]
    <3>1. Go(q, failed) \/ Go(q, stale) \/ Go(q, posting)
      BY <1>12 DEF FetchPurchase
    <3>2. /\ DOMAIN failed = {"pc", "outcome"} /\ failed.pc \in AskSteps
          /\ DOMAIN stale = {"pc", "outcome"} /\ stale.pc \in AskSteps
          /\ DOMAIN posting = {"pc", "token"} /\ posting.pc \in AskSteps
      BY DEF AskSteps
    <3> HIDE DEF failed, stale, posting
    <3> QED
      BY <3>1, <3>2
  <2>2. \A o \in Asks : TypedAsk(ask[o])'
    BY <2>1, GoTypes
  <2> QED
    BY <1>2, <1>12, <2>2 DEF FetchPurchase
<1>13. ASSUME NEW q \in Asks, PostUpdate(q) PROVE ReviewTypes'
  <2>1. PICK outcome, posted : \/ Go(q, [pc |-> "record", outcome |-> outcome])
                               \/ Go(q, [pc |-> "record", outcome |-> outcome, posted |-> posted])
    <3>1. PICK o1, o2 : \/ Go(q, [pc |-> "record", outcome |-> o1])
                        \/ Go(q, [pc |-> "record", outcome |-> o2, posted |-> TRUE])
      BY <1>13 DEF PostUpdate
    <3> QED
      BY <3>1
  <2>2. "record" \in AskSteps
    BY DEF AskSteps
  <2>3. \A o \in Asks : TypedAsk(ask[o])'
    BY <2>1, <2>2, GoTypes
  <2>4. purchase' = purchase \/ purchase' = Updated(q)
    BY <1>13 DEF PostUpdate
  <2>5. UNCHANGED <<category, decisions, labels, acctState>>
    BY <1>13 DEF PostUpdate
  <2>6. purchase' \in [token : Nat, account : Accts \cup {NoAcct}, edits : Nat,
                       type : {"Purchase", "Bill"}, line : {"account", "other"},
                       hashed : {"entity", "stored"}]
    <3>1. CASE purchase' = Updated(q)
      <4>1. ask[q].acct \in Accts \cup {NoAcct}
        BY <1>0 DEF TypedAsk
      <4>2. purchase.token + 1 \in Nat
        BY <1>0 DEF CategoryTypeOK
      <4>3. PICK a \in Accts \cup {NoAcct} :
               purchase' = [purchase EXCEPT !.token = purchase.token + 1, !.account = a]
        BY <1>0, <3>1, <4>1 DEF CategoryTypeOK, Updated
      <4> QED
        BY <1>0, <4>2, <4>3 DEF CategoryTypeOK
    <3> QED
      BY <1>0, <2>4, <3>1 DEF CategoryTypeOK
  <2> QED
    BY <1>0, <2>3, <2>5, <2>6 DEF ReviewTypes, CategoryTypeOK, TypedAsk
<1>14. ASSUME NEW q \in Asks, AddLabel(q) \/ DieInReview(q) PROVE ReviewTypes'
  <2>1. {"done", "dead"} \subseteq AskSteps
    BY DEF AskSteps
  <2>2. End(q, "done") \/ End(q, "dead")
    BY <1>14 DEF AddLabel, DieInReview
  <2>3. \A o \in Asks : TypedAsk(ask[o])'
    BY <2>1, <2>2, EndTypes
  <2>4. LabelSource(ask[q].loaded.status) \in
           {"APPROVE", "APPROVE_VERIFIED", "MANUAL_SELECTION", "APPROVE_APPLY_FAILED", "APPROVE_STALE"}
    BY DEF LabelSource
  <2>5. CASE AddLabel(q)
    BY <1>0, <1>1, <2>3, <2>4, <2>5 DEF AddLabel, CategoryTypeOK
  <2>6. CASE DieInReview(q)
    BY <1>2, <2>3, <2>6 DEF DieInReview
  <2> QED
    BY <1>14, <2>5, <2>6
<1> QED
  BY <1>3, <1>4, <1>5, <1>6, <1>7, <1>8, <1>9, <1>10, <1>11, <1>12, <1>13, <1>14
     DEF CategoryNext

\* Whatever requests load, decide, post and record, rows, decisions and labels
\* stay of the known kinds (categorization/review.py, models.py).
THEOREM CategoryTypeCorrect == CategorySpec => []CategoryTypeOK
<1>1. CategoryInit => ReviewTypes
  <2> SUFFICES ASSUME CategoryInit PROVE ReviewTypes
    OBVIOUS
  <2>1. CategoryTypeOK
    BY NoCategoryType DEF CategoryInit, CategoryTypeOK, NewAsk, AskSteps, Kinds
  <2>2. \A q \in Asks : TypedAsk(ask[q])
    BY NoCategoryType DEF CategoryInit, TypedAsk, NewAsk, AskSteps, Kinds
  <2> QED
    BY <2>1, <2>2 DEF ReviewTypes
<1>2. CategoryInv /\ ReviewTypes /\ [CategoryNext]_categoryVars => ReviewTypes'
  BY ReviewTypesNext
<1>3. ReviewTypes => CategoryTypeOK
  BY DEF ReviewTypes
<1> QED
  BY <1>1, <1>2, <1>3, CategoryInvHolds, PTL DEF CategorySpec

-----------------------------------------------------------------------------
(* The registry.  Its three properties rest on one invariant: what a       *)
(* request under way has read is still the row unless somebody overtook    *)
(* it.                                                                     *)

Statuses == ModelStatuses \cup {NoStatus}

MoveRecord == [pc : {"idle", "check", "write"}, of : Models \cup {NoModel},
               target : Statuses, loaded : ModelRow, overtaken : BOOLEAN]

ShadowRecord == [pc : {"idle", "flush", "stored", "doomed"}, of : Models \cup {NoModel}]

\* A request under way moves a registered model along the table, from the status
\* it read, which is the present one unless the request was overtaken.
MoveIsSound(q) ==
    move[q].pc # "idle"
    => /\ move[q].of \in Registered
       /\ move[q].target \in Allowed(move[q].loaded.status)
       /\ ~move[q].overtaken => move[q].loaded.status = model[move[q].of].status

TransitionsInv ==
    /\ model \in [Models -> ModelRow]
    /\ mlEvent \in [Models -> ModelEvent]
    /\ move \in [Moves -> MoveRecord]
    /\ \A q \in Moves : MoveIsSound(q)
    /\ EventsExplainStatus

AtMostOne == \A m1, m2 \in InShadow : m1 = m2

\* No status is its own successor, and only known ones follow another.
LEMMA NoStatusFollowsItself ==
  \A s \in Statuses : s \notin Allowed(s) /\ Allowed(s) \subseteq ModelStatuses
  BY DEF Statuses, Allowed, ModelStatuses, NoStatus

\* The flush of a transition writes the status alone.
LEMMA FlushedStatus ==
  ASSUME NEW old \in ModelRow, NEW now \in ModelRow, NEW target \in Statuses,
         target # old.status
  PROVE  Flushed(old, [old EXCEPT !.status = target], now)
           = [status |-> target, hash |-> now.hash]
<1> DEFINE new == [old EXCEPT !.status = target]
<1>1. DOMAIN now = {"status", "hash"} /\ new.status = target /\ new.hash = old.hash
  BY DEF ModelRow
<1>2. Flushed(old, new, now)
        = [col \in {"status", "hash"} |-> IF new[col] # old[col] THEN new[col] ELSE now[col]]
  BY <1>1 DEF Flushed
<1> HIDE DEF new
<1>3. Flushed(old, new, now) = [status |-> target, hash |-> now.hash]
  BY <1>1, <1>2
<1> QED
  BY <1>3 DEF new

\* What a committed transition does.
LEMMA WriteStatusEffect ==
  ASSUME TransitionsInv, NEW q \in Moves, WriteStatus(q),
         ~IndexRefuses(move[q].of, [move[q].loaded EXCEPT !.status = move[q].target].status)
  PROVE  LET m == move[q].of
         IN /\ m \in Registered
            /\ move[q].target \in ModelStatuses
            /\ model' = [model EXCEPT ![m] = [status |-> move[q].target, hash |-> @.hash]]
<1>1. /\ move[q] \in MoveRecord /\ move[q].of \in Registered
      /\ move[q].target \in Allowed(move[q].loaded.status)
  BY DEF TransitionsInv, MoveIsSound, WriteStatus
<1>2. move[q].of \in Models /\ model[move[q].of] \in ModelRow
  BY <1>1 DEF Registered, TransitionsInv
<1>3. /\ move[q].target \in ModelStatuses /\ move[q].target # move[q].loaded.status
      /\ move[q].loaded \in ModelRow /\ move[q].target \in Statuses
  BY <1>1, NoStatusFollowsItself DEF MoveRecord, ModelRow, Statuses
<1>4. model' = [model EXCEPT ![move[q].of] =
                  Flushed(move[q].loaded, [move[q].loaded EXCEPT !.status = move[q].target],
                          model[move[q].of])]
  BY DEF WriteStatus
<1> QED
  BY <1>1, <1>2, <1>3, <1>4, FlushedStatus

\* The invariant of transitions holds at the start.
LEMMA TransitionsInvInit == RegistryInit => TransitionsInv
  BY DEF RegistryInit, TransitionsInv, ModelRow, ModelEvent, MoveRecord, Statuses,
         Unregistered, NoEvent, NewMove, MoveIsSound, EventsExplainStatus, Registered,
         NoStatus, ModelStatuses

\* Every step preserves it.
LEMMA TransitionsInvNext == TransitionsInv /\ [RegistryNext]_registryVars => TransitionsInv'
<1> SUFFICES ASSUME TransitionsInv, [RegistryNext]_registryVars PROVE TransitionsInv'
  OBVIOUS
<1>1. CASE UNCHANGED <<model, mlEvent, move>>
  BY <1>1 DEF TransitionsInv, MoveIsSound, EventsExplainStatus, Registered
<1>2. ASSUME NEW m \in Models, NEW hash \in 0..MaxSaves, RegisterModel(m, hash)
      PROVE  TransitionsInv'
  <2>0. hash \in Nat
    BY <1>2, RegistryAssumption
  <2>1. [status |-> "CANDIDATE", hash |-> hash] \in ModelRow
    BY <2>0 DEF ModelRow, ModelStatuses
  <2>2. [NoEvent EXCEPT !.new = "CANDIDATE"] \in ModelEvent
    BY DEF NoEvent, ModelEvent, ModelStatuses
  <2>3. \A n \in Models : n # m => model'[n] = model[n] /\ mlEvent'[n] = mlEvent[n]
    BY <1>2 DEF RegisterModel, TransitionsInv
  <2>4. /\ model'[m].status = "CANDIDATE" /\ mlEvent'[m].new = "CANDIDATE"
        /\ mlEvent'[m].old = NoStatus /\ mlEvent'[m].after = NoStatus
    BY <1>2 DEF RegisterModel, TransitionsInv, NoEvent
  <2>5. m \notin Registered /\ Registered' = Registered \cup {m}
    BY <1>2, <2>3, <2>4 DEF RegisterModel, Registered, NoStatus
  <2>6. \A q \in Moves : MoveIsSound(q)'
    BY <1>2, <2>3, <2>5 DEF RegisterModel, TransitionsInv, MoveIsSound, Registered
  <2>7. EventsExplainStatus'
    BY <2>3, <2>4, <2>5 DEF EventsExplainStatus, TransitionsInv, Registered
  <2> QED
    BY <1>2, <2>1, <2>2, <2>6, <2>7 DEF RegisterModel, TransitionsInv
<1>3. ASSUME NEW q \in Moves, NEW m \in Models, NEW target \in ModelStatuses,
             ReadModel(q, m, target)
      PROVE  TransitionsInv'
  <2> DEFINE new == [pc |-> IF target = "SHADOW" THEN "check" ELSE "write", of |-> m,
                     target |-> target, loaded |-> model[m], overtaken |-> FALSE]
  <2>1. new \in MoveRecord
    BY DEF MoveRecord, Statuses, TransitionsInv
  <2>2. move' = [move EXCEPT ![q] = new] /\ UNCHANGED <<model, mlEvent>>
    BY <1>3 DEF ReadModel
  <2>3. m \in Registered /\ target \in Allowed(model[m].status)
    BY <1>3 DEF ReadModel
  <2>4. MoveIsSound(q)'
    BY <2>2, <2>3 DEF MoveIsSound, Registered, TransitionsInv
  <2> HIDE DEF new
  <2> QED
    BY <2>1, <2>2, <2>4 DEF TransitionsInv, MoveIsSound, Registered, EventsExplainStatus
<1>4. ASSUME NEW q \in Moves, CheckShadow(q)
      PROVE  TransitionsInv'
  <2>1. PICK new : /\ new \in {[move[q] EXCEPT !.pc = "write"], NewMove}
                   /\ move' = [move EXCEPT ![q] = new]
    BY <1>4 DEF CheckShadow
  <2>2. new \in MoveRecord
    <3>1. move[q] \in MoveRecord
      BY DEF TransitionsInv
    <3>2. [move[q] EXCEPT !.pc = "write"] \in MoveRecord
      BY <3>1 DEF MoveRecord
    <3>3. NewMove \in MoveRecord
      BY DEF MoveRecord, NewMove, Statuses, ModelRow, Unregistered, NoStatus, ModelStatuses
    <3> QED
      BY <2>1, <3>2, <3>3
  <2>3. UNCHANGED <<model, mlEvent>> /\ move[q].pc = "check"
    BY <1>4 DEF CheckShadow
  <2>4. MoveIsSound(q)'
    BY <2>1, <2>3 DEF TransitionsInv, MoveIsSound, Registered, MoveRecord, NewMove
  <2> QED
    BY <2>1, <2>2, <2>3, <2>4 DEF TransitionsInv, MoveIsSound, Registered, EventsExplainStatus
<1>5. ASSUME NEW q \in Moves, WriteStatus(q)
      PROVE  TransitionsInv'
  <2> DEFINE m == move[q].of
             refused == IndexRefuses(m, [move[q].loaded EXCEPT !.status = move[q].target].status)
  <2>0. NewMove \in MoveRecord
    BY DEF MoveRecord, NewMove, Statuses, ModelRow, Unregistered, NoStatus, ModelStatuses
  <2>1. CASE refused
    <3>1. move' = [move EXCEPT ![q] = NewMove] /\ UNCHANGED <<model, mlEvent>>
      BY <1>5, <2>1 DEF WriteStatus
    <3> QED
      BY <2>0, <3>1 DEF TransitionsInv, MoveIsSound, Registered, EventsExplainStatus, NewMove
  <2>2. CASE ~refused
    <3>1. /\ m \in Registered /\ m \in Models
          /\ move[q].target \in ModelStatuses
          /\ model' = [model EXCEPT ![m] = [status |-> move[q].target, hash |-> @.hash]]
      BY <1>5, <2>2, WriteStatusEffect DEF Registered
    <3>2. /\ mlEvent' = [mlEvent EXCEPT ![m] = EventOf(q)]
          /\ move' = [o \in Moves |-> CASE o = q -> NewMove
                                        [] o # q /\ move[o].of = m ->
                                              [move[o] EXCEPT !.overtaken = TRUE]
                                        [] OTHER -> move[o]]
      BY <1>5, <2>2 DEF WriteStatus
    <3>3. /\ move[q] \in MoveRecord /\ mlEvent[m] \in ModelEvent /\ model[m] \in ModelRow
          /\ move[q].target \in Allowed(move[q].loaded.status)
          /\ ~move[q].overtaken => move[q].loaded.status = model[m].status
      BY <1>5, <3>1 DEF TransitionsInv, MoveIsSound, WriteStatus
    <3>4. EventOf(q) \in ModelEvent
      BY <3>1, <3>3 DEF EventOf, ModelEvent, MoveRecord, ModelRow
    <3>5. [status |-> move[q].target, hash |-> model[m].hash] \in ModelRow
      BY <3>1, <3>3 DEF ModelRow
    <3>6. \A n \in Models : n # m => model'[n] = model[n] /\ mlEvent'[n] = mlEvent[n]
      BY <3>1, <3>2 DEF TransitionsInv
    <3>7. /\ model'[m].status = move[q].target
          /\ mlEvent'[m] = EventOf(q)
      BY <3>1, <3>2 DEF TransitionsInv
    <3>8. Registered' = Registered
      <4>1. move[q].target # NoStatus
        BY <3>1 DEF ModelStatuses, NoStatus
      <4> QED
        BY <3>1, <3>6, <3>7, <4>1 DEF Registered
    <3>9. \A o \in Moves : move'[o] \in MoveRecord /\ MoveIsSound(o)'
      <4> TAKE o \in Moves
      <4>0. move[o] \in MoveRecord /\ MoveIsSound(o)
        BY DEF TransitionsInv
      <4>1. CASE o = q
        BY <2>0, <3>2, <4>1 DEF MoveIsSound, NewMove
      <4>2. CASE o # q /\ move[o].of = m
        <5>1. move'[o] = [move[o] EXCEPT !.overtaken = TRUE]
          BY <3>2, <4>2
        <5> QED
          BY <3>8, <4>0, <5>1 DEF MoveIsSound, MoveRecord
      <4>3. CASE o # q /\ move[o].of # m
        <5>1. move'[o] = move[o]
          BY <3>2, <4>3
        <5> QED
          BY <3>6, <3>8, <4>0, <4>3, <5>1 DEF MoveIsSound, Registered
      <4> QED
        BY <4>1, <4>2, <4>3
    <3>10. EventsExplainStatus'
      <4>1. mlEvent[m].new = model[m].status
        BY <3>1 DEF TransitionsInv, EventsExplainStatus
      <4>2. /\ mlEvent'[m].new = move[q].target /\ mlEvent'[m].old = move[q].loaded.status
            /\ mlEvent'[m].after = mlEvent[m].new
            /\ mlEvent'[m].overtaken = move[q].overtaken
        BY <3>7 DEF EventOf
      <4> QED
        BY <3>3, <3>6, <3>7, <3>8, <4>1, <4>2 DEF TransitionsInv, EventsExplainStatus, Registered
    <3>11. model' \in [Models -> ModelRow] /\ mlEvent' \in [Models -> ModelEvent]
      BY <3>1, <3>2, <3>4, <3>5 DEF TransitionsInv
    <3>12. move' \in [Moves -> MoveRecord]
      BY <3>2, <3>9
    <3> QED
      BY <3>9, <3>10, <3>11, <3>12 DEF TransitionsInv
  <2> QED
    BY <2>1, <2>2
<1> QED
  BY <1>1, <1>2, <1>3, <1>4, <1>5 DEF RegistryNext, registryVars, SaveArtifact, PredictInShadow,
     FlushPrediction, CommitCategorization, CategorizationDies, GoesOn

\* A realm never has two models in shadow: what a step puts there was alone there
\* before, whatever the requests have seen of each other.
LEMMA AtMostOneNext ==
  TransitionsInv /\ AtMostOne /\ [RegistryNext]_registryVars => AtMostOne'
<1> SUFFICES ASSUME TransitionsInv, AtMostOne, [RegistryNext]_registryVars PROVE AtMostOne'
  OBVIOUS
<1>1. CASE UNCHANGED model
  BY <1>1 DEF AtMostOne, InShadow
<1>2. ASSUME NEW m \in Models, NEW hash \in 0..MaxSaves, RegisterModel(m, hash)
      PROVE  AtMostOne'
  <2>1. InShadow' \subseteq InShadow
    BY <1>2 DEF RegisterModel, InShadow, TransitionsInv
  <2> QED
    BY <2>1 DEF AtMostOne
<1>3. ASSUME NEW q \in Moves, WriteStatus(q)
      PROVE  AtMostOne'
  <2> DEFINE m == move[q].of
             new == [move[q].loaded EXCEPT !.status = move[q].target]
  <2>0. new.status = move[q].target
    BY DEF TransitionsInv, MoveRecord, ModelRow
  <2>1. CASE IndexRefuses(m, new.status)
    BY <1>1, <1>3, <2>1 DEF WriteStatus
  <2>2. CASE ~IndexRefuses(m, new.status)
    <3>1. /\ m \in Models
          /\ model' = [model EXCEPT ![m] = [status |-> move[q].target, hash |-> @.hash]]
      BY <1>3, <2>2, WriteStatusEffect DEF Registered
    <3>2. /\ \A n \in Models : n # m => model'[n] = model[n]
          /\ model'[m].status = move[q].target
      BY <3>1 DEF TransitionsInv
    <3>3. CASE move[q].target = "SHADOW"
      <4>1. InShadow \subseteq {m}
        BY <2>0, <2>2, <3>3 DEF IndexRefuses
      <4>2. InShadow' \subseteq {m}
        BY <3>2, <4>1 DEF InShadow
      <4> QED
        BY <4>2 DEF AtMostOne
    <3>4. CASE move[q].target # "SHADOW"
      <4>1. InShadow' \subseteq InShadow
        BY <3>2, <3>4 DEF InShadow
      <4> QED
        BY <4>1 DEF AtMostOne
    <3> QED
      BY <3>3, <3>4
  <2> QED
    BY <2>1, <2>2
<1> QED
  BY <1>1, <1>2, <1>3 DEF RegistryNext, registryVars, SaveArtifact, ReadModel, CheckShadow,
     PredictInShadow, FlushPrediction, CommitCategorization, CategorizationDies, GoesOn

\* A set whose members are all the same has at most one.
LEMMA OneIsEnough == AtMostOne => OneShadow
<1> SUFFICES ASSUME AtMostOne PROVE Cardinality(InShadow) <= 1
  BY DEF OneShadow
<1>1. CASE InShadow = {}
  BY <1>1, FS_EmptySet
<1>2. CASE InShadow # {}
  <2>1. PICK m \in InShadow : InShadow = {m}
    BY <1>2 DEF AtMostOne
  <2> QED
    BY <2>1, FS_Singleton
<1> QED
  BY <1>1, <1>2

\* A realm has one model in shadow at most (registry/service.py:192 and the partial
\* index behind it), for any number of concurrent activations.
THEOREM OneShadowHolds == RegistrySpec => []OneShadow
<1>1. RegistryInit => TransitionsInv /\ AtMostOne
  BY TransitionsInvInit DEF RegistryInit, AtMostOne, InShadow, Unregistered, NoStatus
<1>2. /\ TransitionsInv /\ AtMostOne /\ [RegistryNext]_registryVars
      => (TransitionsInv /\ AtMostOne)'
  BY TransitionsInvNext, AtMostOneNext
<1>3. TransitionsInv /\ AtMostOne => OneShadow
  BY OneIsEnough
<1> QED
  BY <1>1, <1>2, <1>3, PTL DEF RegistrySpec

\* The latest event of a model names its status, follows the table and continues
\* the event before it unless its request was overtaken (registry/service.py:178-239).
THEOREM EventsExplainStatusHolds == RegistrySpec => []EventsExplainStatus
<1>1. TransitionsInv => EventsExplainStatus
  BY DEF TransitionsInv
<1> QED
  BY <1>1, TransitionsInvInit, TransitionsInvNext, PTL DEF RegistrySpec

\* A shadow dooms its caller's session only by repeating a prediction that is
\* stored (inference/shadow.py:141): predictions are never taken back.
THEOREM ShadowCostsOnlyRepeatsHolds == RegistrySpec => []ShadowCostsOnlyRepeats
<1> DEFINE Inv == ShadowCostsOnlyRepeats /\ shadow \in [Shadows -> ShadowRecord]
<1>1. RegistryInit => Inv
  BY DEF RegistryInit, ShadowCostsOnlyRepeats, NewShadow, ShadowRecord
<1>2. Inv /\ [RegistryNext]_registryVars => Inv'
  <2> SUFFICES ASSUME Inv, [RegistryNext]_registryVars PROVE Inv'
    OBVIOUS
  <2>1. CASE UNCHANGED <<shadow, predicted>>
    BY <2>1 DEF ShadowCostsOnlyRepeats
  <2>2. ASSUME NEW s \in Shadows, PredictInShadow(s) PROVE Inv'
    BY <2>2 DEF PredictInShadow, GoesOn, ShadowCostsOnlyRepeats, ShadowRecord, InShadow
  <2>3. ASSUME NEW s \in Shadows, FlushPrediction(s) PROVE Inv'
    <3>0. shadow[s] \in ShadowRecord
      OBVIOUS
    <3>1. PICK pc : /\ pc = IF IdentityTaken(shadow[s].of) THEN "doomed" ELSE "stored"
                    /\ shadow' = [shadow EXCEPT ![s] = [shadow[s] EXCEPT !.pc = pc]]
      BY <2>3 DEF FlushPrediction, GoesOn
    <3>2. shadow'[s].of = shadow[s].of /\ UNCHANGED predicted
      BY <2>3, <3>0, <3>1 DEF FlushPrediction, ShadowRecord
    <3>3. shadow'[s].pc = "doomed" => IdentityTaken(shadow[s].of)
      BY <2>3, <3>0, <3>1 DEF FlushPrediction, ShadowRecord
    <3> QED
      BY <3>0, <3>1, <3>2, <3>3 DEF ShadowCostsOnlyRepeats, IdentityTaken, ShadowRecord
  <2>4. ASSUME NEW s \in Shadows, CommitCategorization(s) PROVE Inv'
    BY <2>4 DEF CommitCategorization, GoesOn, ShadowCostsOnlyRepeats, NewShadow, ShadowRecord
  <2>5. ASSUME NEW s \in Shadows, CategorizationDies(s) PROVE Inv'
    BY <2>5 DEF CategorizationDies, GoesOn, ShadowCostsOnlyRepeats, NewShadow, ShadowRecord
  <2> QED
    BY <2>1, <2>2, <2>3, <2>4, <2>5 DEF RegistryNext, registryVars, SaveArtifact,
       RegisterModel, ReadModel, CheckShadow, WriteStatus
<1>3. Inv => ShadowCostsOnlyRepeats
  OBVIOUS
<1> QED
  BY <1>1, <1>2, <1>3, PTL DEF RegistrySpec

\* The rest of the types: a shadow run under way is of a registered model.
ShadowsInv ==
    /\ shadow \in [Shadows -> ShadowRecord]
    /\ \A s \in Shadows : shadow[s].pc # "idle" => shadow[s].of \in Models
    /\ predicted \subseteq Models
    /\ artifact \in 0..MaxSaves

LEMMA ShadowsInvNext == ShadowsInv /\ [RegistryNext]_registryVars => ShadowsInv'
<1> SUFFICES ASSUME ShadowsInv, [RegistryNext]_registryVars PROVE ShadowsInv'
  OBVIOUS
<1> USE DEF ShadowsInv
<1>1. CASE UNCHANGED <<artifact, shadow, predicted>>
  BY <1>1
<1>2. CASE SaveArtifact
  BY <1>2, RegistryAssumption DEF SaveArtifact
<1>3. ASSUME NEW s \in Shadows, PredictInShadow(s) PROVE ShadowsInv'
  BY <1>3 DEF PredictInShadow, GoesOn, ShadowRecord, InShadow
<1>4. ASSUME NEW s \in Shadows, FlushPrediction(s) PROVE ShadowsInv'
  <2>1. PICK pc \in {"doomed", "stored"} :
           shadow' = [shadow EXCEPT ![s] = [shadow[s] EXCEPT !.pc = pc]]
    BY <1>4 DEF FlushPrediction, GoesOn
  <2>2. /\ shadow[s] \in ShadowRecord /\ shadow[s].of \in Models
        /\ UNCHANGED <<predicted, artifact>>
    BY <1>4 DEF FlushPrediction, GoesOn
  <2>3. /\ [shadow[s] EXCEPT !.pc = pc] \in ShadowRecord
        /\ [shadow[s] EXCEPT !.pc = pc].of = shadow[s].of
    BY <2>2 DEF ShadowRecord
  <2> QED
    BY <2>1, <2>2, <2>3
<1>5. ASSUME NEW s \in Shadows, CommitCategorization(s) PROVE ShadowsInv'
  BY <1>5 DEF CommitCategorization, GoesOn, NewShadow, ShadowRecord
<1>6. ASSUME NEW s \in Shadows, CategorizationDies(s) PROVE ShadowsInv'
  BY <1>6 DEF CategorizationDies, GoesOn, NewShadow, ShadowRecord
<1> QED
  BY <1>1, <1>2, <1>3, <1>4, <1>5, <1>6 DEF RegistryNext, registryVars,
     RegisterModel, ReadModel, CheckShadow, WriteStatus

\* The variables of the registry keep their types: rows and events are of known
\* statuses, a prediction is of a model (ml/registry/service.py, ml/inference).
THEOREM RegistryTypeCorrect == RegistrySpec => []RegistryTypeOK
<1>1. RegistryInit => TransitionsInv /\ ShadowsInv
  BY TransitionsInvInit, RegistryAssumption
     DEF RegistryInit, ShadowsInv, NewShadow, ShadowRecord
<1>2. TransitionsInv /\ ShadowsInv => RegistryTypeOK
  BY DEF TransitionsInv, ShadowsInv, RegistryTypeOK, MoveRecord, ShadowRecord
<1> QED
  BY <1>1, <1>2, TransitionsInvNext, ShadowsInvNext, PTL DEF RegistrySpec

-----------------------------------------------------------------------------
(* The engine.                                                             *)

RuleRow == [shape : Shapes, target : Targets, stop : BOOLEAN]
Vendors == {NormalizeVendor(name) : name \in Names} \cup {NoName}
VendorRow == [target : Targets \cup {NoTarget}, vendor : Vendors,
              approvals : 0..MaxVotes, rejections : 0..MaxVotes]
EngineRow == [pc : {"idle", "run", "ended"}, left : Int,
              session : {"clean", "dirty", "doomed"}, total : Nat, failed : Nat,
              recategorize : BOOLEAN]

\* A session that is still clean has stored nothing.
EngineInv ==
    /\ rules \in Seq(RuleRow) /\ Len(rules) <= MaxRules
    /\ mapping \in VendorRow
    /\ engineRun \in EngineRow
    /\ engineRun.session = "clean" => engineRun.total = 0
    /\ runTable \in [completed : Nat, stored : {0}]
    /\ result.target \in Targets \cup {NoTarget}
    /\ EverythingIsReviewed
    /\ FirstRuleLeads

-----------------------------------------------------------------------------
(* Scores.                                                                 *)

LEMMA OfTwo ==
  ASSUME NEW a \in Int, NEW b \in Int
  PROVE  /\ Min({a, b}) = IF a <= b THEN a ELSE b
         /\ Max({a, b}) = IF a >= b THEN a ELSE b
<1>1. Min({a, b}) = IF a <= b THEN a ELSE b
  <2> DEFINE m == IF a <= b THEN a ELSE b
  <2>1. m \in {a, b} /\ \A y \in {a, b} : m <= y
    OBVIOUS
  <2>2. \A x \in {a, b} : (\A y \in {a, b} : x <= y) => x = m
    OBVIOUS
  <2> HIDE DEF m
  <2>3. Min({a, b}) = m
    BY <2>1, <2>2 DEF Min
  <2> QED
    BY <2>3 DEF m
<1>2. Max({a, b}) = IF a >= b THEN a ELSE b
  <2> DEFINE m == IF a >= b THEN a ELSE b
  <2>1. m \in {a, b} /\ \A y \in {a, b} : m >= y
    OBVIOUS
  <2>2. \A x \in {a, b} : (\A y \in {a, b} : x >= y) => x = m
    OBVIOUS
  <2> HIDE DEF m
  <2>3. Max({a, b}) = m
    BY <2>1, <2>2 DEF Max
  <2> QED
    BY <2>3 DEF m
<1> QED
  BY <1>1, <1>2

\* A rule has 65, or 50 among rules that disagree.
LEMMA RuleScore ==
  ASSUME NEW conflict \in BOOLEAN
  PROVE  CalculateScore(TRUE, 0, conflict) = IF conflict THEN 50 ELSE 65
<1>1. Max({0, 55 + 0 + 10 - 15}) = 50 /\ Min({100, 50}) = 50 /\ Min({100, 65}) = 65
  BY OfTwo
<1> QED
  BY <1>1 DEF CalculateScore

\* A history alone has 35 at most.
LEMMA HistoryScore ==
  ASSUME NEW history \in Int, NEW conflict \in BOOLEAN
  PROVE  CalculateScore(FALSE, history, conflict) \in 0..35
<1> DEFINE part == IF history > 0 THEN Min({history, 25}) ELSE 0
           sum  == 0 + part + 10
           net  == IF conflict THEN Max({0, sum - 15}) ELSE sum
<1>1. part \in 0..25
  <2>1. Min({history, 25}) = IF history <= 25 THEN history ELSE 25
    BY OfTwo
  <2> QED
    BY <2>1
<1> HIDE DEF part
<1>2. sum \in 10..35
  BY <1>1
<1> HIDE DEF sum
<1>3. net \in 0..35
  <2> DEFINE less == sum - 15
  <2>1. less \in Int /\ less <= 20
    BY <1>2
  <2> HIDE DEF less
  <2>2. Max({0, less}) = IF 0 >= less THEN 0 ELSE less
    BY <2>1, OfTwo
  <2> QED
    BY <1>2, <2>1, <2>2 DEF less
<1> HIDE DEF net
<1>4. Min({100, net}) = net
  <2>1. Min({100, net}) = IF 100 <= net THEN 100 ELSE net
    BY <1>3, OfTwo
  <2> QED
    BY <1>3, <2>1
<1>5. CalculateScore(FALSE, history, conflict) = Min({100, net})
  BY DEF CalculateScore, net, sum, part
<1> QED
  BY <1>3, <1>4, <1>5

LEMMA RatioType == EngineInv => HistoryRatio \in Int
<1> SUFFICES ASSUME EngineInv PROVE HistoryRatio \in Int
  OBVIOUS
<1>1. mapping.approvals \in Nat /\ mapping.rejections \in Nat
  BY DEF EngineInv, VendorRow
<1> DEFINE all == Max({1, mapping.approvals + mapping.rejections})
<1>2. all \in Nat \ {0}
  <2> DEFINE n == mapping.approvals + mapping.rejections
  <2>1. n \in Nat /\ n \in Int /\ 1 \in Int
    BY <1>1
  <2> HIDE DEF n
  <2>2. Max({1, n}) = IF 1 >= n THEN 1 ELSE n
    BY <2>1, OfTwo
  <2> QED
    BY <2>1, <2>2 DEF n
<1> HIDE DEF all
<1>3. (mapping.approvals * 100) \div all \in Int
  BY <1>1, <1>2
<1> QED
  BY <1>3 DEF HistoryRatio, all

-----------------------------------------------------------------------------
(* Candidates.                                                             *)

LEMMA RuleFacts ==
  ASSUME EngineInv, NEW i \in DOMAIN rules
  PROVE  i \in Nat /\ i <= Len(rules) /\ rules[i].target \in Targets
<1>1. rules[i] \in RuleRow /\ i \in 1..Len(rules) /\ Len(rules) \in Nat
  BY DEF EngineInv
<1> QED
  BY <1>1 DEF RuleRow

\* The points of every rule that matches.
Lead(txn) ==
    CalculateScore(TRUE, 0, /\ Cardinality(Matching(txn)) > 1
                            /\ Cardinality({rules[i].target : i \in Matching(txn)}) > 1)

\* A candidate of a rule has the rule's place for its rank and more points than
\* the one of the history, which is the last.
LEMMA CandidateFacts ==
  ASSUME EngineInv, NEW txn
  PROVE  /\ Lead(txn) \in {50, 65}
         /\ \A i \in Matching(txn) :
               [target |-> rules[i].target, source |-> "USER_RULE", rank |-> i,
                score |-> Lead(txn)] \in Candidates(txn)
         /\ \A c \in Candidates(txn) :
               /\ c.target \in Targets \cup {NoTarget} /\ c.rank \in Nat
               /\ \/ /\ c.rank \in Matching(txn) /\ c.score = Lead(txn)
                     /\ c.target = rules[c.rank].target
                  \/ c.rank = Len(rules) + 1 /\ c.score \in 0..35
         /\ \A c, d \in Candidates(txn) : c.rank = d.rank => c = d
<1> DEFINE matches == Matching(txn)
           targets == {rules[i].target : i \in matches}
           conflict == Cardinality(matches) > 1 /\ Cardinality(targets) > 1
           lead == CalculateScore(TRUE, 0, conflict)
           rule(i) == [target |-> rules[i].target, source |-> "USER_RULE", rank |-> i,
                       score |-> lead]
           past == [target |-> mapping.target, source |-> "APPROVED_HISTORY",
                    rank |-> Len(rules) + 1,
                    score |-> CalculateScore(FALSE, HistoryRatio, conflict)]
           known == /\ txn.vendor.core # "" /\ mapping.target # NoTarget
                    /\ mapping.vendor = NormalizeVendor(txn.vendor)
                    /\ mapping.approvals >= 2 /\ mapping.target \notin targets
<1>1. Candidates(txn) = {rule(i) : i \in matches} \cup (IF known THEN {past} ELSE {})
  BY DEF Candidates
<1>2. conflict \in BOOLEAN
  OBVIOUS
<1> HIDE DEF conflict, known
<1>3. lead \in {50, 65} /\ CalculateScore(FALSE, HistoryRatio, conflict) \in 0..35
  BY <1>2, RuleScore, HistoryScore, RatioType
<1> HIDE DEF lead
<1>4. past.target \in Targets \cup {NoTarget} /\ past.rank = Len(rules) + 1 /\ past.score \in 0..35
  BY <1>3 DEF EngineInv, VendorRow
<1> HIDE DEF past
<1>5. ASSUME NEW i \in matches
      PROVE  /\ i \in Nat /\ i <= Len(rules) /\ rules[i].target \in Targets
  BY RuleFacts DEF Matching
<1>6. ASSUME NEW i \in matches
      PROVE  /\ rule(i).target = rules[i].target /\ rule(i).rank = i /\ rule(i).score = lead
  OBVIOUS
<1>7. Len(rules) \in Nat
  BY DEF EngineInv
<1> HIDE DEF matches
<1>8. \A i \in matches : rule(i) \in Candidates(txn)
  BY <1>1
<1>9. \A c \in Candidates(txn) : (\E i \in matches : c = rule(i)) \/ c = past
  BY <1>1
<1> HIDE DEF rule
<1>10. ASSUME NEW c \in Candidates(txn)
       PROVE  /\ c.target \in Targets \cup {NoTarget} /\ c.rank \in Nat
              /\ \/ /\ c.rank \in matches /\ c.score = lead /\ c = rule(c.rank)
                    /\ c.target = rules[c.rank].target
                 \/ /\ c.rank = Len(rules) + 1 /\ c.score \in 0..35 /\ c = past
  <2>1. CASE \E i \in matches : c = rule(i)
    <3>1. PICK i \in matches : c = rule(i)
      BY <2>1
    <3> QED
      BY <1>5, <1>6, <3>1
  <2>2. CASE c = past
    BY <1>4, <1>7, <2>2
  <2> QED
    BY <1>9, <2>1, <2>2
<1>11. \A c, d \in Candidates(txn) : c.rank = d.rank => c = d
  <2> SUFFICES ASSUME NEW c \in Candidates(txn), NEW d \in Candidates(txn), c.rank = d.rank
               PROVE  c = d
    OBVIOUS
  <2>1. Len(rules) + 1 \notin matches
    BY <1>5, <1>7
  <2> QED
    BY <1>10, <2>1
<1>12. lead = Lead(txn)
  BY DEF lead, conflict, matches, Lead
<1>13. \A i \in matches :
          [target |-> rules[i].target, source |-> "USER_RULE", rank |-> i, score |-> lead]
             \in Candidates(txn)
  BY <1>8 DEF rule
<1> QED
  BY <1>3, <1>10, <1>11, <1>12, <1>13 DEF matches

LEMMA BestIsFirst ==
  ASSUME EngineInv, NEW txn, Candidates(txn) # {}
  PROVE  /\ Best(Candidates(txn)) \in Candidates(txn)
         /\ \A d \in Candidates(txn) \ {Best(Candidates(txn))} : Before(Best(Candidates(txn)), d)
<1> DEFINE C == Candidates(txn)
<1>1. \A c \in C : c.score \in 0..65 /\ c.rank \in Nat
  BY CandidateFacts
<1>2. \A c, d \in C : c.rank = d.rank => c = d
  BY CandidateFacts
<1> HIDE DEF C
<1> DEFINE D == {65 - c.score : c \in C}
<1>3. D \subseteq Nat /\ D # {}
  BY <1>1 DEF C
<1>4. PICK x \in D : \A y \in D : x <= y
  <2> HIDE DEF D
  <2> QED
    BY <1>3, LeastNumber
<1>5. PICK top \in C : x = 65 - top.score
  OBVIOUS
<1>6. \A c \in C : c.score <= top.score
  <2> SUFFICES ASSUME NEW c \in C PROVE c.score <= top.score
    OBVIOUS
  <2>1. x <= 65 - c.score
    BY <1>4
  <2> QED
    BY <1>1, <1>5, <2>1
<1> DEFINE R == {c.rank : c \in {d \in C : d.score = top.score}}
<1>7. R \subseteq Nat /\ R # {}
  BY <1>1
<1>8. PICK r \in R : \A y \in R : r <= y
  <2> HIDE DEF R
  <2> QED
    BY <1>7, LeastNumber
<1>9. PICK b \in C : b.score = top.score /\ b.rank = r
  OBVIOUS
<1>10. \A d \in C \ {b} : Before(b, d)
  <2> SUFFICES ASSUME NEW d \in C \ {b} PROVE Before(b, d)
    OBVIOUS
  <2>1. d.score = top.score => r <= d.rank
    BY <1>8
  <2>2. d.rank # b.rank
    BY <1>2
  <2> QED
    BY <1>1, <1>6, <1>9, <2>1, <2>2 DEF Before
<1>11. Best(C) \in C /\ \A d \in C \ {Best(C)} : Before(Best(C), d)
  BY <1>10 DEF Best
<1> QED
  BY <1>11 DEF C

\* The best candidate is far from every threshold.
LEMMA BestIsLow ==
  ASSUME EngineInv, NEW txn, Candidates(txn) # {}
  PROVE  /\ Best(Candidates(txn)).target \in Targets \cup {NoTarget}
         /\ ScoreToBand(Best(Candidates(txn)).score) # "HIGH"
         /\ ~GatePasses(Candidates(txn))
<1> DEFINE b == Best(Candidates(txn))
<1>1. b \in Candidates(txn)
  BY BestIsFirst
<1>2. b.target \in Targets \cup {NoTarget} /\ b.score \in 0..65
  BY <1>1, CandidateFacts
<1>3. ScoreToBand(b.score) # "HIGH"
  BY <1>2 DEF ScoreToBand
<1>4. ~GatePasses(Candidates(txn))
  BY <1>2 DEF GatePasses
<1> QED
  BY <1>2, <1>3, <1>4

\* With a rule that matches, the first one is the best.
LEMMA FirstIsBest ==
  ASSUME EngineInv, NEW txn, Matching(txn) # {}
  PROVE  /\ Candidates(txn) # {}
         /\ Best(Candidates(txn)).target = rules[Min(Matching(txn))].target
<1> DEFINE M == Matching(txn)
           C == Candidates(txn)
           lead == Lead(txn)
           rule(i) == [target |-> rules[i].target, source |-> "USER_RULE", rank |-> i,
                       score |-> lead]
<1>1. M \subseteq Nat
  BY RuleFacts DEF Matching
<1>2. /\ lead \in {50, 65}
      /\ \A i \in M : rule(i) \in C
      /\ \A c \in C : \/ c.rank \in M /\ c.score = lead /\ c.target = rules[c.rank].target
                      \/ c.score \in 0..35
  BY CandidateFacts
<1> HIDE DEF lead, M, C
<1>3. Min(M) \in M /\ \A i \in M : Min(M) <= i
  <2>1. \E m \in M : \A i \in M : m <= i
    BY <1>1, LeastNumber DEF M
  <2> QED
    BY <2>1 DEF Min
<1> DEFINE m == Min(M)
           first == rule(m)
<1>4. first.rank = m /\ first.score = lead /\ first.target = rules[m].target
  OBVIOUS
<1>5. first \in C
  BY <1>2, <1>3
<1>6. m \in M /\ m \in Nat /\ \A i \in M : m <= i
  BY <1>1, <1>3
<1> HIDE DEF rule, first, m
<1>7. Best(C) \in C /\ \A d \in C \ {Best(C)} : Before(Best(C), d)
  BY <1>5, BestIsFirst DEF C
<1>8. Best(C) = first \/ Before(Best(C), first)
  BY <1>5, <1>7
<1>9. Best(C).target = rules[m].target
  <2>1. CASE Best(C) = first
    BY <1>4, <2>1
  <2>2. CASE Before(Best(C), first)
    <3>1. Best(C).score > lead \/ (Best(C).score = lead /\ Best(C).rank < m)
      BY <1>4, <2>2 DEF Before
    <3>2. CASE Best(C).score \in 0..35
      BY <1>2, <3>1, <3>2
    <3>3. CASE Best(C).rank \in M /\ Best(C).score = lead
      <4>1. Best(C).rank < m
        BY <1>2, <3>1, <3>3
      <4>2. m <= Best(C).rank /\ Best(C).rank \in Nat
        BY <1>1, <1>6, <3>3
      <4> QED
        BY <1>6, <4>1, <4>2
    <3> QED
      BY <1>2, <1>7, <3>2, <3>3
  <2> QED
    BY <1>8, <2>1, <2>2
<1> QED
  BY <1>5, <1>9 DEF C, m, M

-----------------------------------------------------------------------------
(* The steps.                                                              *)

LEMMA WhatIsAnswered ==
  ASSUME EngineInv, NEW txn, NEW existing \in Existing, NEW recategorize
  PROVE  LET a == CategorizeTransaction(txn, existing, recategorize) IN
         /\ DOMAIN a = {"status", "target", "candidates"}
         /\ a.status \notin {"PRESELECTED", "RECOMMENDED"}
         /\ a.target \in Targets \cup {NoTarget}
         /\ a.candidates # {} => a.target = Best(Candidates(txn)).target
<1>1. existing.status \notin {"PRESELECTED", "RECOMMENDED"}
      /\ existing.target \in Targets \cup {NoTarget}
  BY DEF Existing
<1> DEFINE cs == Candidates(txn)
           answer(status, target) == [status |-> status, target |-> target, candidates |-> {}]
<1>2. CASE txn.type \notin Eligible
  BY <1>2 DEF CategorizeTransaction
<1>3. CASE txn.type \in Eligible /\ ~recategorize /\ existing.status \in Decided
  BY <1>1, <1>3 DEF CategorizeTransaction
<1>4. CASE txn.type \in Eligible /\ ~(~recategorize /\ existing.status \in Decided) /\ cs = {}
  BY <1>4 DEF CategorizeTransaction
<1>5. CASE txn.type \in Eligible /\ ~(~recategorize /\ existing.status \in Decided) /\ cs # {}
  <2>1. CategorizeTransaction(txn, existing, recategorize)
        = [status |-> IF GatePasses(cs) THEN "PRESELECTED"
                      ELSE IF ScoreToBand(Best(cs).score) = "HIGH" THEN "RECOMMENDED"
                      ELSE "NEEDS_REVIEW",
           target |-> Best(cs).target, candidates |-> cs]
    BY <1>5 DEF CategorizeTransaction
  <2>2. /\ Best(cs).target \in Targets \cup {NoTarget}
        /\ ScoreToBand(Best(cs).score) # "HIGH" /\ ~GatePasses(cs)
    BY <1>5, BestIsLow
  <2> HIDE DEF cs
  <2>3. CategorizeTransaction(txn, existing, recategorize)
        = [status |-> "NEEDS_REVIEW", target |-> Best(cs).target, candidates |-> cs]
    BY <2>1, <2>2
  <2> QED
    BY <2>2, <2>3 DEF cs
<1> QED
  BY <1>2, <1>3, <1>4, <1>5

LEMMA NoRunFacts == NoRun \in EngineRow /\ NoRun.total = 0
  BY DEF NoRun, EngineRow

LEMMA EngineInvInit == EngineInit => EngineInv
<1> SUFFICES ASSUME EngineInit PROVE EngineInv
  OBVIOUS
<1>1. {MaxRules, MaxVotes, MaxRun} \subseteq Nat
  BY EngineAssumption
<1>2. rules \in Seq(RuleRow) /\ Len(rules) <= MaxRules
  BY <1>1 DEF EngineInit
<1>3. mapping \in VendorRow
  BY <1>1 DEF EngineInit, VendorRow, Vendors
<1>4. engineRun \in EngineRow /\ engineRun.total = 0
  BY DEF EngineInit, NoRun, EngineRow
<1>5. /\ result.target = NoTarget /\ result.status = "none" /\ result.candidates = {}
      /\ runTable \in [completed : Nat, stored : {0}]
  BY DEF EngineInit, NoResult
<1> QED
  BY <1>2, <1>3, <1>4, <1>5 DEF EngineInv, EverythingIsReviewed, FirstRuleLeads

LEMMA CreateRuleKeeps ==
  ASSUME EngineInv, NEW shape \in Shapes, NEW target \in Targets, NEW stop \in BOOLEAN,
         CreateRule(shape, target, stop)
  PROVE  EngineInv'
<1>1. /\ rules \in Seq(RuleRow) /\ Len(rules) < MaxRules /\ Len(rules) \in Nat /\ MaxRules \in Nat
      /\ UNCHANGED <<mapping, engineRun, result, runTable>>
  BY EngineAssumption DEF EngineInv, CreateRule
<1> DEFINE row == [shape |-> shape, target |-> target, stop |-> stop]
<1>2. PICK i \in 1..(Len(rules) + 1) : rules' = InsertAt(rules, i, row)
  BY DEF CreateRule
<1>3. row \in RuleRow
  BY DEF RuleRow
<1> HIDE DEF row
<1>4. rules' = SubSeq(rules, 1, i - 1) \o <<row>> \o SubSeq(rules, i, Len(rules))
  BY <1>2 DEF InsertAt
<1> DEFINE front == SubSeq(rules, 1, i - 1)
           back == SubSeq(rules, i, Len(rules))
<1>5. front \in Seq(RuleRow) /\ Len(front) = i - 1
  BY <1>1, SubSeqProperties
<1>6. back \in Seq(RuleRow) /\ Len(back) = Len(rules) - i + 1
  BY <1>1, SubSeqProperties
<1> HIDE DEF front, back
<1>7. rules' \in Seq(RuleRow) /\ Len(rules') = Len(rules) + 1
  <2>1. <<row>> \in Seq(RuleRow) /\ Len(<<row>>) = 1
    BY <1>3
  <2>2. front \o <<row>> \in Seq(RuleRow) /\ Len(front \o <<row>>) = i
    BY <1>5, <2>1
  <2> DEFINE most == front \o <<row>>
  <2>3. rules' = most \o back
    BY <1>4 DEF front, back
  <2>4. most \in Seq(RuleRow) /\ Len(most) = i
    BY <2>2
  <2> HIDE DEF most
  <2>5. most \o back \in Seq(RuleRow) /\ Len(most \o back) = i + Len(back)
    BY <1>6, <2>4
  <2> QED
    BY <1>1, <1>6, <2>3, <2>5
<1> QED
  BY <1>1, <1>7 DEF EngineInv, EverythingIsReviewed, FirstRuleLeads

LEMMA UpsertKeeps ==
  ASSUME EngineInv, NEW name \in Names, NEW target \in Targets,
         UpsertVendorMapping(name, target)
  PROVE  EngineInv'
<1>1. /\ mapping \in VendorRow /\ mapping.approvals + mapping.rejections < MaxVotes
      /\ UNCHANGED <<rules, engineRun, result, runTable>> /\ MaxVotes \in Nat
  BY EngineAssumption DEF EngineInv, UpsertVendorMapping
<1>2. /\ mapping.approvals \in Nat /\ mapping.rejections \in Nat
      /\ mapping.approvals + 1 \in 0..MaxVotes /\ mapping.rejections + 1 \in 0..MaxVotes
      /\ 1 \in 0..MaxVotes /\ 0 \in 0..MaxVotes
  BY <1>1 DEF VendorRow
<1>3. NormalizeVendor(name) \in Vendors
  BY DEF Vendors
<1>4. mapping' \in VendorRow
  <2>1. \/ mapping' = [target |-> target, vendor |-> NormalizeVendor(name),
                       approvals |-> 1, rejections |-> 0]
        \/ mapping' = [mapping EXCEPT !.approvals = mapping.approvals + 1]
        \/ mapping' = [mapping EXCEPT !.rejections = mapping.rejections + 1]
    BY <1>1 DEF UpsertVendorMapping, VendorRow
  <2> HIDE DEF NormalizeVendor
  <2>2. CASE mapping' = [target |-> target, vendor |-> NormalizeVendor(name),
                         approvals |-> 1, rejections |-> 0]
    BY <1>2, <1>3, <2>2 DEF VendorRow
  <2>3. CASE mapping' = [mapping EXCEPT !.approvals = mapping.approvals + 1]
    BY <1>1, <1>2, <2>3 DEF VendorRow
  <2>4. CASE mapping' = [mapping EXCEPT !.rejections = mapping.rejections + 1]
    BY <1>1, <1>2, <2>4 DEF VendorRow
  <2> QED
    BY <2>1, <2>2, <2>3, <2>4
<1> QED
  BY <1>1, <1>4 DEF EngineInv, EverythingIsReviewed, FirstRuleLeads

LEMMA RunTransactionKeeps ==
  ASSUME EngineInv, NEW txn, NEW existing \in Existing, RunTransaction(txn, existing)
  PROVE  EngineInv'
<1> DEFINE a == CategorizeTransaction(txn, existing, engineRun.recategorize)
           doomed == engineRun.session # "clean"
           after == IF doomed THEN "doomed" ELSE SessionAfter(existing, a)
           fails == after = "doomed"
           first == IF Matching(txn) = {} THEN NoTarget ELSE rules[Min(Matching(txn))].target
           next == [engineRun EXCEPT !.left = @ - 1, !.session = after,
                                     !.failed = @ + (IF fails THEN 1 ELSE 0),
                                     !.total = @ + (IF fails THEN 0 ELSE 1)]
<1>1. /\ result' = IF doomed /\ txn.type \in Eligible THEN NoResult
                   ELSE [status |-> a.status, target |-> a.target,
                         candidates |-> a.candidates, first |-> first]
      /\ engineRun' = next
      /\ UNCHANGED <<rules, mapping, runTable>>
  BY DEF RunTransaction
<1>2. /\ a.status \notin {"PRESELECTED", "RECOMMENDED"} /\ a.target \in Targets \cup {NoTarget}
      /\ a.candidates # {} => a.target = Best(Candidates(txn)).target
  BY WhatIsAnswered
<1>3. Matching(txn) # {} => Best(Candidates(txn)).target = first
  BY FirstIsBest
<1>4. after \in {"dirty", "doomed"}
  BY DEF SessionAfter
<1>5. first = NoTarget \/ Matching(txn) # {}
  OBVIOUS
<1> HIDE DEF a, after, first
<1>6. engineRun' \in EngineRow /\ engineRun'.session # "clean"
  <2>1. /\ engineRun \in EngineRow /\ engineRun.left - 1 \in Int
        /\ engineRun.failed + (IF fails THEN 1 ELSE 0) \in Nat
        /\ engineRun.total + (IF fails THEN 0 ELSE 1) \in Nat
    BY DEF EngineInv, EngineRow
  <2> QED
    BY <1>1, <1>4, <2>1 DEF EngineRow
<1>7. /\ result'.target \in Targets \cup {NoTarget}
      /\ result'.status \notin {"PRESELECTED", "RECOMMENDED"}
      /\ result'.candidates # {} /\ result'.first # NoTarget => result'.target = result'.first
  <2>1. CASE doomed /\ txn.type \in Eligible
    BY <1>1, <2>1 DEF NoResult
  <2>2. CASE ~(doomed /\ txn.type \in Eligible)
    BY <1>1, <1>2, <1>3, <1>5, <2>2
  <2> QED
    BY <2>1, <2>2
<1> QED
  BY <1>1, <1>6, <1>7 DEF EngineInv, EverythingIsReviewed, FirstRuleLeads

LEMMA EngineInvNext == EngineInv /\ [EngineNext]_engineVars => EngineInv'
<1> SUFFICES ASSUME EngineInv, [EngineNext]_engineVars PROVE EngineInv'
  OBVIOUS
<1>1. CASE UNCHANGED engineVars
  BY <1>1 DEF engineVars, EngineInv, EverythingIsReviewed, FirstRuleLeads
<1>2. ASSUME NEW n \in 0..MaxRun, NEW recategorize \in BOOLEAN, StartRun(n, recategorize)
      PROVE  EngineInv'
  <2>1. /\ engineRun' = [NoRun EXCEPT !.pc = "run", !.left = n, !.recategorize = recategorize]
        /\ UNCHANGED <<rules, mapping, result, runTable>>
    BY <1>2 DEF StartRun
  <2>2. engineRun' \in EngineRow /\ engineRun'.total = 0
    <3>1. n \in Int
      BY EngineAssumption
    <3> QED
      BY <2>1, <3>1, NoRunFacts DEF EngineRow
  <2> QED
    BY <2>1, <2>2 DEF EngineInv, EverythingIsReviewed, FirstRuleLeads
<1>3. CASE CompleteRun
  <2>1. /\ engineRun' = [NoRun EXCEPT !.pc = "ended", !.session = engineRun.session]
        /\ runTable' = IF engineRun.session = "clean"
                       THEN [completed |-> runTable.completed + 1,
                             stored    |-> runTable.stored + engineRun.total]
                       ELSE runTable
        /\ result' = NoResult
        /\ UNCHANGED <<rules, mapping>>
    BY <1>3 DEF CompleteRun
  <2>2. engineRun' \in EngineRow /\ engineRun'.total = 0
    <3>1. engineRun.session \in {"clean", "dirty", "doomed"}
      BY DEF EngineInv, EngineRow
    <3> QED
      BY <2>1, <3>1, NoRunFacts DEF EngineRow
  <2>3. runTable' \in [completed : Nat, stored : {0}]
    BY <2>1 DEF EngineInv
  <2>4. result'.target = NoTarget /\ result'.status = "none" /\ result'.candidates = {}
    BY <2>1 DEF NoResult
  <2> QED
    BY <2>1, <2>2, <2>3, <2>4 DEF EngineInv, EverythingIsReviewed, FirstRuleLeads
<1> QED
  BY <1>1, <1>2, <1>3, CreateRuleKeeps, UpsertKeeps, RunTransactionKeeps DEF EngineNext

LEMMA EngineInvAlways == EngineSpec => []EngineInv
  BY EngineInvInit, EngineInvNext, PTL DEF EngineSpec

\* Rules, votes and the outcome of a run keep their types and bounds.
THEOREM EngineTypeCorrect == EngineSpec => []EngineTypeOK
<1>1. EngineInv => EngineTypeOK
  BY DEF EngineInv, EngineTypeOK, VendorRow, EngineRow
<1> QED
  BY <1>1, EngineInvAlways, PTL

\* Whatever rules and history a realm has, and whatever their number, no
\* transaction is preselected or recommended: no candidate has more than 65 points
\* (engine.py:213-240).
THEOREM EverythingIsReviewedHolds == EngineSpec => []EverythingIsReviewed
<1>1. EngineInv => EverythingIsReviewed
  BY DEF EngineInv
<1> QED
  BY <1>1, EngineInvAlways, PTL

\* The first matching rule decides, however many rules and votes disagree with it.
THEOREM FirstRuleLeadsHolds == EngineSpec => []FirstRuleLeads
<1>1. EngineInv => FirstRuleLeads
  BY DEF EngineInv
<1> QED
  BY <1>1, EngineInvAlways, PTL

\* No run ever stores the categorization of a transaction (repository.py:137-227).
THEOREM LostRunHolds == EngineSpec => []LostRun
<1>1. EngineInv => LostRun
  BY DEF EngineInv, LostRun
<1> QED
  BY <1>1, EngineInvAlways, PTL
=============================================================================
