------------------------ MODULE WorkItemReviewProofs ------------------------
(***************************************************************************)
(* Proofs about WorkItemReview, for any sets of items, requests and        *)
(* principals.  The inductive invariant is ReviewInv: next to the          *)
(* properties it says what the uncommitted writes of a request hold        *)
(* (DraftsAreFaithful), which is what Commit turns into rows, and that     *)
(* whoever has such writes owns the row lock (WritesAreLocked), which is   *)
(* why no commit can pull the row from under them.                         *)
(* SignedInv adds who signs a write in flight (OneClaim, ActorsOnRecord),  *)
(* ReportInv what a request reports of it (AllOrNothing).                  *)
(* JudgmentInv says that a draft is the effect of what was judged on the   *)
(* committed row, and so maps every commit to one of ReviewLedger          *)
(* (Refinement); with ReportInv it gives LockedStepsChain.                 *)
(***************************************************************************)
EXTENDS WorkItemReview, TLAPS

\* No status is its own successor, so a transition always changes the status
\* column.
LEMMA NoSelfLoops == \A s : <<s, s>> \notin WORK_ITEM_TRANSITIONS
  BY DEF WORK_ITEM_TRANSITIONS

\* Both ends of an edge are statuses.
LEMMA EdgeTypes ==
  ASSUME NEW s, NEW t, <<s, t>> \in WORK_ITEM_TRANSITIONS
  PROVE  s \in WorkItemStatus /\ t \in WorkItemStatus
  BY DEF WORK_ITEM_TRANSITIONS, WorkItemStatus

\* A list of one item is not a list of two.
LEMMA PairIsNotSingle == \A i, j, k : <<i, j>> # <<k>>
  <1> SUFFICES ASSUME NEW i, NEW j, NEW k, <<i, j>> = <<k>> PROVE FALSE
    OBVIOUS
  <1>1. Len(<<i, j>>) = 2 /\ Len(<<k>>) = 1
    OBVIOUS
  <1> QED
    BY <1>1

\* The item a request looks at is one of the items it names.
LEMMA ItemType ==
  ASSUME NEW r \in Requests, ask[r] \in Ask, at[r] \in DOMAIN ask[r].items
  PROVE  Item(r) \in Items
  BY DEF Item, Ask

\* What a request reads is a row.
LEMMA VisibleType ==
  ASSUME TypeOK, NEW r \in Requests, NEW i \in Items
  PROVE  Visible(r, i) \in Row
  BY DEF TypeOK, Visible

\* A transaction that wrote nothing reads the committed row.
LEMMA NoDraftFacts ==
  /\ DOMAIN NoDraft = {}
  /\ NoDraft \in [DOMAIN NoDraft -> [row : Row, entries : Seq(Entry), judged : Row]]
  BY DEF NoDraft

\* The row transition_work_item flushes is a row, its status is the target, and
\* its version is one on from the version judged.
LEMMA FlushedRow ==
  ASSUME NEW old \in Row, NEW new \in Row, NEW base \in Row,
         old.status # new.status, new.version = old.version + 1
  PROVE  /\ Flushed(old, new, base) \in Row
         /\ Flushed(old, new, base).status = new.status
         /\ Flushed(old, new, base).version = new.version
  BY DEF Flushed, Row

\* What the handler assigns to the session's object.
LEMMA AssignedRow ==
  ASSUME NEW r \in Requests, ask[r] \in Ask, ask[r].to \in WorkItemStatus,
         Judged(r) \in Row
  PROVE  /\ Assigned(r) \in Row
         /\ Assigned(r).status = ask[r].to
         /\ Assigned(r).version = Judged(r).version + 1
<1> DEFINE a == ask[r]
           esc == CASE a.kind = "escalate" -> "OPEN"
                    [] a.kind = "reopen"   -> "REOPENED"
                    [] OTHER               -> Judged(r).escalation_status
<1>1. a.by \in Principals
  BY DEF Ask
<1>2. esc \in {"NONE", "OPEN", "REOPENED"}
  <2>1. Judged(r).escalation_status \in {"NONE", "OPEN", "REOPENED"}
    BY DEF Row
  <2> QED
    BY <2>1
<1>3. Judged(r).version + 1 \in Nat
  BY DEF Row
<1> HIDE DEF esc
<1>4. Assigned(r) = [Judged(r) EXCEPT
        !.status            = a.to,
        !.version           = @ + 1,
        !.approved_by       = IF a.to = "APPROVED" THEN a.by ELSE @,
        !.assigned_reviewer = IF a.to = "IN_REVIEW" THEN a.by ELSE @,
        !.recommended       = IF a.kind = "correct" THEN r ELSE @,
        !.escalation_status = esc]
  BY DEF Assigned, Moved, esc
<1> QED
  BY <1>1, <1>2, <1>3, <1>4 DEF Row

-----------------------------------------------------------------------------
(* The initial states.                                                     *)

\* Items as they are found, without requests, satisfy the invariant.
LEMMA InitInv == Init => ReviewInv
<1> SUFFICES ASSUME Init PROVE ReviewInv
  OBVIOUS
<1> USE NoDraftFacts
<1>1. TypeOK
  <2>1. row \in [Items -> Row]
    BY ReviewAssumption DEF Init, NewRow, Row
  <2>2. log \in [Items -> Seq(Entry)]
    BY DEF Init
  <2> QED
    BY <2>1, <2>2 DEF Init, TypeOK, Working, Ended, EscalationState
<1>2. RequestsAreSound
  BY DEF Init, RequestsAreSound, RequestIsSound, Working
<1>3. WritesAreLocked /\ DraftsAreFaithful
  BY DEF Init, WritesAreLocked, DraftsAreFaithful
<1>4. RowMatchesAudit /\ AuditIsLegal
  BY DEF Init, RowMatchesAudit, AuditIsLegal
<1> QED
  BY <1>1, <1>2, <1>3, <1>4 DEF ReviewInv

-----------------------------------------------------------------------------
(* The steps that write nothing: they leave the data part alone.           *)

\* A step of r that touches neither rows nor drafts nor locks, and asks for
\* something new only where nothing is drafted, keeps the data invariants.
LEMMA DataKept ==
  ASSUME ReviewInv, UNCHANGED <<row, log, lock, draft>>,
         NEW r \in Requests,
         \A q \in Requests \ {r} : ask'[q] = ask[q],
         ask'[r] = ask[r] \/ draft[r] = NoDraft
  PROVE  /\ WritesAreLocked' /\ DraftsAreFaithful'
         /\ RowMatchesAudit' /\ AuditIsLegal'
<1>1. WritesAreLocked' /\ RowMatchesAudit' /\ AuditIsLegal'
  BY DEF ReviewInv, WritesAreLocked, RowMatchesAudit, AuditIsLegal, LegalEntry
<1>2. DraftsAreFaithful'
  <2> SUFFICES ASSUME NEW q \in Requests, NEW i \in DOMAIN draft[q]
               PROVE  DraftIsFaithful(q, i)'
    BY DEF DraftsAreFaithful
  <2>1. ask'[q] = ask[q]
    BY NoDraftFacts
  <2>2. DraftIsFaithful(q, i)
    BY DEF ReviewInv, DraftsAreFaithful
  <2> QED
    BY <2>1, <2>2 DEF DraftIsFaithful, LegalEntry
<1> QED
  BY <1>1, <1>2

\* A request that arrives holds no lock and has no draft.
LEMMA ReceiveInv ==
  ASSUME ReviewInv, NEW r \in Requests, Receive(r)
  PROVE  ReviewInv'
<1> USE DEF ReviewInv
<1> DEFINE A(kind, by, esc, to, items) ==
             [kind |-> kind, by |-> by, items |-> items, to |-> to,
              esc |-> esc]
           Asks(kind, by, esc, to, items) ==
             /\ ask' = [ask EXCEPT ![r] = A(kind, by, esc, to, items)]
             /\ pc' = [pc EXCEPT ![r] =
                         IF kind \in LockFirst \ {"reopen"} THEN "lock"
                                                            ELSE "load"]
<1> PICK kind \in Kinds, by \in Principals, esc \in Requests \cup {NoOne} :
      \E to \in TargetsOf(kind), items \in ItemLists(kind) :
         Asks(kind, by, esc, to, items)
  BY DEF Receive
<1> PICK to \in TargetsOf(kind), items \in ItemLists(kind) :
      Asks(kind, by, esc, to, items)
  OBVIOUS
<1> DEFINE a == A(kind, by, esc, to, items)
<1>1. kind \in AllKinds
  BY ReviewAssumption
<1>2. to \in WorkItemStatus \cup {NoOne} /\ (kind # "resolve" => to \in WorkItemStatus)
  BY <1>1 DEF TargetsOf, PipelineTargets, WorkItemStatus
<1>3. /\ items \in Seq(Items) /\ 1 \in DOMAIN items
      /\ kind # "batch" => Len(items) = 1
  <2>1. CASE items \in Items \X Items
    <3> PICK i \in Items, j \in Items : items = <<i, j>>
      BY <2>1
    <3> QED
      BY PairIsNotSingle DEF ItemLists
  <2>2. CASE items \notin Items \X Items
    <3> PICK i \in Items : items = <<i>>
      BY <2>2 DEF ItemLists
    <3> QED
      OBVIOUS
  <2> QED
    BY <2>1, <2>2
<1>4. a \in Ask
  BY <1>2, <1>3 DEF Ask
<1>5. pc[r] = "new" /\ draft[r] = NoDraft /\ at[r] = 1
  BY DEF Receive, RequestsAreSound, RequestIsSound, Working
<1>6. UNCHANGED <<row, log, escalation, lock, at, copy, draft, outcome>>
  BY DEF Receive
<1>7. ask'[r] = a /\ \A q \in Requests \ {r} : ask'[q] = ask[q]
  BY DEF TypeOK
<1>8. TypeOK'
  BY <1>4, <1>6 DEF TypeOK, Working
<1>9. RequestsAreSound'
  <2> SUFFICES ASSUME NEW q \in Requests
               PROVE  RequestIsSound(q)'
    BY DEF RequestsAreSound
  <2>1. CASE q # r
    BY <2>1, <1>6, <1>7 DEF RequestsAreSound, RequestIsSound, TypeOK
  <2>2. CASE q = r
    <3>1. pc'[r] = IF kind \in LockFirst \ {"reopen"} THEN "lock" ELSE "load"
      BY DEF TypeOK
    <3> QED
      BY <2>2, <3>1, <1>2, <1>3, <1>4, <1>5, <1>6, <1>7, <1>1
      DEF RequestsAreSound, RequestIsSound, Working, LockFirst, LoadFirst, TypeOK
  <2> QED
    BY <2>1, <2>2
<1> QED
  BY <1>5, <1>6, <1>7, <1>8, <1>9, DataKept

\* A step that only moves r to another place and perhaps loads its item.
LEMMA MoveInv ==
  ASSUME ReviewInv, NEW r \in Requests, NEW p, NEW c \in Row \cup {NoOne},
         pc[r] \in Working, p \in Working, p # "load", p # "flush" \/ pc[r] = "load",
         pc' = [pc EXCEPT ![r] = p],
         copy' = [copy EXCEPT ![r] = c],
         UNCHANGED <<row, log, escalation, lock, ask, at, draft, outcome>>,
         p # "commit" => pc[r] \in {"load", "flush", "lock", "write"},
         p \in {"lock", "write"} =>
             /\ ask[r].kind # "resolve"
             /\ ask[r].kind \in LoadFirst => c \in Row,
         p = "write" => ask[r].kind = "correct",
         p # "commit" /\ ask[r].kind # "batch" => draft[r] = NoDraft
  PROVE  ReviewInv'
<1> USE DEF ReviewInv
<1>1. TypeOK'
  BY DEF TypeOK
<1>2. RequestsAreSound'
  <2> SUFFICES ASSUME NEW q \in Requests
               PROVE  RequestIsSound(q)'
    BY DEF RequestsAreSound
  <2>1. CASE q # r
    BY <2>1 DEF RequestsAreSound, RequestIsSound, TypeOK
  <2>2. CASE q = r
    BY <2>2 DEF RequestsAreSound, RequestIsSound, TypeOK, Working
  <2> QED
    BY <2>1, <2>2
<1> QED
  BY <1>1, <1>2, DataKept

\* The unlocked SELECT of approve, record_correction and create_escalation
\* keeps a copy of a typed row and touches nothing else.
LEMMA LoadInv ==
  ASSUME ReviewInv, NEW r \in Requests, Load(r)
  PROVE  ReviewInv'
<1> DEFINE p == pc'[r]
<1>1. pc[r] = "load" /\ p \in {"lock", "write"} /\ pc' = [pc EXCEPT ![r] = p]
  BY DEF Load, ReviewInv, TypeOK
<1>2. ask[r] \in Ask /\ at[r] \in DOMAIN ask[r].items /\ Item(r) \in Items
  BY <1>1, ItemType DEF ReviewInv, RequestsAreSound, RequestIsSound
<1>3. Visible(r, Item(r)) \in Row
  BY <1>2, VisibleType DEF ReviewInv
<1>4. p = "write" => ask[r].kind = "correct"
  BY DEF Load, OnlyCorrects, ReviewInv, TypeOK
<1>5. ask[r].kind \in LoadFirst
  BY DEF Load
<1>6. ask[r].kind # "batch" => draft[r] = NoDraft
  BY <1>1 DEF ReviewInv, RequestsAreSound, RequestIsSound
<1>7. copy' = [copy EXCEPT ![r] = Visible(r, Item(r))]
      /\ UNCHANGED <<row, log, escalation, lock, ask, at, draft, outcome>>
  BY DEF Load
<1> HIDE DEF p
<1> QED
  BY <1>1, <1>3, <1>4, <1>5, <1>6, <1>7, MoveInv DEF Working, LoadFirst

\* The SELECT and the UPDATE of the escalation row leave work items alone.
LEMMA EscalationStepsInv ==
  ASSUME ReviewInv, NEW r \in Requests,
         ReadEscalation(r) \/ FlushEscalation(r)
  PROVE  ReviewInv'
<1>1. copy' = [copy EXCEPT ![r] = copy[r]] /\ copy[r] \in Row \cup {NoOne}
  BY DEF ReadEscalation, FlushEscalation, ReviewInv, TypeOK
<1>2. UNCHANGED <<row, log, escalation, lock, ask, at, draft, outcome>>
  BY DEF ReadEscalation, FlushEscalation
<1>3. CASE ReadEscalation(r)
  <2>1. pc[r] = "load" /\ pc' = [pc EXCEPT ![r] = "flush"]
    BY <1>3 DEF ReadEscalation
  <2>2. ask[r].kind # "batch" => draft[r] = NoDraft
    BY <2>1 DEF ReviewInv, RequestsAreSound, RequestIsSound
  <2> QED
    BY <1>1, <1>2, <2>1, <2>2, MoveInv DEF Working
<1>4. CASE FlushEscalation(r)
  <2>1. pc[r] = "flush"
    BY <1>4 DEF FlushEscalation
  <2>2. ask[r].kind # "batch" => draft[r] = NoDraft
    BY <2>1 DEF ReviewInv, RequestsAreSound, RequestIsSound
  <2>3. CASE ask[r].kind = "reopen"
    <3>1. pc' = [pc EXCEPT ![r] = "lock"]
      BY <1>4, <2>3 DEF FlushEscalation
    <3> QED
      BY <1>1, <1>2, <2>1, <2>2, <2>3, <3>1, MoveInv DEF Working, LoadFirst
  <2>4. CASE ask[r].kind # "reopen"
    <3>1. pc' = [pc EXCEPT ![r] = "commit"]
      BY <1>4, <2>4 DEF FlushEscalation
    <3> QED
      BY <1>1, <1>2, <2>1, <3>1, MoveInv DEF Working
  <2> QED
    BY <2>3, <2>4
<1> QED
  BY <1>3, <1>4

-----------------------------------------------------------------------------
(* Rollback.                                                               *)

\* get_db's rollback: the drafts and locks of one request go, those of the
\* others stay.
LEMMA RollBackInv ==
  ASSUME ReviewInv, NEW r \in Requests, NEW how \in Ended, how # "done",
         pc[r] \in Working, RollBack(r, how)
  PROVE  ReviewInv'
<1> USE DEF ReviewInv
<1>1. /\ pc' = [pc EXCEPT ![r] = how]
      /\ draft' = [draft EXCEPT ![r] = NoDraft]
      /\ lock' = Unlocked(r)
      /\ UNCHANGED <<row, log, escalation, ask, at, copy, outcome>>
  BY DEF RollBack
<1>2. \A q \in Requests : draft'[q] = IF q = r THEN NoDraft ELSE draft[q]
  BY <1>1 DEF TypeOK
<1>3. TypeOK'
  <2>1. lock' \in [Items -> Requests \cup {NoOne}]
    BY <1>1 DEF TypeOK, Unlocked
  <2>2. /\ draft' = [q \in Requests |-> draft'[q]]
        /\ \A q \in Requests :
              /\ DOMAIN draft'[q] \subseteq Items
              /\ draft'[q] \in [DOMAIN draft'[q] ->
                                  [row : Row, entries : Seq(Entry), judged : Row]]
    BY <1>1, <1>2, NoDraftFacts DEF TypeOK
  <2>3. pc' \in [Requests -> {"new"} \cup Working \cup Ended]
    BY <1>1 DEF TypeOK
  <2> QED
    BY <1>1, <2>1, <2>2, <2>3 DEF TypeOK
<1>4. RequestsAreSound'
  <2> SUFFICES ASSUME NEW q \in Requests
               PROVE  RequestIsSound(q)'
    BY DEF RequestsAreSound
  <2>1. CASE q # r
    BY <1>1, <1>2, <2>1 DEF RequestsAreSound, RequestIsSound, TypeOK
  <2>2. CASE q = r
    BY <1>1, <1>2, <2>2
    DEF RequestsAreSound, RequestIsSound, TypeOK, Working, Ended
  <2> QED
    BY <2>1, <2>2
<1>5. WritesAreLocked'
  BY <1>1, <1>2, NoDraftFacts DEF WritesAreLocked, Unlocked, TypeOK
<1>6. DraftsAreFaithful'
  <2> SUFFICES ASSUME NEW q \in Requests, NEW i \in DOMAIN draft'[q]
               PROVE  DraftIsFaithful(q, i)'
    BY DEF DraftsAreFaithful
  <2>1. draft'[q] = draft[q]
    BY <1>2, NoDraftFacts
  <2>2. DraftIsFaithful(q, i)
    BY <2>1 DEF DraftsAreFaithful
  <2> QED
    BY <1>1, <2>1, <2>2 DEF DraftIsFaithful, LegalEntry
<1>7. RowMatchesAudit' /\ AuditIsLegal'
  BY <1>1 DEF RowMatchesAudit, AuditIsLegal, LegalEntry
<1> QED
  BY <1>3, <1>4, <1>5, <1>6, <1>7

\* A refusal, a crash and a deadlock are rollbacks.
LEMMA EndsBadlyInv ==
  ASSUME ReviewInv, NEW r \in Requests,
         Refuse(r) \/ Abort(r) \/ BreakDeadlock(r)
  PROVE  ReviewInv'
<1>1. pc[r] \in Working
  BY DEF Refuse, Abort, BreakDeadlock, Deadlocked, Waits, Working
<1>2. RollBack(r, "refused") \/ RollBack(r, "aborted")
  BY DEF Refuse, Abort, BreakDeadlock
<1> QED
  BY <1>1, <1>2, RollBackInv DEF Ended

-----------------------------------------------------------------------------
(* The steps that write.                                                   *)

\* Staging a row for an item that no other transaction has written keeps the
\* data invariants, if the row staged is faithful.
LEMMA StageInv ==
  ASSUME ReviewInv, NEW r \in Requests, NEW i \in Items, CanLock(r, i),
         NEW judged \in Row, NEW newRow \in Row, NEW entries \in Seq(Entry),
         Stage(r, i, judged, newRow, entries),
         lock' = [lock EXCEPT ![i] = r],
         UNCHANGED <<row, log, ask>>,
         DraftIsFaithful(r, i)'
  PROVE  /\ draft' = [q \in Requests |-> draft'[q]]
         /\ \A q \in Requests :
               /\ DOMAIN draft'[q] \subseteq Items
               /\ draft'[q] \in [DOMAIN draft'[q] ->
                                   [row : Row, entries : Seq(Entry), judged : Row]]
         /\ \A q \in Requests \ {r} : draft'[q] = draft[q]
         /\ WritesAreLocked' /\ DraftsAreFaithful'
         /\ RowMatchesAudit' /\ AuditIsLegal'
<1> USE DEF ReviewInv
<1> DEFINE new == [j \in DOMAIN draft[r] \cup {i} |->
                      IF j = i
                      THEN [row |-> newRow, entries |-> entries, judged |-> judged]
                      ELSE draft[r][j]]
<1>1. draft' = [draft EXCEPT ![r] = new]
  BY DEF Stage
<1>2. /\ DOMAIN new \subseteq Items
      /\ new \in [DOMAIN new -> [row : Row, entries : Seq(Entry), judged : Row]]
  BY DEF TypeOK
<1>3. \A q \in Requests : draft'[q] = IF q = r THEN new ELSE draft[q]
  BY <1>1 DEF TypeOK
<1>4. \A j \in DOMAIN draft[r] : j # i => new[j] = draft[r][j]
  OBVIOUS
<1>5. DOMAIN new = DOMAIN draft[r] \cup {i}
  OBVIOUS
<1> HIDE DEF new
<1>6. WritesAreLocked'
  <2> SUFFICES ASSUME NEW q \in Requests, NEW j \in DOMAIN draft'[q]
               PROVE  lock'[j] = q
    BY DEF WritesAreLocked
  <2>1. lock \in [Items -> Requests \cup {NoOne}] /\ NoOne \notin Requests
    BY ReviewAssumption DEF TypeOK
  <2>2. j \in DOMAIN draft[q] => j \in Items /\ lock[j] = q
    BY DEF WritesAreLocked, TypeOK
  <2> QED
    BY <1>3, <1>5, <2>1, <2>2 DEF CanLock
<1>7. DraftsAreFaithful'
  <2> SUFFICES ASSUME NEW q \in Requests, NEW j \in DOMAIN draft'[q],
                      q # r \/ j # i
               PROVE  DraftIsFaithful(q, j)'
    BY DEF DraftsAreFaithful
  <2>1. j \in DOMAIN draft[q] /\ draft'[q][j] = draft[q][j]
    BY <1>3, <1>4, <1>5
  <2>2. DraftIsFaithful(q, j)
    BY <2>1 DEF DraftsAreFaithful
  <2> QED
    BY <2>1, <2>2 DEF DraftIsFaithful, LegalEntry
<1>8. RowMatchesAudit' /\ AuditIsLegal'
  BY DEF RowMatchesAudit, AuditIsLegal, LegalEntry
<1> QED
  BY <1>1, <1>2, <1>3, <1>6, <1>7, <1>8 DEF TypeOK

\* Going on to the next item of a batch, or to the commit.
LEMMA OnwardSound ==
  ASSUME ReviewInv, NEW r \in Requests, pc[r] \in {"lock", "write"}, Onward(r),
         UNCHANGED <<ask, copy>>,
         \A q \in Requests \ {r} : draft'[q] = draft[q]
  PROVE  /\ pc' \in [Requests -> {"new"} \cup Working \cup Ended]
         /\ at' \in [Requests -> Nat]
         /\ RequestsAreSound'
<1> USE DEF ReviewInv
<1>1. /\ ask[r] \in Ask
      /\ at[r] \in DOMAIN ask[r].items
      /\ ask[r].kind # "batch" => Len(ask[r].items) = 1
      /\ ask[r].kind # "resolve" => ask[r].to \in WorkItemStatus
  BY DEF RequestsAreSound, RequestIsSound
<1>2. ask[r].items \in Seq(Items)
  BY <1>1 DEF Ask
<1>3. /\ at' = [at EXCEPT ![r] = at[r] + 1]
      /\ pc' = [pc EXCEPT ![r] = IF at[r] < Len(ask[r].items) THEN "load"
                                                              ELSE "commit"]
  BY DEF Onward
<1>4. at' \in [Requests -> Nat]
  BY <1>3 DEF TypeOK
<1>5. pc' \in [Requests -> {"new"} \cup Working \cup Ended]
  BY <1>3 DEF TypeOK, Working
<1>6. ASSUME NEW q \in Requests PROVE RequestIsSound(q)'
  <2>1. CASE q # r
    BY <1>3, <2>1 DEF RequestsAreSound, RequestIsSound, TypeOK
  <2>2. CASE q = r
    <3>1. CASE at[r] < Len(ask[r].items)
      <4>1. at'[r] = at[r] + 1 /\ pc'[r] = "load"
        BY <1>3, <3>1 DEF TypeOK
      <4>2. at[r] \in Nat \ {0}
        BY <1>1, <1>2
      <4>3. at[r] + 1 \in 1..Len(ask[r].items) /\ Len(ask[r].items) \in Nat
        BY <1>2, <3>1, <4>2
      <4>4. at[r] + 1 \in DOMAIN ask[r].items
        BY <1>2, <4>3
      <4>5. ask[r].kind = "batch"
        <5>1. Len(ask[r].items) # 1
          <6> DEFINE n == Len(ask[r].items)
                     k == at[r]
          <6>1. k \in Nat /\ k # 0 /\ n \in Nat /\ k < n
            BY <3>1, <4>2, <4>3
          <6> HIDE DEF n, k
          <6>2. n # 1
            BY <6>1
          <6> QED
            BY <6>2 DEF n
        <5> QED
          BY <1>1, <5>1
      <4> QED
        BY <1>1, <2>2, <4>1, <4>4, <4>5 DEF RequestIsSound, Working
    <3>2. CASE ~(at[r] < Len(ask[r].items))
      <4>1. pc'[r] = "commit"
        BY <1>3, <3>2 DEF TypeOK
      <4> QED
        BY <1>1, <2>2, <4>1 DEF RequestIsSound, Working
    <3> QED
      BY <3>1, <3>2
  <2> QED
    BY <2>1, <2>2
<1> QED
  BY <1>4, <1>5, <1>6 DEF RequestsAreSound

\* transition_work_item stages one legal edge under the lock, whatever status
\* its stale copy told it.
LEMMA TransitionInv ==
  ASSUME ReviewInv, NEW r \in Requests, transition_work_item(r)
  PROVE  ReviewInv'
<1> USE DEF ReviewInv
<1>0. Item(r) \in Items
  BY ItemType DEF transition_work_item, RequestsAreSound, RequestIsSound
<1> PICK i \in Items : i = Item(r)
  BY <1>0
<1> PICK old : old = Judged(r)
  OBVIOUS
<1> PICK e : e = EntryOf(r, ask[r], old)
  OBVIOUS
<1> PICK new : new = Flushed(old, Assigned(r), Visible(r, i))
  OBVIOUS
<1>1. /\ pc[r] = "lock" /\ CanLock(r, i) /\ Allowed(r)
      /\ lock' = [lock EXCEPT ![i] = r]
      /\ Stage(r, i, old, new, <<e>>)
      /\ outcome' = [outcome EXCEPT ![r] = Append(@, "SUCCESS")]
      /\ Onward(r)
      /\ UNCHANGED <<row, log, escalation, ask, copy>>
  BY DEF transition_work_item
<1>2. /\ ask[r] \in Ask
      /\ at[r] \in DOMAIN ask[r].items
      /\ ask[r].to \in WorkItemStatus
      /\ ask[r].kind \in LoadFirst => copy[r] \in Row
      /\ ask[r].kind \in LockFirst => draft[r] = NoDraft
  BY <1>1 DEF RequestsAreSound, RequestIsSound, LockFirst
<1>4. Visible(r, i) \in Row
  BY VisibleType
<1>5. old \in Row
  BY <1>2, <1>4 DEF Judged
<1>6. /\ <<old.status, ask[r].to>> \in WORK_ITEM_TRANSITIONS
      /\ <<ask[r].by, i>> \in InRealm
      /\ RequiredPermissions(old.status, ask[r].to) \subseteq
             get_permissions_for_roles(RolesOf[ask[r].by])
  BY <1>1 DEF Allowed, require_realm, validate_work_item_transition, Authorised
<1>7. /\ Assigned(r) \in Row
      /\ Assigned(r).status = ask[r].to
      /\ Assigned(r).version = old.version + 1
  BY <1>2, <1>5, AssignedRow
<1>8. old.status # Assigned(r).status
  BY <1>6, <1>7, NoSelfLoops
<1>9. new \in Row /\ new.status = ask[r].to /\ new.version = old.version + 1
  BY <1>4, <1>5, <1>7, <1>8, FlushedRow
<1>10. e \in Entry
  BY <1>2, <1>5 DEF EntryOf, Entry, Ask, Row
<1>11. LegalEntry(e, i)
  BY <1>6 DEF EntryOf, LegalEntry
<1>12. ask[r].kind \in LockFirst => old = row[i]
  BY <1>2, NoDraftFacts DEF Judged, Visible, LockFirst, LoadFirst
<1>13. draft'[r][i] = [row |-> new, entries |-> <<e>>, judged |-> old]
  BY <1>1 DEF Stage, TypeOK
<1>14. DraftIsFaithful(r, i)'
  <2>1. row' = row /\ ask' = ask
    BY <1>1
  <2>2. draft'[r][i].entries = <<e>> /\ draft'[r][i].row = new
    BY <1>13
  <2>3. new.status = e.to
    BY <1>9 DEF EntryOf
  <2>4. LegalEntry(e, i)'
    BY <1>11 DEF LegalEntry
  <2>5. ask[r].kind \in LockFirst =>
          /\ <<row[i].status, new.status>> \in WORK_ITEM_TRANSITIONS
          /\ new.version = row[i].version + 1
    BY <1>6, <1>9, <1>12
  <2> QED
    BY <1>10, <2>1, <2>2, <2>3, <2>4, <2>5 DEF DraftIsFaithful
<1>15. <<e>> \in Seq(Entry)
  BY <1>10
<1>16. /\ draft' = [q \in Requests |-> draft'[q]]
       /\ \A q \in Requests :
             /\ DOMAIN draft'[q] \subseteq Items
             /\ draft'[q] \in [DOMAIN draft'[q] ->
                                 [row : Row, entries : Seq(Entry), judged : Row]]
       /\ \A q \in Requests \ {r} : draft'[q] = draft[q]
       /\ WritesAreLocked' /\ DraftsAreFaithful'
       /\ RowMatchesAudit' /\ AuditIsLegal'
  BY <1>1, <1>5, <1>9, <1>14, <1>15, StageInv
<1>17. /\ pc' \in [Requests -> {"new"} \cup Working \cup Ended]
       /\ at' \in [Requests -> Nat]
       /\ RequestsAreSound'
  BY <1>1, <1>16, OnwardSound
<1>18. TypeOK'
  <2>1. lock' \in [Items -> Requests \cup {NoOne}]
    BY <1>1 DEF TypeOK
  <2>2. outcome' \in [Requests -> Seq({"SUCCESS", "SKIPPED", "FAILED"})]
    BY <1>1 DEF TypeOK
  <2> QED
    BY <1>1, <1>16, <1>17, <2>1, <2>2 DEF TypeOK
<1> QED
  BY <1>16, <1>17, <1>18

\* An item a batch passes over is locked and not written.
LEMMA SkipInv ==
  ASSUME ReviewInv, NEW r \in Requests, SkipBatchItem(r)
  PROVE  ReviewInv'
<1> USE DEF ReviewInv
<1>0. Item(r) \in Items
  BY ItemType DEF SkipBatchItem, RequestsAreSound, RequestIsSound
<1> PICK i \in Items : i = Item(r)
  BY <1>0
<1>1. /\ pc[r] = "lock" /\ CanLock(r, i)
      /\ lock' = [lock EXCEPT ![i] = r]
      /\ outcome' = [outcome EXCEPT ![r] = Append(@, SkipOutcome(r))]
      /\ Onward(r)
      /\ UNCHANGED <<row, log, escalation, ask, copy, draft>>
  BY DEF SkipBatchItem
<1>2. /\ pc' \in [Requests -> {"new"} \cup Working \cup Ended]
      /\ at' \in [Requests -> Nat]
      /\ RequestsAreSound'
  BY <1>1, OnwardSound
<1>3. TypeOK'
  <2>1. SkipOutcome(r) \in {"SUCCESS", "SKIPPED", "FAILED"}
    BY DEF SkipOutcome
  <2>2. outcome' \in [Requests -> Seq({"SUCCESS", "SKIPPED", "FAILED"})]
    BY <1>1, <2>1 DEF TypeOK
  <2>3. lock' \in [Items -> Requests \cup {NoOne}]
    BY <1>1 DEF TypeOK
  <2> QED
    BY <1>1, <1>2, <2>2, <2>3 DEF TypeOK
<1>4. WritesAreLocked'
  <2>1. lock \in [Items -> Requests \cup {NoOne}] /\ NoOne \notin Requests
    BY ReviewAssumption DEF TypeOK
  <2>2. \A q \in Requests : \A j \in DOMAIN draft[q] :
           j \in Items /\ lock[j] = q
    BY DEF WritesAreLocked, TypeOK
  <2> QED
    BY <1>1, <2>1, <2>2 DEF WritesAreLocked, CanLock
<1>5. DraftsAreFaithful' /\ RowMatchesAudit' /\ AuditIsLegal'
  BY <1>1 DEF DraftsAreFaithful, DraftIsFaithful, RowMatchesAudit,
              AuditIsLegal, LegalEntry
<1> QED
  BY <1>2, <1>3, <1>4, <1>5

\* A correction outside review writes a row whose status is the committed one.
LEMMA WriteCorrectionInv ==
  ASSUME ReviewInv, NEW r \in Requests, WriteCorrection(r)
  PROVE  ReviewInv'
<1> USE DEF ReviewInv
<1>0. Item(r) \in Items
  BY ItemType DEF WriteCorrection, RequestsAreSound, RequestIsSound
<1> PICK i \in Items : i = Item(r)
  BY <1>0
<1> PICK new : new = CorrectedRow(r, i)
  OBVIOUS
<1>1. /\ pc[r] = "write" /\ CanLock(r, i)
      /\ lock' = [lock EXCEPT ![i] = r]
      /\ Stage(r, i, copy[r], new, << >>)
      /\ Onward(r)
      /\ UNCHANGED <<row, log, escalation, ask, copy, outcome>>
  BY DEF WriteCorrection
<1>2. ask[r].kind = "correct" /\ draft[r] = NoDraft /\ copy[r] \in Row
  BY <1>1 DEF RequestsAreSound, RequestIsSound, LoadFirst
<1>3. Visible(r, i) \in Row /\ Visible(r, i) = row[i]
  BY <1>2, VisibleType, NoDraftFacts DEF Visible
<1>4. new \in Row /\ new.status = row[i].status
  BY <1>3 DEF CorrectedRow, Row
<1>5. draft'[r][i] = [row |-> new, entries |-> << >>, judged |-> copy[r]]
  BY <1>1 DEF Stage, TypeOK
<1>6. DraftIsFaithful(r, i)'
  BY <1>1, <1>2, <1>4, <1>5 DEF DraftIsFaithful, LockFirst
<1>7. /\ draft' = [q \in Requests |-> draft'[q]]
      /\ \A q \in Requests :
            /\ DOMAIN draft'[q] \subseteq Items
            /\ draft'[q] \in [DOMAIN draft'[q] ->
                                [row : Row, entries : Seq(Entry), judged : Row]]
      /\ \A q \in Requests \ {r} : draft'[q] = draft[q]
      /\ WritesAreLocked' /\ DraftsAreFaithful'
      /\ RowMatchesAudit' /\ AuditIsLegal'
  <2>1. << >> \in Seq(Entry)
    OBVIOUS
  <2>2. UNCHANGED <<row, log, ask>>
    BY <1>1
  <2> QED
    BY <1>1, <1>2, <1>4, <1>6, <2>1, <2>2, StageInv
<1>8. /\ pc' \in [Requests -> {"new"} \cup Working \cup Ended]
      /\ at' \in [Requests -> Nat]
      /\ RequestsAreSound'
  BY <1>1, <1>7, OnwardSound
<1>9. TypeOK'
  <2>1. lock' \in [Items -> Requests \cup {NoOne}]
    BY <1>1 DEF TypeOK
  <2> QED
    BY <1>1, <1>7, <1>8, <2>1 DEF TypeOK
<1> QED
  BY <1>7, <1>8, <1>9

\* The step of the whole proof that matters: what r commits for an item is what
\* it drafted under the row lock, and every other draft is of another item.
LEMMA CommitInv ==
  ASSUME ReviewInv, NEW r \in Requests, Commit(r)
  PROVE  ReviewInv'
<1> USE DEF ReviewInv
<1>1. /\ pc[r] = "commit"
      /\ row' = [i \in Items |-> Visible(r, i)]
      /\ log' = [i \in Items |-> IF i \in DOMAIN draft[r]
                                 THEN log[i] \o draft[r][i].entries
                                 ELSE log[i]]
      /\ lock' = Unlocked(r)
      /\ pc' = [pc EXCEPT ![r] = "done"]
      /\ draft' = [draft EXCEPT ![r] = NoDraft]
      /\ UNCHANGED <<ask, at, copy, outcome>>
  BY DEF Commit
<1>2. \A q \in Requests : draft'[q] = IF q = r THEN NoDraft ELSE draft[q]
  BY <1>1 DEF TypeOK
<1>3. \A i \in DOMAIN draft[r] :
         /\ i \in Items /\ lock[i] = r
         /\ draft[r][i].row \in Row /\ draft[r][i].entries \in Seq(Entry)
         /\ row'[i] = draft[r][i].row
         /\ log'[i] = log[i] \o draft[r][i].entries
  BY <1>1 DEF TypeOK, WritesAreLocked, Visible
<1>4. \A i \in Items : i \notin DOMAIN draft[r] =>
         row'[i] = row[i] /\ log'[i] = log[i]
  BY <1>1 DEF Visible
<1>5. TypeOK'
  <2>1. row' \in [Items -> Row]
    BY <1>1, VisibleType
  <2>2. log' \in [Items -> Seq(Entry)]
    <3> SUFFICES ASSUME NEW i \in Items
                 PROVE  (IF i \in DOMAIN draft[r]
                         THEN log[i] \o draft[r][i].entries
                         ELSE log[i]) \in Seq(Entry)
      BY <1>1
    <3> QED
      BY <1>3 DEF TypeOK
  <2>3. lock' \in [Items -> Requests \cup {NoOne}]
    BY <1>1 DEF TypeOK, Unlocked
  <2>4. /\ draft' = [q \in Requests |-> draft'[q]]
        /\ \A q \in Requests :
              /\ DOMAIN draft'[q] \subseteq Items
              /\ draft'[q] \in [DOMAIN draft'[q] ->
                                  [row : Row, entries : Seq(Entry), judged : Row]]
    BY <1>1, <1>2, NoDraftFacts DEF TypeOK
  <2>5. pc' \in [Requests -> {"new"} \cup Working \cup Ended]
    BY <1>1 DEF TypeOK, Ended
  <2>6. escalation' \in [Requests -> EscalationState]
    <3>1. \/ escalation' = escalation
          \/ \E e : escalation' = [escalation EXCEPT ![e] = "OPEN"]
          \/ \E e : escalation' = [escalation EXCEPT ![e] = "RESOLVED"]
          \/ \E e : escalation' = [escalation EXCEPT ![e] = "REOPENED"]
      BY DEF Commit, EscalationsAfter
    <3> QED
      BY <3>1 DEF TypeOK, EscalationState
  <2> QED
    BY <1>1, <2>1, <2>2, <2>3, <2>4, <2>5, <2>6 DEF TypeOK
<1>6. RequestsAreSound'
  <2> SUFFICES ASSUME NEW q \in Requests
               PROVE  RequestIsSound(q)'
    BY DEF RequestsAreSound
  <2>1. CASE q # r
    BY <1>1, <1>2, <2>1 DEF RequestsAreSound, RequestIsSound, TypeOK
  <2>2. CASE q = r
    BY <1>1, <1>2, <2>2
    DEF RequestsAreSound, RequestIsSound, TypeOK, Working, Ended
  <2> QED
    BY <2>1, <2>2
<1>7. WritesAreLocked'
  BY <1>1, <1>2, NoDraftFacts DEF WritesAreLocked, Unlocked, TypeOK
<1>8. DraftsAreFaithful'
  <2> SUFFICES ASSUME NEW q \in Requests, NEW i \in DOMAIN draft'[q]
               PROVE  DraftIsFaithful(q, i)'
    BY DEF DraftsAreFaithful
  <2>1. q # r /\ draft'[q] = draft[q] /\ i \in Items
    BY <1>2, NoDraftFacts DEF TypeOK
  <2>2. lock[i] = q
    BY <2>1 DEF WritesAreLocked
  <2>3. row'[i] = row[i]
    BY <1>3, <1>4, <2>1, <2>2
  <2>4. DraftIsFaithful(q, i)
    BY <2>1 DEF DraftsAreFaithful
  <2> QED
    BY <1>1, <2>1, <2>3, <2>4 DEF DraftIsFaithful, LegalEntry
<1>9. ASSUME NEW i \in Items
      PROVE  /\ log'[i] # << >> => row'[i].status = log'[i][Len(log'[i])].to
             /\ \A k \in 1..Len(log'[i]) : LegalEntry(log'[i][k], i)
  <2>1. log[i] \in Seq(Entry)
    BY DEF TypeOK
  <2>2. /\ log[i] # << >> => row[i].status = log[i][Len(log[i])].to
        /\ \A k \in 1..Len(log[i]) : LegalEntry(log[i][k], i)
    BY DEF RowMatchesAudit, AuditIsLegal
  <2>3. CASE i \notin DOMAIN draft[r]
    BY <1>4, <2>2, <2>3
  <2>4. CASE i \in DOMAIN draft[r]
    <3>1. DraftIsFaithful(r, i)
      BY <2>4 DEF DraftsAreFaithful
    <3>2. CASE /\ draft[r][i].entries = << >>
               /\ draft[r][i].row.status = row[i].status
      <4>1. log'[i] = log[i]
        <5>1. log[i] \o << >> = log[i]
          BY <2>1
        <5> QED
          BY <1>3, <2>4, <3>2, <5>1
      <4> QED
        BY <1>3, <2>2, <2>4, <3>2, <4>1
    <3>3. CASE \E e \in Entry : /\ draft[r][i].entries = <<e>>
                                /\ draft[r][i].row.status = e.to
                                /\ LegalEntry(e, i)
      <4> PICK e \in Entry : /\ draft[r][i].entries = <<e>>
                             /\ draft[r][i].row.status = e.to
                             /\ LegalEntry(e, i)
        BY <3>3
      <4>1. log'[i] = log[i] \o <<e>>
        BY <1>3, <2>4
      <4>2. /\ Len(log'[i]) = Len(log[i]) + 1
            /\ log'[i][Len(log'[i])] = e
            /\ \A k \in 1..Len(log[i]) : log'[i][k] = log[i][k]
        BY <2>1, <4>1
      <4>3. row'[i].status = e.to
        BY <1>3, <2>4
      <4>4. \A k \in 1..Len(log'[i]) : k = Len(log[i]) + 1 \/ k \in 1..Len(log[i])
        BY <2>1, <4>2
      <4>5. ASSUME NEW k \in 1..Len(log'[i]) PROVE LegalEntry(log'[i][k], i)
        <5>1. CASE k = Len(log[i]) + 1
          BY <4>2, <5>1
        <5>2. CASE k \in 1..Len(log[i])
          BY <2>2, <4>2, <5>2
        <5> QED
          BY <4>4, <5>1, <5>2
      <4> QED
        BY <4>2, <4>3, <4>5
    <3> QED
      BY <3>1, <3>2, <3>3 DEF DraftIsFaithful
  <2> QED
    BY <2>3, <2>4
<1>10. RowMatchesAudit' /\ AuditIsLegal'
  BY <1>9 DEF RowMatchesAudit, AuditIsLegal, LegalEntry
<1> QED
  BY <1>5, <1>6, <1>7, <1>8, <1>10

-----------------------------------------------------------------------------
(* The theorems.                                                           *)

\* Every step of the review keeps the invariant.
LEMMA NextInv == ReviewInv /\ [Next]_vars => ReviewInv'
<1> SUFFICES ASSUME ReviewInv, [Next]_vars PROVE ReviewInv'
  OBVIOUS
<1>1. CASE UNCHANGED vars
  BY <1>1 DEF vars, ReviewInv, TypeOK, RequestsAreSound, RequestIsSound,
              WritesAreLocked, DraftsAreFaithful, DraftIsFaithful, LegalEntry,
              RowMatchesAudit, AuditIsLegal
<1>2. ASSUME NEW r \in Requests, Receive(r) \/ Handle(r) \/ Abort(r)
      PROVE  ReviewInv'
  BY <1>2, ReceiveInv, LoadInv, EscalationStepsInv, EndsBadlyInv,
     TransitionInv, SkipInv, WriteCorrectionInv, CommitInv DEF Handle
<1> QED
  BY <1>1, <1>2 DEF Next

\* The inductive invariant holds in every reachable state.
THEOREM Invariance == Spec => []ReviewInv
<1> QED
  BY InitInv, NextInv, PTL DEF Spec

\* Types: every variable keeps the shape the module declares for it.
THEOREM TypeCorrect == Spec => []TypeOK
<1>1. ReviewInv => TypeOK
  BY DEF ReviewInv
<1> QED
  BY <1>1, Invariance, PTL

\* No two transactions have writes of one item in flight.
THEOREM LockedWrites == Spec => []WritesAreLocked
<1>1. ReviewInv => WritesAreLocked
  BY DEF ReviewInv
<1> QED
  BY <1>1, Invariance, PTL

\* The committed status of an item is the target of its last recorded
\* transition, whatever the interleaving and whichever requests judged a stale
\* status.
THEOREM AuditMatches == Spec => []RowMatchesAudit
<1>1. ReviewInv => RowMatchesAudit
  BY DEF ReviewInv
<1> QED
  BY <1>1, Invariance, PTL

\* Every recorded transition is a legal edge made by a principal with the
\* permission for it.
THEOREM AuditLegality == Spec => []AuditIsLegal
<1>1. ReviewInv => AuditIsLegal
  BY DEF ReviewInv
<1> QED
  BY <1>1, Invariance, PTL

\* A handler that locks before it looks commits one legal edge and one version
\* on from the row it replaces.
THEOREM LockFirstSerial == Spec => LockFirstIsSerial
<1> DEFINE A == \A r \in Requests, i \in Items :
                  /\ pc[r] = "commit" /\ pc'[r] = "done"
                  /\ ask[r].kind \in LockFirst
                  /\ i \in DOMAIN draft[r]
                  => /\ <<row[i].status, row'[i].status>> \in
                           WORK_ITEM_TRANSITIONS
                     /\ row'[i].version = row[i].version + 1
<1>1. ReviewInv /\ [Next]_vars => [A]_vars
  <2> SUFFICES ASSUME ReviewInv, [Next]_vars, ~UNCHANGED vars,
                      NEW r \in Requests, NEW i \in Items,
                      pc[r] = "commit", pc'[r] = "done",
                      ask[r].kind \in LockFirst, i \in DOMAIN draft[r]
               PROVE  /\ <<row[i].status, row'[i].status>> \in
                           WORK_ITEM_TRANSITIONS
                      /\ row'[i].version = row[i].version + 1
    OBVIOUS
  <2>1. PICK q \in Requests : Receive(q) \/ Handle(q) \/ Abort(q)
    BY DEF Next
  <2>2. q = r
    BY <2>1 DEF ReviewInv, TypeOK, Handle, Receive, Load, ReadEscalation,
                FlushEscalation, transition_work_item, SkipBatchItem, Onward,
                Refuse, WriteCorrection, Commit, Abort, BreakDeadlock, RollBack
  <2>3. Commit(r)
    <3>1. ~(Refuse(r) \/ Abort(r) \/ BreakDeadlock(r))
      BY DEF ReviewInv, TypeOK, Refuse, Abort, BreakDeadlock, RollBack
    <3> QED
      BY <2>1, <2>2, <3>1 DEF Handle, Receive, Load, ReadEscalation,
         FlushEscalation, transition_work_item, SkipBatchItem, WriteCorrection
  <2>4. row'[i] = draft[r][i].row
    BY <2>3 DEF Commit, Visible
  <2>5. DraftIsFaithful(r, i)
    BY DEF ReviewInv, DraftsAreFaithful
  <2> QED
    BY <2>4, <2>5 DEF DraftIsFaithful
<1> QED
  BY <1>1, Invariance, PTL DEF Spec, LockFirstIsSerial

-----------------------------------------------------------------------------
(* Who claimed and who approved.  ReviewInv does not say it: what is needed *)
(* besides is who signs the writes in flight, that only operations which   *)
(* lock first claim, and that a claim on record follows a return to        *)
(* NEEDS_REVIEW.                                                           *)

ApprovedOnRecord(i, who) ==
    \E k \in 1..Len(log[i]) : log[i][k].to = "APPROVED" /\ log[i][k].by = who

DraftIsSigned(r, i) ==
    LET d == draft[r][i] IN
    /\ \A k \in 1..Len(d.entries) :
          d.entries[k].to = ask[r].to /\ d.entries[k].by = ask[r].by
    /\ d.entries # << >> => ask[r].kind # "resolve"
    /\ d.entries = << >> => d.row.assigned_reviewer = row[i].assigned_reviewer
    /\ d.entries # << >> /\ ask[r].to = "IN_REVIEW"
       => d.row.assigned_reviewer = ask[r].by
    /\ \/ d.row.approved_by = NoOne
       \/ ApprovedOnRecord(i, d.row.approved_by)
       \/ d.entries # << >> /\ ask[r].to = "APPROVED" /\ d.row.approved_by = ask[r].by

ClaimsLockFirst ==
    \A r \in Requests :
        pc[r] # "new" /\ ask[r].to = "IN_REVIEW"
        => ask[r].kind \in LockFirst \cup {"resolve"}

ClaimsFollowReturns ==
    \A i \in Items : \A k \in 2..Len(log[i]) :
        log[i][k].to = "IN_REVIEW" => log[i][k - 1].to = "NEEDS_REVIEW"

SignedInv ==
    /\ \A r \in Requests : \A i \in DOMAIN draft[r] : DraftIsSigned(r, i)
    /\ ClaimsLockFirst
    /\ ClaimsFollowReturns
    /\ ActorsOnRecord

LEMMA SignedInit == Init => SignedInv
<1> SUFFICES ASSUME Init PROVE SignedInv
  OBVIOUS
<1>1. \A i \in Items : log[i] = << >> /\ row[i].approved_by = NoOne
  BY DEF Init, NewRow
<1>2. \A r \in Requests : pc[r] = "new" /\ DOMAIN draft[r] = {}
  BY NoDraftFacts DEF Init
<1> QED
  BY <1>1, <1>2 DEF SignedInv, ClaimsLockFirst, ClaimsFollowReturns, ActorsOnRecord

\* A step that commits nothing and drafts nothing new.
LEMMA SignedKept ==
  ASSUME SignedInv, UNCHANGED <<row, log>>,
         \A q \in Requests : \/ draft'[q] = NoDraft
                             \/ draft'[q] = draft[q] /\ ask'[q] = ask[q],
         ClaimsLockFirst'
  PROVE  SignedInv'
<1>1. ASSUME NEW q \in Requests, NEW i \in DOMAIN draft'[q] PROVE DraftIsSigned(q, i)'
  <2>1. draft'[q] = draft[q] /\ ask'[q] = ask[q] /\ i \in DOMAIN draft[q]
    BY <1>1, NoDraftFacts
  <2>2. DraftIsSigned(q, i)
    BY <2>1 DEF SignedInv
  <2> QED
    BY <2>1, <2>2 DEF DraftIsSigned, ApprovedOnRecord
<1>2. ClaimsFollowReturns' /\ ActorsOnRecord'
  BY DEF SignedInv, ClaimsFollowReturns, ActorsOnRecord
<1> QED
  BY <1>1, <1>2 DEF SignedInv

\* The steps of a request that has arrived ask for nothing else, and none goes
\* back to where it came from.
LEMMA LockFirstKept ==
  ASSUME SignedInv, UNCHANGED ask, \A q \in Requests : pc[q] = "new" => pc'[q] = "new"
  PROVE  ClaimsLockFirst'
BY DEF SignedInv, ClaimsLockFirst

LEMMA ReceiveSigned ==
  ASSUME ReviewInv, SignedInv, NEW r \in Requests, Receive(r)
  PROVE  SignedInv'
<1>1. UNCHANGED <<row, log, draft>> /\ pc[r] = "new"
  BY DEF Receive
<1> DEFINE Asks(kind, by, esc, to, items) ==
             /\ ask' = [ask EXCEPT ![r] = [kind |-> kind, by |-> by, items |-> items,
                                           to |-> to, esc |-> esc]]
             /\ pc' = [pc EXCEPT ![r] =
                         IF kind \in LockFirst \ {"reopen"} THEN "lock"
                                                            ELSE "load"]
<1> PICK kind \in Kinds, by \in Principals, esc \in Requests \cup {NoOne} :
      \E to \in TargetsOf(kind), items \in ItemLists(kind) :
         Asks(kind, by, esc, to, items)
  BY DEF Receive
<1> PICK to \in TargetsOf(kind), items \in ItemLists(kind) :
      Asks(kind, by, esc, to, items)
  OBVIOUS
<1>2. /\ to \in TargetsOf(kind) /\ kind \in Kinds
      /\ Asks(kind, by, esc, to, items)
  OBVIOUS
<1>3. /\ ask'[r].kind = kind /\ ask'[r].to = to
      /\ \A q \in Requests : q # r => ask'[q] = ask[q] /\ pc'[q] = pc[q]
  BY <1>2 DEF ReviewInv, TypeOK
<1>4. draft[r] = NoDraft
  BY <1>1 DEF ReviewInv, RequestsAreSound, RequestIsSound, Working
<1>5. to = "IN_REVIEW" => kind \in LockFirst \cup {"resolve"}
  BY <1>2, ReviewAssumption DEF TargetsOf, PipelineTargets, LockFirst, AllKinds, LoadFirst
<1>6. ClaimsLockFirst'
  BY <1>1, <1>3, <1>5 DEF SignedInv, ClaimsLockFirst
<1> QED
  BY <1>1, <1>3, <1>4, <1>6, SignedKept

LEMMA QuietSigned ==
  ASSUME ReviewInv, SignedInv, NEW r \in Requests,
         \/ Load(r) \/ ReadEscalation(r) \/ FlushEscalation(r) \/ SkipBatchItem(r)
         \/ Refuse(r) \/ Abort(r) \/ BreakDeadlock(r)
  PROVE  SignedInv'
<1>1. /\ UNCHANGED <<row, log, ask>> /\ pc[r] # "new"
      /\ draft' = draft \/ draft' = [draft EXCEPT ![r] = NoDraft]
      /\ \E next : pc' = [pc EXCEPT ![r] = next]
  BY DEF Load, ReadEscalation, FlushEscalation, SkipBatchItem, Onward, Refuse, Abort,
         BreakDeadlock, Deadlocked, Waits, RollBack, Working
<1>2. \A q \in Requests : draft'[q] = NoDraft \/ draft'[q] = draft[q]
  BY <1>1 DEF ReviewInv, TypeOK
<1>3. \A q \in Requests : pc[q] = "new" => pc'[q] = "new"
  BY <1>1 DEF ReviewInv, TypeOK
<1> QED
  BY <1>1, <1>2, <1>3, LockFirstKept, SignedKept

\* A step that stages a signed row for one item.
LEMMA StageSigned ==
  ASSUME ReviewInv, SignedInv, NEW r \in Requests, NEW i \in Items, NEW newRow,
         NEW entries, NEW judged, Stage(r, i, judged, newRow, entries),
         pc[r] # "new", Onward(r),
         UNCHANGED <<row, log, ask>>, DraftIsSigned(r, i)'
  PROVE  SignedInv'
<1>1. \A q \in Requests : q # r => draft'[q] = draft[q]
  BY DEF Stage, ReviewInv, TypeOK
<1>2. \A j \in DOMAIN draft'[r] : j # i => j \in DOMAIN draft[r] /\ draft'[r][j] = draft[r][j]
  BY DEF Stage, ReviewInv, TypeOK
<1>3. ASSUME NEW q \in Requests, NEW j \in DOMAIN draft'[q] PROVE DraftIsSigned(q, j)'
  <2>1. CASE q = r /\ j = i
    BY <2>1
  <2>2. CASE ~(q = r /\ j = i)
    <3>1. j \in DOMAIN draft[q] /\ draft'[q][j] = draft[q][j]
      BY <1>1, <1>2, <2>2
    <3>2. DraftIsSigned(q, j)
      BY <3>1 DEF SignedInv
    <3> QED
      BY <3>1, <3>2 DEF DraftIsSigned, ApprovedOnRecord
  <2> QED
    BY <2>1, <2>2
<1>4. \A q \in Requests : pc[q] = "new" => pc'[q] = "new"
  BY DEF Onward, ReviewInv, TypeOK
<1>5. ClaimsLockFirst'
  BY <1>4, LockFirstKept
<1>6. ClaimsFollowReturns' /\ ActorsOnRecord'
  BY DEF SignedInv, ClaimsFollowReturns, ActorsOnRecord
<1> QED
  BY <1>3, <1>5, <1>6 DEF SignedInv

LEMMA CorrectionSigned ==
  ASSUME ReviewInv, SignedInv, NEW r \in Requests, WriteCorrection(r)
  PROVE  SignedInv'
<1>0. Item(r) \in Items
  BY ItemType DEF WriteCorrection, ReviewInv, RequestsAreSound, RequestIsSound
<1> PICK i \in Items : i = Item(r)
  BY <1>0
<1>2. /\ pc[r] = "write" /\ Stage(r, i, copy[r], CorrectedRow(r, i), << >>)
      /\ Onward(r)
      /\ UNCHANGED <<row, log, ask>>
  BY DEF WriteCorrection
<1>3. /\ row[i] \in Row /\ Visible(r, i) = row[i]
  BY <1>2, NoDraftFacts
  DEF ReviewInv, RequestsAreSound, RequestIsSound, TypeOK, Visible
<1>4. /\ CorrectedRow(r, i).assigned_reviewer = row[i].assigned_reviewer
      /\ CorrectedRow(r, i).approved_by = row[i].approved_by
  BY <1>3 DEF CorrectedRow, Row
<1>5. draft'[r][i] = [row |-> CorrectedRow(r, i), entries |-> << >>,
                      judged |-> copy[r]]
  BY <1>2 DEF Stage, ReviewInv, TypeOK
<1>6. \/ row[i].approved_by = NoOne
      \/ ApprovedOnRecord(i, row[i].approved_by)
  BY DEF SignedInv, ActorsOnRecord, ApprovedOnRecord
<1>7. DraftIsSigned(r, i)'
  <2>1. /\ draft'[r][i].entries = << >>
        /\ draft'[r][i].row.assigned_reviewer = row[i].assigned_reviewer
        /\ draft'[r][i].row.approved_by = row[i].approved_by
    BY <1>4, <1>5
  <2>2. Len(<< >>) = 0
    OBVIOUS
  <2> QED
    BY <1>2, <1>6, <2>1, <2>2 DEF DraftIsSigned, ApprovedOnRecord
<1> QED
  BY <1>2, <1>7, StageSigned

\* A transition signs its row: a claim judges the locked row, so the reviewer it
\* writes is its own; who approved is its own signature or the committed one.
LEMMA TransitionSigned ==
  ASSUME ReviewInv, SignedInv, NEW r \in Requests, transition_work_item(r)
  PROVE  SignedInv'
<1>0. Item(r) \in Items
  BY ItemType DEF transition_work_item, ReviewInv, RequestsAreSound, RequestIsSound
<1> PICK i \in Items : i = Item(r)
  BY <1>0
<1> PICK old : old = Judged(r)
  OBVIOUS
<1> PICK e : e = EntryOf(r, ask[r], old)
  OBVIOUS
<1> PICK new : new = Flushed(old, Assigned(r), Visible(r, i))
  OBVIOUS
<1>1. /\ pc[r] = "lock" /\ Stage(r, i, old, new, <<e>>) /\ Onward(r)
      /\ UNCHANGED <<row, log, ask>>
  BY DEF transition_work_item
<1>2. /\ ask[r] \in Ask /\ ask[r].kind # "resolve"
      /\ ask[r].kind \in LoadFirst => copy[r] \in Row
      /\ ask[r].kind \in LockFirst => draft[r] = NoDraft
  BY <1>1 DEF ReviewInv, RequestsAreSound, RequestIsSound, LockFirst
<1>3. Visible(r, i) \in Row
  BY VisibleType DEF ReviewInv
<1>4. old \in Row
  BY <1>2, <1>3 DEF Judged
<1>5. /\ Assigned(r).approved_by = IF ask[r].to = "APPROVED" THEN ask[r].by
                                   ELSE old.approved_by
      /\ Assigned(r).assigned_reviewer = IF ask[r].to = "IN_REVIEW" THEN ask[r].by
                                         ELSE old.assigned_reviewer
  BY <1>4 DEF Assigned, Moved, Row
<1>6. \/ new.approved_by = Visible(r, i).approved_by
      \/ new.approved_by = ask[r].by /\ ask[r].to = "APPROVED"
  BY <1>3, <1>5 DEF Flushed, Row
<1>7. ask[r].to = "IN_REVIEW" => new.assigned_reviewer = ask[r].by
  <2>1. SUFFICES ASSUME ask[r].to = "IN_REVIEW" PROVE new.assigned_reviewer = ask[r].by
    OBVIOUS
  <2>2. ask[r].kind \in LockFirst
    BY <1>1, <1>2, <2>1 DEF SignedInv, ClaimsLockFirst
  <2>3. old = Visible(r, i)
    BY <2>2 DEF Judged, LockFirst, LoadFirst
  <2> QED
    BY <1>3, <1>5, <2>1, <2>3 DEF Flushed, Row
<1>8. \/ Visible(r, i).approved_by = NoOne
      \/ ApprovedOnRecord(i, Visible(r, i).approved_by)
      \/ ask[r].to = "APPROVED" /\ Visible(r, i).approved_by = ask[r].by
  <2>1. CASE i \in DOMAIN draft[r]
    <3>1. DraftIsSigned(r, i) /\ Visible(r, i) = draft[r][i].row
      BY <2>1 DEF SignedInv, Visible
    <3> QED
      BY <3>1 DEF DraftIsSigned
  <2>2. CASE i \notin DOMAIN draft[r]
    BY <2>2 DEF SignedInv, ActorsOnRecord, ApprovedOnRecord, Visible
  <2> QED
    BY <2>1, <2>2
<1>9. draft'[r][i] = [row |-> new, entries |-> <<e>>, judged |-> old]
  BY <1>1 DEF Stage, ReviewInv, TypeOK
<1>10. DraftIsSigned(r, i)'
  <2>1. draft'[r][i].entries = <<e>> /\ draft'[r][i].row = new
    BY <1>9
  <2>2. /\ Len(<<e>>) = 1 /\ <<e>>[1] = e /\ <<e>> # << >>
    OBVIOUS
  <2>3. e.to = ask[r].to /\ e.by = ask[r].by
    BY DEF EntryOf
  <2>4. \A k \in 1..Len(<<e>>) : <<e>>[k].to = ask[r].to /\ <<e>>[k].by = ask[r].by
    BY <2>2, <2>3
  <2>5. \/ new.approved_by = NoOne
        \/ ApprovedOnRecord(i, new.approved_by)
        \/ ask[r].to = "APPROVED" /\ new.approved_by = ask[r].by
    BY <1>6, <1>8
  <2>6. ApprovedOnRecord(i, new.approved_by) => ApprovedOnRecord(i, new.approved_by)'
    BY <1>1 DEF ApprovedOnRecord
  <2> QED
    BY <1>1, <1>2, <1>7, <2>1, <2>2, <2>4, <2>5, <2>6 DEF DraftIsSigned
<1> QED
  BY <1>1, <1>10, StageSigned

LEMMA ClaimsComeFromReturns ==
  ASSUME NEW s, <<s, "IN_REVIEW">> \in WORK_ITEM_TRANSITIONS
  PROVE  s = "NEEDS_REVIEW"
BY DEF WORK_ITEM_TRANSITIONS

\* What is committed of one item: nothing, a row without a transition, or one
\* transition signed by who asked for it.
LEMMA CommitOfItem ==
  ASSUME ReviewInv, SignedInv, NEW r \in Requests, Commit(r), NEW i \in Items
  PROVE  \/ log'[i] = log[i] /\ row'[i] = row[i]
         \/ /\ log'[i] = log[i] /\ i \in DOMAIN draft[r]
            /\ row'[i].status = row[i].status
            /\ row'[i].assigned_reviewer = row[i].assigned_reviewer
            /\ \/ row'[i].approved_by = NoOne
               \/ ApprovedOnRecord(i, row'[i].approved_by)
         \/ \E e \in Entry :
               /\ log'[i] = Append(log[i], e) /\ i \in DOMAIN draft[r]
               /\ row'[i].status = e.to
               /\ e.to = "IN_REVIEW" => /\ row'[i].assigned_reviewer = e.by
                                        /\ row[i].status = "NEEDS_REVIEW"
               /\ \/ row'[i].approved_by = NoOne
                  \/ ApprovedOnRecord(i, row'[i].approved_by)
                  \/ e.to = "APPROVED" /\ row'[i].approved_by = e.by
<1>1. /\ pc[r] = "commit" /\ row'[i] = Visible(r, i)
      /\ log'[i] = IF i \in DOMAIN draft[r] THEN log[i] \o draft[r][i].entries ELSE log[i]
  BY DEF Commit
<1>2. log[i] \in Seq(Entry)
  BY DEF ReviewInv, TypeOK
<1>3. CASE i \notin DOMAIN draft[r]
  BY <1>1, <1>3 DEF Visible
<1>4. CASE i \in DOMAIN draft[r]
  <2>1. /\ row'[i] = draft[r][i].row /\ log'[i] = log[i] \o draft[r][i].entries
    BY <1>1, <1>4 DEF Visible
  <2>2. DraftIsFaithful(r, i) /\ DraftIsSigned(r, i)
    BY <1>4 DEF ReviewInv, DraftsAreFaithful, SignedInv
  <2>3. CASE draft[r][i].entries = << >> /\ draft[r][i].row.status = row[i].status
    <3>1. log[i] \o << >> = log[i]
      BY <1>2
    <3>2. log'[i] = log[i]
      BY <2>1, <2>3, <3>1
    <3> QED
      BY <1>4, <2>1, <2>2, <2>3, <3>2 DEF DraftIsSigned
  <2>4. ASSUME NEW e \in Entry, draft[r][i].entries = <<e>>,
               draft[r][i].row.status = e.to
        PROVE  /\ log'[i] = Append(log[i], e)
               /\ row'[i].status = e.to
               /\ e.to = "IN_REVIEW" => /\ row'[i].assigned_reviewer = e.by
                                        /\ row[i].status = "NEEDS_REVIEW"
               /\ \/ row'[i].approved_by = NoOne
                  \/ ApprovedOnRecord(i, row'[i].approved_by)
                  \/ e.to = "APPROVED" /\ row'[i].approved_by = e.by
    <3>1. log[i] \o <<e>> = Append(log[i], e) /\ <<e>> # << >>
          /\ Len(<<e>>) = 1 /\ <<e>>[1] = e
      BY <1>2
    <3>2. log'[i] = Append(log[i], e)
      BY <2>1, <2>4, <3>1
    <3>3. e.to = ask[r].to /\ e.by = ask[r].by /\ ask[r].kind # "resolve"
      BY <2>2, <2>4, <3>1 DEF DraftIsSigned
    <3>4. e.to = "IN_REVIEW" => row'[i].assigned_reviewer = e.by
      BY <2>1, <2>2, <2>4, <3>1, <3>3 DEF DraftIsSigned
    <3>5. e.to = "IN_REVIEW" => ask[r].kind \in LockFirst
      BY <1>1, <3>3 DEF SignedInv, ClaimsLockFirst
    <3>6. e.to = "IN_REVIEW" => <<row[i].status, "IN_REVIEW">> \in WORK_ITEM_TRANSITIONS
      BY <2>2, <2>4, <3>5 DEF DraftIsFaithful
    <3>7. e.to = "IN_REVIEW" => row[i].status = "NEEDS_REVIEW"
      BY <3>6, ClaimsComeFromReturns
    <3>8. \/ row'[i].approved_by = NoOne
          \/ ApprovedOnRecord(i, row'[i].approved_by)
          \/ e.to = "APPROVED" /\ row'[i].approved_by = e.by
      BY <2>1, <2>2, <3>3 DEF DraftIsSigned
    <3> QED
      BY <2>1, <2>4, <3>2, <3>4, <3>7, <3>8
  <2> QED
    BY <1>4, <2>2, <2>3, <2>4 DEF DraftIsFaithful
<1> QED
  BY <1>3, <1>4

LEMMA CommitSigned ==
  ASSUME ReviewInv, SignedInv, NEW r \in Requests, Commit(r)
  PROVE  SignedInv'
<1>1. /\ pc[r] = "commit" /\ pc' = [pc EXCEPT ![r] = "done"]
      /\ draft' = [draft EXCEPT ![r] = NoDraft] /\ UNCHANGED ask
      /\ row' = [i \in Items |-> Visible(r, i)]
      /\ log' = [i \in Items |-> IF i \in DOMAIN draft[r]
                                 THEN log[i] \o draft[r][i].entries
                                 ELSE log[i]]
  BY DEF Commit
<1>2. /\ \A q \in Requests : q # r => draft'[q] = draft[q]
      /\ draft'[r] = NoDraft
  BY <1>1 DEF ReviewInv, TypeOK
<1>3. ASSUME NEW q \in Requests, NEW i \in DOMAIN draft'[q] PROVE DraftIsSigned(q, i)'
  <2>1. q # r /\ i \in DOMAIN draft[q] /\ draft'[q] = draft[q] /\ i \in Items
    BY <1>2, NoDraftFacts DEF ReviewInv, TypeOK
  <2>2. lock[i] = q /\ i \notin DOMAIN draft[r]
    BY <2>1 DEF ReviewInv, WritesAreLocked
  <2>3. row'[i] = row[i] /\ log'[i] = log[i]
    BY <1>1, <2>1, <2>2 DEF Visible
  <2>4. DraftIsSigned(q, i)
    BY <2>1 DEF SignedInv
  <2> QED
    BY <1>1, <2>1, <2>3, <2>4 DEF DraftIsSigned, ApprovedOnRecord
<1>4. ClaimsLockFirst'
  <2>1. \A q \in Requests : pc[q] = "new" => pc'[q] = "new"
    BY <1>1 DEF ReviewInv, TypeOK
  <2> QED
    BY <1>1, <2>1, LockFirstKept
<1>5. ASSUME NEW i \in Items
      PROVE  /\ \A k \in 2..Len(log'[i]) :
                    log'[i][k].to = "IN_REVIEW" => log'[i][k - 1].to = "NEEDS_REVIEW"
             /\ row'[i].status = "IN_REVIEW" /\ log'[i] # << >>
                => row'[i].assigned_reviewer = log'[i][Len(log'[i])].by
             /\ row'[i].approved_by # NoOne => ApprovedOnRecord(i, row[i].approved_by)'
  <2>1. /\ \A k \in 2..Len(log[i]) :
              log[i][k].to = "IN_REVIEW" => log[i][k - 1].to = "NEEDS_REVIEW"
        /\ row[i].status = "IN_REVIEW" /\ log[i] # << >>
           => row[i].assigned_reviewer = log[i][Len(log[i])].by
        /\ row[i].approved_by # NoOne => ApprovedOnRecord(i, row[i].approved_by)
    BY DEF SignedInv, ClaimsFollowReturns, ActorsOnRecord, ApprovedOnRecord
  <2>2. CASE log'[i] = log[i] /\ row'[i] = row[i]
    BY <2>1, <2>2 DEF ApprovedOnRecord
  <2>3. CASE /\ log'[i] = log[i]
             /\ row'[i].status = row[i].status
             /\ row'[i].assigned_reviewer = row[i].assigned_reviewer
             /\ \/ row'[i].approved_by = NoOne
                \/ ApprovedOnRecord(i, row'[i].approved_by)
    BY <2>1, <2>3 DEF ApprovedOnRecord
  <2>4. ASSUME NEW e \in Entry, log'[i] = Append(log[i], e), row'[i].status = e.to,
               e.to = "IN_REVIEW" => /\ row'[i].assigned_reviewer = e.by
                                     /\ row[i].status = "NEEDS_REVIEW",
               \/ row'[i].approved_by = NoOne
               \/ ApprovedOnRecord(i, row'[i].approved_by)
               \/ e.to = "APPROVED" /\ row'[i].approved_by = e.by
        PROVE  /\ \A k \in 2..Len(log'[i]) :
                      log'[i][k].to = "IN_REVIEW" => log'[i][k - 1].to = "NEEDS_REVIEW"
               /\ row'[i].status = "IN_REVIEW"
                  => row'[i].assigned_reviewer = log'[i][Len(log'[i])].by
               /\ row'[i].approved_by # NoOne => ApprovedOnRecord(i, row[i].approved_by)'
    <3>1. log[i] \in Seq(Entry)
      BY DEF ReviewInv, TypeOK
    <3>2. /\ Len(log'[i]) = Len(log[i]) + 1 /\ Len(log[i]) \in Nat
          /\ log'[i][Len(log[i]) + 1] = e
          /\ \A k \in 1..Len(log[i]) : log'[i][k] = log[i][k]
      BY <2>4, <3>1
    <3>3. Len(log[i]) >= 1 => row[i].status = log[i][Len(log[i])].to
      <4>1. Len(log[i]) >= 1 => log[i] # << >>
        BY <3>1
      <4> QED
        BY <4>1 DEF ReviewInv, RowMatchesAudit
    <3>4. ASSUME NEW k \in 2..Len(log'[i]), log'[i][k].to = "IN_REVIEW"
          PROVE  log'[i][k - 1].to = "NEEDS_REVIEW"
      <4>1. CASE k = Len(log[i]) + 1
        <5>1. /\ e.to = "IN_REVIEW" /\ k - 1 = Len(log[i]) /\ Len(log[i]) >= 1
              /\ k - 1 \in 1..Len(log[i])
          BY <3>2, <3>4, <4>1
        <5>2. log'[i][k - 1] = log[i][Len(log[i])]
          BY <3>2, <5>1
        <5> QED
          BY <2>4, <3>3, <5>1, <5>2
      <4>2. CASE k # Len(log[i]) + 1
        <5>1. k \in 2..Len(log[i]) /\ k \in 1..Len(log[i]) /\ k - 1 \in 1..Len(log[i])
          BY <3>2, <4>2
        <5> QED
          BY <2>1, <3>2, <3>4, <5>1
      <4> QED
        BY <4>1, <4>2
    <3>5. ApprovedOnRecord(i, row'[i].approved_by) => ApprovedOnRecord(i, row[i].approved_by)'
      BY <3>2 DEF ApprovedOnRecord
    <3>6. e.to = "APPROVED" /\ row'[i].approved_by = e.by
          => ApprovedOnRecord(i, row[i].approved_by)'
      <4>1. Len(log[i]) + 1 \in 1..Len(log'[i])
        BY <3>2
      <4> QED
        BY <3>2, <4>1 DEF ApprovedOnRecord
    <3> QED
      BY <2>4, <3>2, <3>4, <3>5, <3>6
  <2> QED
    BY <2>2, <2>3, <2>4, CommitOfItem
<1>6. ClaimsFollowReturns' /\ ActorsOnRecord'
  BY <1>5 DEF ClaimsFollowReturns, ActorsOnRecord, ApprovedOnRecord
<1> QED
  BY <1>3, <1>4, <1>6 DEF SignedInv

LEMMA SignedStep == ReviewInv /\ SignedInv /\ [Next]_vars => SignedInv'
<1> SUFFICES ASSUME ReviewInv, SignedInv, [Next]_vars PROVE SignedInv'
  OBVIOUS
<1>1. CASE UNCHANGED vars
  <2>1. UNCHANGED <<row, log, draft, ask, pc>>
    BY <1>1 DEF vars
  <2> QED
    BY <2>1, LockFirstKept, SignedKept
<1>2. ASSUME NEW r \in Requests, Receive(r) \/ Handle(r) \/ Abort(r)
      PROVE  SignedInv'
  BY <1>2, ReceiveSigned, QuietSigned, TransitionSigned, CorrectionSigned,
     CommitSigned DEF Handle
<1> QED
  BY <1>1, <1>2 DEF Next

LEMMA SignedHolds == Spec => [](ReviewInv /\ SignedInv)
<1>1. Init => ReviewInv /\ SignedInv
  BY InitInv, SignedInit
<1>2. (ReviewInv /\ SignedInv) /\ [Next]_vars => (ReviewInv /\ SignedInv)'
  BY NextInv, SignedStep
<1> QED
  BY <1>1, <1>2, PTL DEF Spec

\* Two reviewers who claim the same item: only one succeeds.  Between two claims
\* on record the item was sent back (services.py, claim).
THEOREM OneClaimHolds == Spec => []OneClaim
<1>1. ReviewInv /\ SignedInv => OneClaim
  <2> SUFFICES ASSUME ReviewInv, SignedInv, NEW i \in Items, NEW k \in 1..Len(log[i]),
                      NEW j \in 1..(k - 1),
                      log[i][j].to = "IN_REVIEW", log[i][k].to = "IN_REVIEW"
               PROVE  \E m \in (j + 1)..(k - 1) : log[i][m].to = "NEEDS_REVIEW"
    BY DEF OneClaim
  <2>1. Len(log[i]) \in Nat
    BY DEF ReviewInv, TypeOK
  <2>2. k \in 2..Len(log[i]) /\ k - 1 \in 1..Len(log[i])
    BY <2>1
  <2>3. log[i][k - 1].to = "NEEDS_REVIEW"
    BY <2>2 DEF SignedInv, ClaimsFollowReturns
  <2>4. j # k - 1
    BY <2>3
  <2>5. k - 1 \in (j + 1)..(k - 1)
    BY <2>1, <2>4
  <2> QED
    BY <2>3, <2>5
<1> QED
  BY <1>1, SignedHolds, PTL

\* Whoever the row names as reviewer made the last claim on record, and whoever
\* it names as approver approved it, though handlers judge stale copies.
THEOREM ActorsHold == Spec => []ActorsOnRecord
<1>1. SignedInv => ActorsOnRecord
  BY DEF SignedInv
<1> QED
  BY <1>1, SignedHolds, PTL

-----------------------------------------------------------------------------
(* All or nothing.  What is needed besides ReviewInv is a link between the  *)
(* report and the draft: the items reported with SUCCESS are those with a   *)
(* transition staged, until the commit turns one into the other.            *)

Logged(r, i) == \E k \in 1..Len(log[i]) : log[i][k].req = r

Staged(r, i) == i \in DOMAIN draft[r] /\ draft[r][i].entries # << >>

Reported(r, i) ==
    \E k \in 1..Len(outcome[r]) : outcome[r][k] = "SUCCESS" /\ ask[r].items[k] = i

Before == {"new", "load", "flush", "lock", "write"}

ReportIsSound(r) ==
    /\ pc[r] \in Before => Len(outcome[r]) = at[r] - 1
    /\ pc[r] \in Working \cup {"new"} =>
          \A i \in Items : Staged(r, i) <=> Reported(r, i)
    /\ \A i \in DOMAIN draft[r] : \A k \in 1..Len(draft[r][i].entries) :
          draft[r][i].entries[k].req = r
    /\ \A i \in Items : Logged(r, i) <=> pc[r] = "done" /\ Reported(r, i)

ReportInv == \A r \in Requests : ReportIsSound(r)

LEMMA ReportInit == Init => ReportInv
<1> SUFFICES ASSUME Init, NEW r \in Requests PROVE ReportIsSound(r)
  BY DEF ReportInv
<1>1. /\ outcome[r] = << >> /\ at[r] = 1 /\ pc[r] = "new" /\ draft[r] = NoDraft
      /\ \A i \in Items : log[i] = << >>
  BY DEF Init
<1>2. \A i \in Items : ~Logged(r, i) /\ ~Staged(r, i) /\ ~Reported(r, i)
  BY <1>1, NoDraftFacts DEF Logged, Staged, Reported
<1> QED
  BY <1>1, <1>2, NoDraftFacts DEF ReportIsSound

\* A request that neither drafts nor reports, and whose transitions on record
\* stay what they are, keeps its part of the invariant.
LEMMA ReportKept ==
  ASSUME NEW q \in Requests, ReportIsSound(q),
         outcome'[q] = outcome[q], ask'[q] = ask[q], at'[q] = at[q],
         draft'[q] = draft[q],
         \A i \in Items : Logged(q, i)' <=> Logged(q, i),
         \/ pc'[q] = pc[q]
         \/ /\ pc[q] \in Working /\ pc'[q] \in Working
            /\ pc'[q] \in Before => pc[q] \in Before
  PROVE  ReportIsSound(q)'
<1>1. \A i \in Items : /\ Staged(q, i)' <=> Staged(q, i)
                       /\ Reported(q, i)' <=> Reported(q, i)
  BY DEF Staged, Reported
<1> QED
  BY <1>1 DEF ReportIsSound, Working

\* The SELECTs and the UPDATE of an escalation.
LEMMA ReadsReport ==
  ASSUME ReviewInv, ReportInv, NEW r \in Requests,
         Load(r) \/ ReadEscalation(r) \/ FlushEscalation(r)
  PROVE  ReportInv'
<1> SUFFICES ASSUME NEW q \in Requests PROVE ReportIsSound(q)'
  BY DEF ReportInv
<1>1. UNCHANGED <<log, ask, at, draft, outcome>>
  BY DEF Load, ReadEscalation, FlushEscalation
<1>2. \/ pc'[q] = pc[q]
      \/ /\ pc[q] \in Working /\ pc'[q] \in Working
         /\ pc[q] \in Before
  BY DEF Load, ReadEscalation, FlushEscalation, ReviewInv, TypeOK, Working, Before
<1>3. \A i \in Items : Logged(q, i)' <=> Logged(q, i)
  BY <1>1 DEF Logged
<1> QED
  BY <1>1, <1>2, <1>3, ReportKept DEF ReportInv

\* A request that arrives has reported nothing.
LEMMA ReceiveReport ==
  ASSUME ReviewInv, ReportInv, NEW r \in Requests, Receive(r)
  PROVE  ReportInv'
<1> SUFFICES ASSUME NEW q \in Requests PROVE ReportIsSound(q)'
  BY DEF ReportInv
<1>1. UNCHANGED <<log, at, draft, outcome>> /\ pc[r] = "new"
  BY DEF Receive
<1>2. /\ q # r => ask'[q] = ask[q] /\ pc'[q] = pc[q]
      /\ pc'[r] \in {"lock", "load"}
  BY DEF Receive, ReviewInv, TypeOK
<1>3. \A i \in Items : Logged(q, i)' <=> Logged(q, i)
  BY <1>1 DEF Logged
<1>4. CASE q # r
  BY <1>1, <1>2, <1>3, <1>4, ReportKept DEF ReportInv
<1>5. CASE q = r
  <2>1. draft[r] = NoDraft /\ at[r] = 1
    BY <1>1 DEF ReviewInv, RequestsAreSound, RequestIsSound, Working
  <2>2. ReportIsSound(r)
    BY DEF ReportInv
  <2>3. Len(outcome[r]) = 0
    BY <1>1, <2>1, <2>2 DEF ReportIsSound, Before
  <2>4. \A i \in Items : /\ ~Reported(r, i) /\ ~Reported(r, i)'
                         /\ ~Staged(r, i)'
    BY <1>1, <2>1, <2>3, NoDraftFacts DEF Reported, Staged
  <2>5. \A i \in Items : ~Logged(r, i)
    BY <2>2, <2>4 DEF ReportIsSound
  <2> QED
    BY <1>1, <1>2, <1>3, <1>5, <2>1, <2>3, <2>4, <2>5, NoDraftFacts
    DEF ReportIsSound, Working, Before
<1> QED
  BY <1>4, <1>5

\* A rollback: what was reported is forgotten with the draft.
LEMMA EndsBadlyReport ==
  ASSUME ReviewInv, ReportInv, NEW r \in Requests,
         Refuse(r) \/ Abort(r) \/ BreakDeadlock(r)
  PROVE  ReportInv'
<1> SUFFICES ASSUME NEW q \in Requests PROVE ReportIsSound(q)'
  BY DEF ReportInv
<1>1. pc[r] \in Working
  BY DEF Refuse, Abort, BreakDeadlock, Deadlocked, Waits, Working
<1>2. RollBack(r, "refused") \/ RollBack(r, "aborted")
  BY DEF Refuse, Abort, BreakDeadlock
<1>3. /\ UNCHANGED <<log, ask, at, outcome>>
      /\ q # r => draft'[q] = draft[q] /\ pc'[q] = pc[q]
      /\ draft'[r] = NoDraft /\ pc'[r] \in {"refused", "aborted"}
  BY <1>2 DEF RollBack, ReviewInv, TypeOK
<1>4. \A i \in Items : Logged(q, i)' <=> Logged(q, i)
  BY <1>3 DEF Logged
<1>5. CASE q # r
  BY <1>3, <1>4, <1>5, ReportKept DEF ReportInv
<1>6. CASE q = r
  <2>1. \A i \in Items : ~Logged(r, i)
    BY <1>1 DEF ReportInv, ReportIsSound, Working
  <2> QED
    BY <1>3, <1>4, <1>6, <2>1, NoDraftFacts DEF ReportIsSound, Working, Before
<1> QED
  BY <1>5, <1>6

\* One more outcome reports one more item.
LEMMA ReportGrows ==
  ASSUME ReviewInv, ReportInv, NEW r \in Requests, pc[r] = "lock", UNCHANGED ask,
         NEW how \in {"SUCCESS", "SKIPPED", "FAILED"},
         outcome' = [outcome EXCEPT ![r] = Append(@, how)]
  PROVE  /\ Len(outcome'[r]) = at[r]
         /\ \A i \in Items : Reported(r, i)' <=>
               Reported(r, i) \/ (how = "SUCCESS" /\ i = Item(r))
<1>1. outcome[r] \in Seq({"SUCCESS", "SKIPPED", "FAILED"})
  BY DEF ReviewInv, TypeOK
<1>2. outcome'[r] = Append(outcome[r], how)
  BY DEF ReviewInv, TypeOK
<1>3. at[r] \in Nat /\ Len(outcome[r]) = at[r] - 1
  BY DEF ReviewInv, TypeOK, ReportInv, ReportIsSound, Before
<1>4. /\ Len(outcome'[r]) = Len(outcome[r]) + 1 /\ Len(outcome[r]) \in Nat
      /\ outcome'[r][Len(outcome[r]) + 1] = how
      /\ \A k \in 1..Len(outcome[r]) : outcome'[r][k] = outcome[r][k]
  BY <1>1, <1>2
<1>5. Len(outcome'[r]) = at[r] /\ Len(outcome[r]) + 1 = at[r]
  BY <1>3, <1>4
<1>6. ASSUME NEW i \in Items
      PROVE  Reported(r, i)' <=> Reported(r, i) \/ (how = "SUCCESS" /\ i = Item(r))
  <2>1. \A k \in 1..Len(outcome'[r]) : k \in 1..Len(outcome[r]) \/ k = at[r]
    BY <1>4, <1>5
  <2>2. at[r] \in 1..Len(outcome'[r])
    BY <1>4, <1>5
  <2>3. outcome'[r][at[r]] = how
    BY <1>4, <1>5
  <2>4. \A k \in 1..Len(outcome[r]) : k \in 1..Len(outcome'[r])
    BY <1>4
  <2>5. Item(r) = ask[r].items[at[r]]
    BY DEF Item
  <2> QED
    BY <1>4, <2>1, <2>2, <2>3, <2>4, <2>5 DEF Reported
<1> QED
  BY <1>5, <1>6

\* Where a request goes after an item.
LEMMA OnwardFacts ==
  ASSUME ReviewInv, NEW r \in Requests, Onward(r)
  PROVE  /\ pc'[r] \in {"load", "commit"} /\ at'[r] = at[r] + 1 /\ at[r] \in Nat
         /\ pc'[r] = "load" => at[r] < Len(ask[r].items)
         /\ \A q \in Requests : q # r => pc'[q] = pc[q] /\ at'[q] = at[q]
BY DEF Onward, ReviewInv, TypeOK

LEMMA TransitionReport ==
  ASSUME ReviewInv, ReportInv, NEW r \in Requests, transition_work_item(r)
  PROVE  ReportInv'
<1> SUFFICES ASSUME NEW q \in Requests PROVE ReportIsSound(q)'
  BY DEF ReportInv
<1>0. Item(r) \in Items
  BY ItemType DEF transition_work_item, ReviewInv, RequestsAreSound, RequestIsSound
<1> PICK i \in Items : i = Item(r)
  BY <1>0
<1> PICK e : e = EntryOf(r, ask[r], Judged(r))
  OBVIOUS
<1> PICK new : new = Flushed(Judged(r), Assigned(r), Visible(r, i))
  OBVIOUS
<1>1. /\ pc[r] = "lock" /\ Onward(r) /\ Stage(r, i, Judged(r), new, <<e>>)
      /\ outcome' = [outcome EXCEPT ![r] = Append(@, "SUCCESS")]
      /\ UNCHANGED <<log, ask>>
  BY DEF transition_work_item
<1>2. \A p \in Requests : p # r => draft'[p] = draft[p] /\ outcome'[p] = outcome[p]
  BY <1>1 DEF Stage, ReviewInv, TypeOK
<1>3. /\ DOMAIN draft'[r] = DOMAIN draft[r] \cup {i}
      /\ draft'[r][i].entries = <<e>>
      /\ \A j \in DOMAIN draft[r] : j # i => draft'[r][j] = draft[r][j]
  BY <1>1 DEF Stage, ReviewInv, TypeOK
<1>4. \A p \in Requests : \A j \in Items : Logged(p, j)' <=> Logged(p, j)
  BY <1>1 DEF Logged
<1>5. CASE q # r
  BY <1>1, <1>2, <1>4, <1>5, OnwardFacts, ReportKept DEF ReportInv
<1>6. CASE q = r
  <2>1. Len(<<e>>) = 1 /\ <<e>>[1] = e /\ <<e>> # << >> /\ e.req = r
    BY DEF EntryOf
  <2>2. \A j \in Items : Staged(r, j)' <=> Staged(r, j) \/ j = i
    BY <1>3, <2>1 DEF Staged
  <2>3. /\ Len(outcome'[r]) = at[r]
        /\ \A j \in Items : Reported(r, j)' <=> Reported(r, j) \/ j = i
    BY <1>1, ReportGrows
  <2>4. ReportIsSound(r)
    BY DEF ReportInv
  <2>5. \A j \in Items : ~Logged(r, j)
    BY <1>1, <2>4 DEF ReportIsSound
  <2>6. \A j \in Items : Staged(r, j)' <=> Reported(r, j)'
    BY <1>1, <2>2, <2>3, <2>4 DEF ReportIsSound, Working
  <2>7. ASSUME NEW j \in DOMAIN draft'[r], NEW k \in 1..Len(draft'[r][j].entries)
        PROVE  draft'[r][j].entries[k].req = r
    <3>1. CASE j = i
      BY <1>3, <2>1, <3>1
    <3>2. CASE j # i
      BY <1>3, <2>4, <3>2 DEF ReportIsSound
    <3> QED
      BY <3>1, <3>2
  <2>8. pc'[r] # "done" /\ Len(outcome'[r]) = at'[r] - 1
    BY <1>1, <2>3, OnwardFacts
  <2> QED
    BY <1>4, <1>6, <2>5, <2>6, <2>7, <2>8 DEF ReportIsSound
<1> QED
  BY <1>5, <1>6

LEMMA SkipReport ==
  ASSUME ReviewInv, ReportInv, NEW r \in Requests, SkipBatchItem(r)
  PROVE  ReportInv'
<1> SUFFICES ASSUME NEW q \in Requests PROVE ReportIsSound(q)'
  BY DEF ReportInv
<1>1. /\ pc[r] = "lock" /\ Onward(r)
      /\ outcome' = [outcome EXCEPT ![r] = Append(@, SkipOutcome(r))]
      /\ UNCHANGED <<log, ask, draft>>
  BY DEF SkipBatchItem
<1>2. \A p \in Requests : p # r => outcome'[p] = outcome[p]
  BY <1>1 DEF ReviewInv, TypeOK
<1>3. \A p \in Requests : \A j \in Items : /\ Logged(p, j)' <=> Logged(p, j)
                                           /\ Staged(p, j)' <=> Staged(p, j)
  BY <1>1 DEF Logged, Staged
<1>4. CASE q # r
  BY <1>1, <1>2, <1>3, <1>4, OnwardFacts, ReportKept DEF ReportInv
<1>5. CASE q = r
  <2>1. SkipOutcome(r) \in {"SKIPPED", "FAILED"}
    BY DEF SkipOutcome
  <2>2. /\ Len(outcome'[r]) = at[r]
        /\ \A j \in Items : Reported(r, j)' <=> Reported(r, j)
    BY <1>1, <2>1, ReportGrows
  <2>3. ReportIsSound(r)
    BY DEF ReportInv
  <2>4. \A j \in Items : ~Logged(r, j)
    BY <1>1, <2>3 DEF ReportIsSound
  <2>5. \A j \in Items : Staged(r, j)' <=> Reported(r, j)'
    BY <1>1, <1>3, <2>2, <2>3 DEF ReportIsSound, Working
  <2>6. pc'[r] # "done" /\ Len(outcome'[r]) = at'[r] - 1
    BY <1>1, <2>2, OnwardFacts
  <2> QED
    BY <1>1, <1>3, <1>5, <2>3, <2>4, <2>5, <2>6 DEF ReportIsSound
<1> QED
  BY <1>4, <1>5

\* A correction outside review stages a row without a transition, and reports
\* none.
LEMMA CorrectionReport ==
  ASSUME ReviewInv, ReportInv, NEW r \in Requests, WriteCorrection(r)
  PROVE  ReportInv'
<1> SUFFICES ASSUME NEW q \in Requests PROVE ReportIsSound(q)'
  BY DEF ReportInv
<1> PICK i : i = Item(r)
  OBVIOUS
<1>1. /\ pc[r] = "write" /\ Onward(r)
      /\ Stage(r, i, copy[r], CorrectedRow(r, i), << >>)
      /\ UNCHANGED <<log, ask, outcome>>
  BY DEF WriteCorrection
<1>2. \A p \in Requests : p # r => draft'[p] = draft[p]
  BY <1>1 DEF Stage, ReviewInv, TypeOK
<1>3. \A p \in Requests : \A j \in Items : Logged(p, j)' <=> Logged(p, j)
  BY <1>1 DEF Logged
<1>4. CASE q # r
  BY <1>1, <1>2, <1>3, <1>4, OnwardFacts, ReportKept DEF ReportInv
<1>5. CASE q = r
  <2>1. /\ ask[r].kind = "correct" /\ draft[r] = NoDraft
        /\ ask[r] \in Ask /\ Len(ask[r].items) = 1
        /\ at[r] \in DOMAIN ask[r].items
    BY <1>1 DEF ReviewInv, RequestsAreSound, RequestIsSound
  <2>2. at[r] >= 1
    BY <2>1 DEF Ask
  <2>3. pc'[r] = "commit"
    <3> DEFINE n == Len(ask[r].items)
               k == at[r]
    <3>1. n = 1 /\ k >= 1 /\ k \in Nat
      BY <1>1, <2>1, <2>2, OnwardFacts
    <3>2. pc'[r] = "load" => k < n
      BY <1>1, OnwardFacts
    <3>3. pc'[r] \in {"load", "commit"}
      BY <1>1, OnwardFacts
    <3> HIDE DEF n, k
    <3>4. ~(k < n)
      BY <3>1
    <3> QED
      BY <3>2, <3>3, <3>4
  <2>4. DOMAIN draft'[r] = {i} /\ draft'[r][i].entries = << >>
    BY <1>1, <2>1, NoDraftFacts DEF Stage, ReviewInv, TypeOK
  <2>5. ReportIsSound(r)
    BY DEF ReportInv
  <2>6. \A j \in Items : /\ ~Staged(r, j) /\ ~Staged(r, j)'
                         /\ Reported(r, j)' <=> Reported(r, j)
                         /\ ~Logged(r, j)
    BY <1>1, <2>1, <2>4, <2>5, NoDraftFacts DEF Staged, Reported, ReportIsSound
  <2>7. \A j \in Items : ~Reported(r, j)
    BY <1>1, <2>5, <2>6 DEF ReportIsSound, Working
  <2>8. \A j \in DOMAIN draft'[r] : \A k \in 1..Len(draft'[r][j].entries) :
           draft'[r][j].entries[k].req = r
    <3>1. Len(<< >>) = 0
      OBVIOUS
    <3> QED
      BY <2>4, <3>1
  <2> QED
    BY <1>3, <1>5, <2>3, <2>6, <2>7, <2>8 DEF ReportIsSound, Before
<1> QED
  BY <1>4, <1>5

\* A commit puts on record, of each item, the transition staged, and it is
\* signed by the request that commits.
LEMMA CommitReport ==
  ASSUME ReviewInv, ReportInv, NEW r \in Requests, Commit(r)
  PROVE  ReportInv'
<1> SUFFICES ASSUME NEW q \in Requests PROVE ReportIsSound(q)'
  BY DEF ReportInv
<1>1. /\ pc[r] = "commit" /\ pc' = [pc EXCEPT ![r] = "done"]
      /\ draft' = [draft EXCEPT ![r] = NoDraft]
      /\ UNCHANGED <<ask, at, outcome>>
      /\ log' = [i \in Items |-> IF i \in DOMAIN draft[r]
                                 THEN log[i] \o draft[r][i].entries
                                 ELSE log[i]]
  BY DEF Commit
<1>2. ReportIsSound(r)
  BY DEF ReportInv
<1>3. ASSUME NEW p \in Requests, NEW i \in Items
      PROVE  Logged(p, i)' <=> Logged(p, i) \/ (p = r /\ Staged(r, i))
  <2>1. CASE i \notin DOMAIN draft[r]
    BY <1>1, <2>1 DEF Logged, Staged
  <2>2. CASE i \in DOMAIN draft[r]
    <3>1. log'[i] = log[i] \o draft[r][i].entries
      BY <1>1, <2>2
    <3>2. log[i] \in Seq(Entry)
      BY DEF ReviewInv, TypeOK
    <3>3. DraftIsFaithful(r, i)
      BY <2>2 DEF ReviewInv, DraftsAreFaithful
    <3>4. CASE draft[r][i].entries = << >>
      <4>1. log[i] \o << >> = log[i]
        BY <3>2
      <4> QED
        BY <3>1, <3>4, <4>1 DEF Logged, Staged
    <3>5. ASSUME NEW e \in Entry, draft[r][i].entries = <<e>>
          PROVE  Logged(p, i)' <=> Logged(p, i) \/ (p = r /\ Staged(r, i))
      <4>1. Len(<<e>>) = 1 /\ <<e>>[1] = e /\ <<e>> # << >>
        OBVIOUS
      <4>2. e.req = r /\ Staged(r, i)
        <5>1. \A k \in 1..Len(<<e>>) : <<e>>[k].req = r
          BY <1>2, <2>2, <3>5 DEF ReportIsSound
        <5>2. <<e>>[1].req = r
          BY <4>1, <5>1
        <5>3. Staged(r, i)
          BY <2>2, <3>5, <4>1 DEF Staged
        <5> QED
          BY <4>1, <5>2, <5>3
      <4>3. log[i] \o <<e>> = Append(log[i], e)
        BY <3>2
      <4>4. /\ Len(log'[i]) = Len(log[i]) + 1 /\ Len(log[i]) \in Nat
            /\ log'[i][Len(log[i]) + 1] = e
            /\ \A k \in 1..Len(log[i]) : log'[i][k] = log[i][k]
        BY <3>1, <3>2, <3>5, <4>3
      <4>5. /\ \A k \in 1..Len(log'[i]) : k \in 1..Len(log[i]) \/ k = Len(log[i]) + 1
            /\ \A k \in 1..Len(log[i]) : k \in 1..Len(log'[i])
            /\ Len(log[i]) + 1 \in 1..Len(log'[i])
        BY <4>4
      <4> QED
        BY <4>2, <4>4, <4>5 DEF Logged
    <3> QED
      BY <3>3, <3>4, <3>5 DEF DraftIsFaithful
  <2> QED
    BY <2>1, <2>2
<1>4. /\ draft'[r] = NoDraft /\ pc'[r] = "done"
      /\ \A p \in Requests : p # r => draft'[p] = draft[p] /\ pc'[p] = pc[p]
  BY <1>1 DEF ReviewInv, TypeOK
<1>5. CASE q # r
  BY <1>1, <1>3, <1>4, <1>5, ReportKept DEF ReportInv
<1>6. CASE q = r
  <2>1. \A i \in Items : Reported(r, i)' <=> Reported(r, i)
    BY <1>1 DEF Reported
  <2>2. \A i \in Items : ~Logged(r, i) /\ (Staged(r, i) <=> Reported(r, i))
    BY <1>1, <1>2 DEF ReportIsSound, Working
  <2> QED
    BY <1>3, <1>4, <1>6, <2>1, <2>2, NoDraftFacts DEF ReportIsSound, Working, Before
<1> QED
  BY <1>5, <1>6

LEMMA ReportStep == ReviewInv /\ ReportInv /\ [Next]_vars => ReportInv'
<1> SUFFICES ASSUME ReviewInv, ReportInv, [Next]_vars PROVE ReportInv'
  OBVIOUS
<1>1. CASE UNCHANGED vars
  BY <1>1 DEF vars, ReportInv, ReportIsSound, Logged, Staged, Reported
<1>2. ASSUME NEW r \in Requests, Receive(r) \/ Handle(r) \/ Abort(r)
      PROVE  ReportInv'
  BY <1>2, ReceiveReport, ReadsReport, EndsBadlyReport, TransitionReport,
     SkipReport, CorrectionReport, CommitReport DEF Handle
<1> QED
  BY <1>1, <1>2 DEF Next

\* A committed request left exactly the transitions it reports, item by item for
\* a batch, and any other request left none (services.py, batch_approve).
THEOREM AllOrNothingHolds == Spec => []AllOrNothing
<1>1. Init => ReviewInv /\ ReportInv
  BY InitInv, ReportInit
<1>2. (ReviewInv /\ ReportInv) /\ [Next]_vars => (ReviewInv /\ ReportInv)'
  BY NextInv, ReportStep
<1>3. ReviewInv /\ ReportInv => AllOrNothing
  BY DEF ReportInv, ReportIsSound, AllOrNothing, Logged, Reported
<1> QED
  BY <1>1, <1>2, <1>3, PTL DEF Spec

-----------------------------------------------------------------------------
(* The refinement.  What a request has judged is what its drafts were made *)
(* of, and the draft is what the ledger would compute from it and from the *)
(* committed row, which nobody else can change before the commit.          *)

Named(r) == {ask[r].items[k] : k \in DOMAIN ask[r].items}

\* A draft is the effect of its judgment on the committed row.
DraftIsEffect(r, i) ==
    LET d == draft[r][i] IN
    /\ i \in Named(r)
    /\ OnlyCorrects(ask[r], d.judged) =>
          d.row = [row[i] EXCEPT !.recommended = r] /\ d.entries = << >>
    /\ ~OnlyCorrects(ask[r], d.judged) =>
          /\ d.row = Flushed(d.judged, Moved(r, ask[r], d.judged), row[i])
          /\ d.entries = <<EntryOf(r, ask[r], d.judged)>>
          /\ LegalEntry(EntryOf(r, ask[r], d.judged), i)
    /\ ask[r].kind \in LockFirst => d.judged = row[i]

JudgmentIsSound(r) ==
    /\ pc[r] = "new" => ask[r] = NoOne
    /\ pc[r] = "flush" => ask[r].kind \in {"resolve", "reopen"}
    /\ pc[r] = "write" => OnlyCorrects(ask[r], copy[r])
    /\ pc[r] = "lock" /\ ask[r].kind \in LoadFirst =>
          /\ ~OnlyCorrects(ask[r], copy[r])
          /\ Item(r) \in DOMAIN draft[r] => copy[r] = draft[r][Item(r)].row
    /\ pc[r] = "commit" /\ ask[r].kind \notin {"batch", "resolve"} =>
          DOMAIN draft[r] # {}
    /\ \A i \in DOMAIN draft[r] : DraftIsEffect(r, i)

JudgmentInv == \A r \in Requests : JudgmentIsSound(r)

LEMMA JudgmentInit == Init => JudgmentInv
<1> SUFFICES ASSUME Init, NEW r \in Requests PROVE JudgmentIsSound(r)
  BY DEF JudgmentInv
<1> QED
  BY NoDraftFacts DEF Init, JudgmentIsSound

\* A draft whose judgment and whose committed row are what they were.
LEMMA EffectKept ==
  ASSUME NEW q \in Requests, NEW i \in DOMAIN draft[q], DraftIsEffect(q, i),
         ask'[q] = ask[q], draft'[q][i] = draft[q][i], row'[i] = row[i]
  PROVE  DraftIsEffect(q, i)'
BY DEF DraftIsEffect, Named, OnlyCorrects, Moved, Flushed, EntryOf, LegalEntry

\* A request that does not move, while the rows it drafted stay.
LEMMA JudgmentKept ==
  ASSUME NEW q \in Requests, JudgmentIsSound(q),
         pc'[q] = pc[q], ask'[q] = ask[q], at'[q] = at[q], copy'[q] = copy[q],
         draft'[q] = draft[q], \A i \in DOMAIN draft[q] : row'[i] = row[i]
  PROVE  JudgmentIsSound(q)'
<1>1. \A i \in DOMAIN draft[q] : DraftIsEffect(q, i)'
  BY EffectKept DEF JudgmentIsSound
<1>2. OnlyCorrects(ask[q], copy[q])' <=> OnlyCorrects(ask[q], copy[q])
  BY DEF OnlyCorrects
<1>3. Item(q)' = Item(q)
  BY DEF Item
<1> QED
  BY <1>1, <1>2, <1>3 DEF JudgmentIsSound

\* A request that ends leaves nothing to judge.
LEMMA JudgmentForgotten ==
  ASSUME NEW q \in Requests, pc'[q] \in Ended, draft'[q] = NoDraft
  PROVE  JudgmentIsSound(q)'
BY NoDraftFacts DEF JudgmentIsSound, Ended

\* What a request that arrives asks for.
LEMMA ReceiveFacts ==
  ASSUME ReviewInv, NEW r \in Requests, Receive(r)
  PROVE  \E a : /\ ask' = [ask EXCEPT ![r] = a] /\ LetIn(a)
                /\ pc' = [pc EXCEPT ![r] =
                            IF a.kind \in LockFirst \ {"reopen"} THEN "lock"
                                                                 ELSE "load"]
<1> DEFINE A(kind, by, esc, to, items) ==
             [kind |-> kind, by |-> by, items |-> items, to |-> to,
              esc |-> esc]
           Asks(a, kind) ==
             /\ ask' = [ask EXCEPT ![r] = a] /\ LetIn(a)
             /\ pc' = [pc EXCEPT ![r] =
                         IF kind \in LockFirst \ {"reopen"} THEN "lock"
                                                            ELSE "load"]
<1> PICK kind \in Kinds, by \in Principals, esc \in Requests \cup {NoOne} :
      \E to \in TargetsOf(kind), items \in ItemLists(kind) :
         Asks(A(kind, by, esc, to, items), kind)
  BY DEF Receive
<1> PICK to \in TargetsOf(kind), items \in ItemLists(kind) :
      Asks(A(kind, by, esc, to, items), kind)
  OBVIOUS
<1>1. A(kind, by, esc, to, items).kind = kind
  OBVIOUS
<1> WITNESS A(kind, by, esc, to, items)
<1> QED
  BY <1>1

LEMMA ReceiveJudges ==
  ASSUME ReviewInv, JudgmentInv, NEW r \in Requests, Receive(r)
  PROVE  JudgmentInv'
<1> SUFFICES ASSUME NEW q \in Requests PROVE JudgmentIsSound(q)'
  BY DEF JudgmentInv
<1>1. UNCHANGED <<row, at, copy, draft>> /\ pc[r] = "new"
  BY DEF Receive
<1>2. PICK a : /\ ask' = [ask EXCEPT ![r] = a]
               /\ pc' = [pc EXCEPT ![r] =
                           IF a.kind \in LockFirst \ {"reopen"} THEN "lock" ELSE "load"]
  BY ReceiveFacts
<1>3. /\ ask'[r] = a /\ pc'[r] \in {"lock", "load"}
      /\ pc'[r] = "lock" => a.kind \in LockFirst
      /\ \A p \in Requests : p # r => ask'[p] = ask[p] /\ pc'[p] = pc[p]
  BY <1>2 DEF ReviewInv, TypeOK
<1>4. CASE q # r
  BY <1>1, <1>3, <1>4, JudgmentKept DEF JudgmentInv
<1>5. CASE q = r
  <2>1. draft'[r] = NoDraft
    BY <1>1 DEF ReviewInv, RequestsAreSound, RequestIsSound, Working
  <2> QED
    BY <1>3, <1>5, <2>1, NoDraftFacts DEF JudgmentIsSound, LockFirst, LoadFirst
<1> QED
  BY <1>4, <1>5

\* The SELECT judges the row it loads: a correction is written where the status
\* says so, and an item drafted before is read back from the draft.
LEMMA LoadJudges ==
  ASSUME ReviewInv, JudgmentInv, NEW r \in Requests, Load(r)
  PROVE  JudgmentInv'
<1> SUFFICES ASSUME NEW q \in Requests PROVE JudgmentIsSound(q)'
  BY DEF JudgmentInv
<1> DEFINE c == Visible(r, Item(r))
<1>1. /\ UNCHANGED <<row, ask, at, draft>> /\ pc[r] = "load"
      /\ copy' = [copy EXCEPT ![r] = c]
      /\ pc' = [pc EXCEPT ![r] = IF OnlyCorrects(ask[r], c) THEN "write" ELSE "lock"]
  BY DEF Load
<1>2. /\ copy'[r] = c
      /\ pc'[r] = IF OnlyCorrects(ask[r], c) THEN "write" ELSE "lock"
      /\ \A p \in Requests : p # r => copy'[p] = copy[p] /\ pc'[p] = pc[p]
  BY <1>1 DEF ReviewInv, TypeOK
<1>3. CASE q # r
  BY <1>1, <1>2, <1>3, JudgmentKept DEF JudgmentInv
<1>4. CASE q = r
  <2>1. \A i \in DOMAIN draft[r] : DraftIsEffect(r, i)'
    BY <1>1, EffectKept DEF JudgmentInv, JudgmentIsSound
  <2>2. OnlyCorrects(ask[r], copy[r])' <=> OnlyCorrects(ask[r], c)
    BY <1>1, <1>2 DEF OnlyCorrects
  <2>3. /\ Item(r)' = Item(r)
        /\ Item(r) \in DOMAIN draft[r] => c = draft[r][Item(r)].row
    BY <1>1 DEF Item, Visible
  <2> QED
    BY <1>1, <1>2, <1>4, <2>1, <2>2, <2>3 DEF JudgmentIsSound
<1> QED
  BY <1>3, <1>4

\* The SELECT and the UPDATE of the escalation.
LEMMA EscalationStepsJudge ==
  ASSUME ReviewInv, JudgmentInv, NEW r \in Requests,
         ReadEscalation(r) \/ FlushEscalation(r)
  PROVE  JudgmentInv'
<1> SUFFICES ASSUME NEW q \in Requests PROVE JudgmentIsSound(q)'
  BY DEF JudgmentInv
<1>1. UNCHANGED <<row, ask, at, copy, draft>>
  BY DEF ReadEscalation, FlushEscalation
<1>2. /\ \A p \in Requests : p # r => pc'[p] = pc[p]
      /\ pc[r] \in {"load", "flush"}
      /\ \/ pc'[r] = "flush"
         \/ pc'[r] = "lock" /\ ask[r].kind = "reopen"
         \/ pc'[r] = "commit" /\ pc[r] = "flush" /\ ask[r].kind # "reopen"
  BY DEF ReadEscalation, FlushEscalation, ReviewInv, TypeOK
<1>3. pc[r] = "flush" => ask[r].kind \in {"resolve", "reopen"}
  BY DEF JudgmentInv, JudgmentIsSound
<1>4. pc'[r] = "flush" => ask[r].kind \in {"resolve", "reopen"}
  BY DEF ReadEscalation, FlushEscalation, ReviewInv, TypeOK
<1>5. CASE q # r
  BY <1>1, <1>2, <1>5, JudgmentKept DEF JudgmentInv
<1>6. CASE q = r
  <2>1. \A i \in DOMAIN draft[r] : DraftIsEffect(r, i)'
    BY <1>1, EffectKept DEF JudgmentInv, JudgmentIsSound
  <2> QED
    BY <1>1, <1>2, <1>3, <1>4, <1>6, <2>1 DEF JudgmentIsSound, LoadFirst
<1> QED
  BY <1>5, <1>6

\* A refusal, a crash or a deadlock.
LEMMA EndsBadlyFacts ==
  ASSUME ReviewInv, NEW r \in Requests,
         Refuse(r) \/ Abort(r) \/ BreakDeadlock(r)
  PROVE  /\ pc[r] \in Working /\ pc'[r] \in Ended /\ draft'[r] = NoDraft
         /\ UNCHANGED <<row, log, escalation, ask, at, copy>>
         /\ \A q \in Requests : q # r => pc'[q] = pc[q] /\ draft'[q] = draft[q]
<1>1. pc[r] \in Working
  BY DEF Refuse, Abort, BreakDeadlock, Deadlocked, Waits, Working
<1>2. RollBack(r, "refused") \/ RollBack(r, "aborted")
  BY DEF Refuse, Abort, BreakDeadlock
<1> QED
  BY <1>1, <1>2 DEF RollBack, ReviewInv, TypeOK, Ended

LEMMA EndsBadlyJudges ==
  ASSUME ReviewInv, JudgmentInv, NEW r \in Requests,
         Refuse(r) \/ Abort(r) \/ BreakDeadlock(r)
  PROVE  JudgmentInv'
BY EndsBadlyFacts, JudgmentForgotten, JudgmentKept DEF JudgmentInv

\* What is staged is what is drafted.
LEMMA StageFacts ==
  ASSUME ReviewInv, NEW r \in Requests, NEW i, NEW judged, NEW newRow, NEW entries,
         Stage(r, i, judged, newRow, entries)
  PROVE  /\ DOMAIN draft'[r] = DOMAIN draft[r] \cup {i}
         /\ draft'[r][i] = [row |-> newRow, entries |-> entries, judged |-> judged]
         /\ \A j \in DOMAIN draft[r] : j # i => draft'[r][j] = draft[r][j]
         /\ \A q \in Requests : q # r => draft'[q] = draft[q]
BY DEF Stage, ReviewInv, TypeOK

\* What transition_work_item knows when it goes on.
LEMMA TransitionFacts ==
  ASSUME ReviewInv, NEW r \in Requests, transition_work_item(r)
  PROVE  /\ pc[r] = "lock" /\ ask[r] \in Ask /\ Item(r) \in Items /\ Item(r) \in Named(r)
         /\ ask[r].kind # "resolve"
         /\ LegalEntry(EntryOf(r, ask[r], Judged(r)), Item(r))
         /\ ask[r].kind \in LockFirst =>
               draft[r] = NoDraft /\ Judged(r) = row[Item(r)]
         /\ ask[r].kind # "batch" => draft[r] = NoDraft
<1>1. pc[r] = "lock" /\ Allowed(r)
  BY DEF transition_work_item
<1>2. /\ ask[r] \in Ask /\ at[r] \in DOMAIN ask[r].items
      /\ ask[r].kind # "resolve"
      /\ ask[r].kind # "batch" => draft[r] = NoDraft
  BY <1>1 DEF ReviewInv, RequestsAreSound, RequestIsSound
<1>3. Item(r) \in Items /\ Item(r) \in Named(r)
  BY <1>2, ItemType DEF Item, Named
<1>4. LegalEntry(EntryOf(r, ask[r], Judged(r)), Item(r))
  BY <1>1 DEF Allowed, require_realm, validate_work_item_transition, Authorised,
              LegalEntry, EntryOf
<1>5. ask[r].kind \in LockFirst => draft[r] = NoDraft /\ Judged(r) = row[Item(r)]
  BY <1>2, NoDraftFacts DEF Judged, Visible, LockFirst, LoadFirst
<1> QED
  BY <1>1, <1>2, <1>3, <1>4, <1>5

\* A batch that names an item twice finds it approved the second time, and no
\* edge leads from APPROVED to APPROVED.
LEMMA NotDraftedTwice ==
  ASSUME ReviewInv, JudgmentInv, NEW r \in Requests, transition_work_item(r)
  PROVE  Item(r) \notin DOMAIN draft[r]
<1> SUFFICES ASSUME Item(r) \in DOMAIN draft[r] PROVE FALSE
  OBVIOUS
<1> DEFINE d == draft[r][Item(r)]
<1>1. ask[r].kind = "batch" /\ pc[r] = "lock"
  BY TransitionFacts, NoDraftFacts
<1>2. Judged(r) = d.row
  BY <1>1 DEF JudgmentInv, JudgmentIsSound, Judged, LoadFirst
<1>3. d.entries = <<EntryOf(r, ask[r], d.judged)>>
  BY <1>1 DEF JudgmentInv, JudgmentIsSound, DraftIsEffect, OnlyCorrects
<1>4. d.row.status = ask[r].to
  <2>1. DraftIsFaithful(r, Item(r))
    BY DEF ReviewInv, DraftsAreFaithful
  <2>2. /\ \A e : <<e>> # << >>
        /\ \A e, f : <<e>> = <<f>> => e = f
    OBVIOUS
  <2> QED
    BY <1>3, <2>1, <2>2 DEF DraftIsFaithful, EntryOf
<1>5. <<ask[r].to, ask[r].to>> \in WORK_ITEM_TRANSITIONS
  BY <1>2, <1>4, TransitionFacts DEF LegalEntry, EntryOf
<1> QED
  BY <1>5, NoSelfLoops

LEMMA TransitionJudges ==
  ASSUME ReviewInv, JudgmentInv, NEW r \in Requests, transition_work_item(r)
  PROVE  JudgmentInv'
<1> SUFFICES ASSUME NEW q \in Requests PROVE JudgmentIsSound(q)'
  BY DEF JudgmentInv
<1> PICK i : i = Item(r)
  OBVIOUS
<1> PICK old : old = Judged(r)
  OBVIOUS
<1> PICK e : e = EntryOf(r, ask[r], old)
  OBVIOUS
<1> PICK new : new = Flushed(old, Assigned(r), Visible(r, i))
  OBVIOUS
<1>1. /\ pc[r] = "lock" /\ Onward(r) /\ Stage(r, i, old, new, <<e>>)
      /\ UNCHANGED <<row, ask, copy>>
  BY DEF transition_work_item
<1>2. CASE q # r
  BY <1>1, <1>2, OnwardFacts, StageFacts, JudgmentKept DEF JudgmentInv
<1>3. CASE q = r
  <2>1. i \notin DOMAIN draft[r] /\ Visible(r, i) = row[i]
    BY NotDraftedTwice DEF Visible
  <2>2. ~OnlyCorrects(ask[r], old)
    BY <1>1 DEF Judged, OnlyCorrects, JudgmentInv, JudgmentIsSound, LoadFirst
  <2>3. new = Flushed(old, Moved(r, ask[r], old), row[i])
    BY <2>1 DEF Assigned
  <2>4. /\ DOMAIN draft'[r] = DOMAIN draft[r] \cup {i}
        /\ draft'[r][i] = [row |-> new, entries |-> <<e>>, judged |-> old]
        /\ \A j \in DOMAIN draft[r] : draft'[r][j] = draft[r][j]
    BY <1>1, <2>1, StageFacts
  <2>5. DraftIsEffect(r, i)'
    <3>1. /\ draft'[r][i].row = new /\ draft'[r][i].entries = <<e>>
          /\ draft'[r][i].judged = old
      BY <2>4
    <3>2. /\ i \in Named(r) /\ LegalEntry(e, i)
          /\ ask[r].kind \in LockFirst => old = row[i]
      BY TransitionFacts
    <3> QED
      BY <1>1, <2>2, <2>3, <3>1, <3>2
      DEF DraftIsEffect, Named, OnlyCorrects, Moved, Flushed, EntryOf, LegalEntry
  <2>6. ASSUME NEW j \in DOMAIN draft[r] PROVE DraftIsEffect(r, j)'
    BY <1>1, <2>4, EffectKept DEF JudgmentInv, JudgmentIsSound
  <2>7. \A j \in DOMAIN draft'[r] : DraftIsEffect(r, j)'
    BY <2>4, <2>5, <2>6
  <2>8. pc'[r] \in {"load", "commit"} /\ DOMAIN draft'[r] # {}
    BY <1>1, <2>4, OnwardFacts
  <2> QED
    BY <1>3, <2>7, <2>8 DEF JudgmentIsSound
<1> QED
  BY <1>2, <1>3

LEMMA SkipJudges ==
  ASSUME ReviewInv, JudgmentInv, NEW r \in Requests, SkipBatchItem(r)
  PROVE  JudgmentInv'
<1> SUFFICES ASSUME NEW q \in Requests PROVE JudgmentIsSound(q)'
  BY DEF JudgmentInv
<1>1. /\ pc[r] = "lock" /\ ask[r].kind = "batch" /\ Onward(r)
      /\ UNCHANGED <<row, ask, copy, draft>>
  BY DEF SkipBatchItem
<1>2. CASE q # r
  BY <1>1, <1>2, OnwardFacts, JudgmentKept DEF JudgmentInv
<1>3. CASE q = r
  <2>1. \A i \in DOMAIN draft[r] : DraftIsEffect(r, i)'
    BY <1>1, EffectKept DEF JudgmentInv, JudgmentIsSound
  <2>2. pc'[r] \in {"load", "commit"}
    BY <1>1, OnwardFacts
  <2> QED
    BY <1>1, <1>3, <2>1, <2>2 DEF JudgmentIsSound
<1> QED
  BY <1>2, <1>3

\* A correction outside review sets one column of the row that is there.
LEMMA CorrectionJudges ==
  ASSUME ReviewInv, JudgmentInv, NEW r \in Requests, WriteCorrection(r)
  PROVE  JudgmentInv'
<1> SUFFICES ASSUME NEW q \in Requests PROVE JudgmentIsSound(q)'
  BY DEF JudgmentInv
<1> PICK i : i = Item(r)
  OBVIOUS
<1>1. /\ pc[r] = "write" /\ Onward(r)
      /\ Stage(r, i, copy[r], CorrectedRow(r, i), << >>)
      /\ UNCHANGED <<row, ask, copy>>
  BY DEF WriteCorrection
<1>2. CASE q # r
  BY <1>1, <1>2, OnwardFacts, StageFacts, JudgmentKept DEF JudgmentInv
<1>3. CASE q = r
  <2>1. /\ ask[r].kind = "correct" /\ draft[r] = NoDraft /\ i \in Named(r)
    BY <1>1 DEF ReviewInv, RequestsAreSound, RequestIsSound, Item, Named
  <2>2. OnlyCorrects(ask[r], copy[r])
    BY <1>1 DEF JudgmentInv, JudgmentIsSound
  <2>3. CorrectedRow(r, i) = [row[i] EXCEPT !.recommended = r]
    BY <2>1, NoDraftFacts DEF CorrectedRow, Visible
  <2>4. /\ DOMAIN draft'[r] = {i}
        /\ draft'[r][i] = [row |-> CorrectedRow(r, i), entries |-> << >>,
                           judged |-> copy[r]]
    BY <1>1, <2>1, NoDraftFacts, StageFacts
  <2>5. DraftIsEffect(r, i)'
    <3>1. /\ draft'[r][i].row = CorrectedRow(r, i)
          /\ draft'[r][i].entries = << >>
          /\ draft'[r][i].judged = copy[r]
      BY <2>4
    <3> QED
      BY <1>1, <2>1, <2>2, <2>3, <3>1
      DEF DraftIsEffect, Named, OnlyCorrects, LockFirst
  <2>6. pc'[r] \in {"load", "commit"}
    BY <1>1, OnwardFacts
  <2> QED
    BY <1>3, <2>4, <2>5, <2>6 DEF JudgmentIsSound
<1> QED
  BY <1>2, <1>3

\* What a commit leaves of the others: the rows they drafted are locked by them.
LEMMA CommitFacts ==
  ASSUME ReviewInv, NEW r \in Requests, Commit(r)
  PROVE  /\ pc[r] = "commit" /\ pc'[r] = "done" /\ draft'[r] = NoDraft
         /\ UNCHANGED <<ask, at, copy>>
         /\ \A q \in Requests : q # r =>
               /\ pc'[q] = pc[q] /\ draft'[q] = draft[q]
               /\ \A i \in DOMAIN draft[q] : row'[i] = row[i]
<1>1. /\ pc[r] = "commit" /\ pc' = [pc EXCEPT ![r] = "done"]
      /\ draft' = [draft EXCEPT ![r] = NoDraft]
      /\ row' = [i \in Items |-> Visible(r, i)]
      /\ UNCHANGED <<ask, at, copy>>
  BY DEF Commit
<1>2. ASSUME NEW q \in Requests, q # r, NEW i \in DOMAIN draft[q]
      PROVE  row'[i] = row[i]
  <2>1. i \in Items /\ lock[i] = q
    BY DEF ReviewInv, TypeOK, WritesAreLocked
  <2>2. i \notin DOMAIN draft[r]
    BY <1>2, <2>1 DEF ReviewInv, WritesAreLocked
  <2> QED
    BY <1>1, <2>1, <2>2 DEF Visible
<1> QED
  BY <1>1, <1>2 DEF ReviewInv, TypeOK

LEMMA CommitJudges ==
  ASSUME ReviewInv, JudgmentInv, NEW r \in Requests, Commit(r)
  PROVE  JudgmentInv'
<1> SUFFICES ASSUME NEW q \in Requests PROVE JudgmentIsSound(q)'
  BY DEF JudgmentInv
<1>1. CASE q # r
  BY <1>1, CommitFacts, JudgmentKept DEF JudgmentInv
<1>2. CASE q = r
  BY <1>2, CommitFacts, JudgmentForgotten DEF Ended
<1> QED
  BY <1>1, <1>2

LEMMA JudgmentStep == ReviewInv /\ JudgmentInv /\ [Next]_vars => JudgmentInv'
<1> SUFFICES ASSUME ReviewInv, JudgmentInv, [Next]_vars PROVE JudgmentInv'
  OBVIOUS
<1>1. CASE UNCHANGED vars
  <2>1. ASSUME NEW q \in Requests PROVE JudgmentIsSound(q)'
    BY <1>1, JudgmentKept DEF vars, JudgmentInv
  <2> QED
    BY <2>1 DEF JudgmentInv
<1>2. ASSUME NEW r \in Requests, Receive(r) \/ Handle(r) \/ Abort(r)
      PROVE  JudgmentInv'
  BY <1>2, ReceiveJudges, LoadJudges, EscalationStepsJudge, EndsBadlyJudges,
     TransitionJudges, SkipJudges, CorrectionJudges, CommitJudges DEF Handle
<1> QED
  BY <1>1, <1>2 DEF Next

LEMMA JudgmentHolds == Spec => [](ReviewInv /\ JudgmentInv)
<1>1. Init => ReviewInv /\ JudgmentInv
  BY InitInv, JudgmentInit
<1>2. (ReviewInv /\ JudgmentInv) /\ [Next]_vars => (ReviewInv /\ JudgmentInv)'
  BY NextInv, JudgmentStep
<1> QED
  BY <1>1, <1>2, PTL DEF Spec

\* The ledger's operators are the ones of ReviewRows.
LEMMA SameRows ==
  /\ \A s : Ledger!NewRow(s) = NewRow(s)
  /\ Ledger!Ask = Ask
  /\ Ledger!LockFirst = LockFirst
  /\ \A a : Ledger!LetIn(a) <=> LetIn(a)
  /\ \A a, j : Ledger!OnlyCorrects(a, j) <=> OnlyCorrects(a, j)
  /\ \A r, a, j : Ledger!Moved(r, a, j) = Moved(r, a, j)
  /\ \A r, a, j : Ledger!EntryOf(r, a, j) = EntryOf(r, a, j)
  /\ \A e, i : Ledger!LegalEntry(e, i) <=> LegalEntry(e, i)
  /\ \A r, a, x : Ledger!EscalationsAfter(r, a, x) = EscalationsAfter(r, a, x)
  /\ \A o, n, b : Ledger!Flushed(o, n, b) = Flushed(o, n, b)
<1>1. /\ Ledger!WORK_ITEM_TRANSITIONS = WORK_ITEM_TRANSITIONS
      /\ Ledger!WorkItemStatus = WorkItemStatus
  BY DEF Ledger!WORK_ITEM_TRANSITIONS, WORK_ITEM_TRANSITIONS,
         Ledger!WorkItemStatus, WorkItemStatus
<1>2. Ledger!ROLE_PERMISSIONS = ROLE_PERMISSIONS
  BY DEF Ledger!ROLE_PERMISSIONS, ROLE_PERMISSIONS, Ledger!Role, Role,
         Ledger!Permission, Permission
<1>3. \A x : Ledger!get_permissions_for_roles(x) = get_permissions_for_roles(x)
  BY <1>2 DEF Ledger!get_permissions_for_roles, get_permissions_for_roles
<1>4. \A s, t : Ledger!RequiredPermissions(s, t) = RequiredPermissions(s, t)
  BY DEF Ledger!RequiredPermissions, RequiredPermissions,
         Ledger!ReviewEdges, ReviewEdges, Ledger!ApproveEdges, ApproveEdges,
         Ledger!WritebackEdges, WritebackEdges
<1>5. \A e, i : Ledger!LegalEntry(e, i) <=> LegalEntry(e, i)
  BY <1>1, <1>3, <1>4 DEF Ledger!LegalEntry, LegalEntry
<1>6. \A k : Ledger!EndpointPermission(k) = EndpointPermission(k)
  BY DEF Ledger!EndpointPermission, EndpointPermission
<1>7. \A a : Ledger!LetIn(a) <=> LetIn(a)
  BY <1>3, <1>6 DEF Ledger!LetIn, LetIn
<1>8. /\ \A s : Ledger!NewRow(s) = NewRow(s)
      /\ Ledger!LockFirst = LockFirst
  BY DEF Ledger!NewRow, NewRow, Ledger!LockFirst, LockFirst
<1>9. Ledger!Ask = Ask
  BY <1>1 DEF Ledger!Ask, Ask
<1>10. \A a, j : Ledger!OnlyCorrects(a, j) <=> OnlyCorrects(a, j)
  BY DEF Ledger!OnlyCorrects, OnlyCorrects
<1>11. \A r, a, j : Ledger!Moved(r, a, j) = Moved(r, a, j)
  BY DEF Ledger!Moved, Moved
<1>12. \A r, a, j : Ledger!EntryOf(r, a, j) = EntryOf(r, a, j)
  BY DEF Ledger!EntryOf, EntryOf
<1>13. \A r, a, x : Ledger!EscalationsAfter(r, a, x) = EscalationsAfter(r, a, x)
  BY DEF Ledger!EscalationsAfter, EscalationsAfter
<1>14. \A o, n, b : Ledger!Flushed(o, n, b) = Flushed(o, n, b)
  BY DEF Ledger!Flushed, Flushed
<1> QED
  BY <1>5, <1>7, <1>8, <1>9, <1>10, <1>11, <1>12, <1>13, <1>14

\* What a request has judged, for short.
JudgedBy(r) ==
    [i \in JudgedItems(r) |->
        IF i \in DOMAIN draft[r] THEN draft[r][i].judged ELSE copy[r]]

LEMMA JudgedByFacts ==
  ASSUME NEW r \in Requests
  PROVE  /\ JudgedRows[r] = JudgedBy(r) /\ JudgedRows'[r] = JudgedBy(r)'
         /\ DOMAIN JudgedBy(r) = JudgedItems(r)
BY DEF JudgedRows, JudgedBy

\* A request that only drafted has judged what it drafted.
LEMMA DraftedOnly ==
  ASSUME NEW r \in Requests, pc[r] \notin {"lock", "write"} \/ ask[r].kind \notin LoadFirst
  PROVE  JudgedBy(r) = [i \in DOMAIN draft[r] |-> draft[r][i].judged]
BY DEF JudgedBy, JudgedItems

LEMMA InitMaps == Init => Ledger!Init
<1> SUFFICES ASSUME Init PROVE Ledger!Init
  OBVIOUS
<1>1. row \in [Items -> {Ledger!NewRow(s) : s \in Starts}]
  BY SameRows DEF Init
<1>2. Over = {}
  BY DEF Init, Over, Ended
<1>3. JudgedRows = [r \in Requests |-> Ledger!NoItem]
  <2>1. ASSUME NEW r \in Requests PROVE JudgedBy(r) = Ledger!NoItem
    BY NoDraftFacts DEF Init, JudgedBy, JudgedItems, Ledger!NoItem
  <2> QED
    BY <2>1 DEF JudgedRows, JudgedBy
<1> QED
  BY <1>1, <1>2, <1>3 DEF Init, Ledger!Init

\* A request that stays where it is, or moves in a way the ledger does not tell.
LEMMA SameJudgment ==
  ASSUME NEW q \in Requests, pc'[q] = pc[q], ask'[q] = ask[q], at'[q] = at[q],
         copy'[q] = copy[q], draft'[q] = draft[q]
  PROVE  JudgedBy(q)' = JudgedBy(q)
BY DEF JudgedBy, JudgedItems, Item

\* Only r has moved: what the others have judged, and who of them is over, is
\* what it was.
LEMMA OthersStay ==
  ASSUME NEW r \in Requests,
         \A q \in Requests : q # r =>
            /\ pc'[q] = pc[q] /\ ask'[q] = ask[q] /\ at'[q] = at[q]
            /\ copy'[q] = copy[q] /\ draft'[q] = draft[q]
  PROVE  /\ JudgedRows' = [JudgedRows EXCEPT ![r] = JudgedBy(r)']
         /\ pc'[r] \in Ended => Over' = Over \cup {r}
         /\ (pc[r] \notin Ended /\ pc'[r] \notin Ended) => Over' = Over
<1>1. \A q \in Requests : q # r => JudgedBy(q)' = JudgedBy(q)
  BY SameJudgment
<1>2. JudgedRows' = [JudgedRows EXCEPT ![r] = JudgedBy(r)']
  BY <1>1 DEF JudgedRows, JudgedBy
<1> QED
  BY <1>2 DEF Over

\* A step that shows in none of the ledger's variables.
LEMMA Invisible ==
  ASSUME NEW r \in Requests, UNCHANGED <<row, log, escalation, ask>>,
         \A q \in Requests : q # r =>
            /\ pc'[q] = pc[q] /\ at'[q] = at[q]
            /\ copy'[q] = copy[q] /\ draft'[q] = draft[q],
         pc[r] \notin Ended, pc'[r] \notin Ended,
         JudgedBy(r)' = JudgedBy(r)
  PROVE  UNCHANGED Ledger!vars
<1>1. JudgedRows' = [JudgedRows EXCEPT ![r] = JudgedBy(r)] /\ Over' = Over
  BY OthersStay
<1>2. JudgedRows' = JudgedRows
  BY <1>1 DEF JudgedRows, JudgedBy
<1> QED
  BY <1>1, <1>2 DEF Ledger!vars

LEMMA ReceiveMaps ==
  ASSUME ReviewInv, JudgmentInv, NEW r \in Requests, Receive(r)
  PROVE  Ledger!Next
<1>1. PICK a : /\ ask' = [ask EXCEPT ![r] = a] /\ LetIn(a)
               /\ pc' = [pc EXCEPT ![r] =
                           IF a.kind \in LockFirst \ {"reopen"} THEN "lock" ELSE "load"]
  BY ReceiveFacts
<1>2. UNCHANGED <<row, log, escalation, at, copy, draft>> /\ pc[r] = "new"
  BY DEF Receive
<1>3. /\ ask'[r] = a /\ pc'[r] \in {"lock", "load"}
      /\ pc'[r] = "lock" => a.kind \in LockFirst
      /\ \A q \in Requests : q # r => ask'[q] = ask[q] /\ pc'[q] = pc[q]
  BY <1>1 DEF ReviewInv, TypeOK
<1>4. a \in Ask
  <2>1. RequestIsSound(r)'
    BY ReceiveInv DEF ReviewInv, RequestsAreSound
  <2> QED
    BY <1>3, <2>1 DEF RequestIsSound
<1>5. draft[r] = NoDraft /\ ask[r] = NoOne
  BY <1>2 DEF ReviewInv, RequestsAreSound, RequestIsSound, Working,
              JudgmentInv, JudgmentIsSound
<1>6. JudgedBy(r)' = JudgedBy(r)
  BY <1>2, <1>3 DEF JudgedBy, JudgedItems, LockFirst, LoadFirst
<1>7. JudgedRows' = [JudgedRows EXCEPT ![r] = JudgedBy(r)] /\ Over' = Over
  BY <1>2, <1>3, <1>6, OthersStay DEF Ended
<1>8. JudgedRows' = JudgedRows
  BY <1>7 DEF JudgedRows, JudgedBy
<1>9. Ledger!Arrive(r)
  <2>1. ask'[r] \in Ledger!Ask /\ Ledger!LetIn(ask'[r])
    BY <1>1, <1>3, <1>4, SameRows
  <2> QED
    BY <1>1, <1>2, <1>3, <1>5, <1>7, <1>8, <2>1 DEF Ledger!Arrive
<1> QED
  BY <1>9 DEF Ledger!Next

\* A request that works on an item is under way for the ledger, and looks at an
\* item it named.
LEMMA WorksUnderWay ==
  ASSUME ReviewInv, NEW r \in Requests, pc[r] \in Working
  PROVE  /\ Ledger!UnderWay(r)
         /\ pc[r] \in {"load", "lock", "write"} =>
               Item(r) \in Items /\ Item(r) \in Named(r)
<1>1. /\ ask[r] \in Ask
      /\ pc[r] \in {"load", "lock", "write"} => at[r] \in DOMAIN ask[r].items
  BY DEF ReviewInv, RequestsAreSound, RequestIsSound, Working
<1>2. r \notin Over
  BY DEF Over, Working, Ended
<1> QED
  BY <1>1, <1>2, ItemType, SameRows DEF Ledger!UnderWay, Item, Named

\* One more item judged, on the row that is committed at that instant.
LEMMA OneMoreJudged ==
  ASSUME ReviewInv, NEW r \in Requests, pc[r] \in {"load", "lock"}, pc'[r] \notin Ended,
         JudgedBy(r) = [j \in DOMAIN draft[r] |-> draft[r][j].judged],
         NEW i, i = Item(r), i \notin DOMAIN draft[r],
         JudgedBy(r)' = [j \in DOMAIN draft[r] \cup {i} |->
                            IF j = i THEN row[i] ELSE draft[r][j].judged],
         UNCHANGED <<row, log, escalation, ask>>,
         \A q \in Requests : q # r =>
            /\ pc'[q] = pc[q] /\ at'[q] = at[q]
            /\ copy'[q] = copy[q] /\ draft'[q] = draft[q]
  PROVE  Ledger!Next
<1>1. JudgedRows' = [JudgedRows EXCEPT ![r] = JudgedBy(r)'] /\ Over' = Over
  BY OthersStay DEF Ended
<1>2. Ledger!UnderWay(r) /\ i \in Items /\ i \in Named(r)
  BY WorksUnderWay DEF Working
<1>3. DOMAIN JudgedBy(r) = DOMAIN draft[r] /\ JudgedRows[r] = JudgedBy(r)
  BY JudgedByFacts
<1>4. JudgedBy(r)' = [j \in DOMAIN JudgedBy(r) \cup {i} |->
                         IF j = i THEN row[i] ELSE JudgedBy(r)[j]]
  BY <1>3
<1>5. JudgedRows' = [JudgedRows EXCEPT ![r] =
                        [j \in DOMAIN @ \cup {i} |-> IF j = i THEN row[i] ELSE @[j]]]
  BY <1>1, <1>3, <1>4
<1>6. Ledger!Judge(r, i)
  BY <1>1, <1>2, <1>3, <1>5 DEF Ledger!Judge, Named
<1> QED
  BY <1>2, <1>6 DEF Ledger!Next

\* The SELECT that starts a load-first operation is its judgment.  A batch that
\* reads back an item it has drafted judges nothing new.
LEMMA LoadMaps ==
  ASSUME ReviewInv, JudgmentInv, NEW r \in Requests, Load(r)
  PROVE  Ledger!Next \/ UNCHANGED Ledger!vars
<1> PICK i : i = Item(r)
  OBVIOUS
<1>1. /\ UNCHANGED <<row, log, escalation, ask, at, draft>> /\ pc[r] = "load"
      /\ ask[r].kind \in LoadFirst
      /\ copy' = [copy EXCEPT ![r] = Visible(r, i)]
      /\ \E next \in {"lock", "write"} : pc' = [pc EXCEPT ![r] = next]
  BY DEF Load
<1>2. /\ copy'[r] = Visible(r, i) /\ pc'[r] \in {"lock", "write"}
      /\ \A q \in Requests : q # r => copy'[q] = copy[q] /\ pc'[q] = pc[q]
  BY <1>1 DEF ReviewInv, TypeOK
<1>3. JudgedBy(r) = [j \in DOMAIN draft[r] |-> draft[r][j].judged]
  BY <1>1, DraftedOnly
<1>4. Item(r)' = i
  BY <1>1 DEF Item
<1>5. JudgedBy(r)' = [j \in DOMAIN draft[r] \cup {i} |->
                         IF j \in DOMAIN draft[r] THEN draft[r][j].judged
                                                  ELSE Visible(r, i)]
  BY <1>1, <1>2, <1>4 DEF JudgedBy, JudgedItems
<1>6. CASE i \in DOMAIN draft[r]
  <2>1. JudgedBy(r)' = JudgedBy(r)
    <3>1. DOMAIN draft[r] \cup {i} = DOMAIN draft[r]
      BY <1>6
    <3> QED
      BY <1>3, <1>5, <3>1
  <2> QED
    BY <1>1, <1>2, <2>1, Invisible DEF Ended
<1>7. CASE i \notin DOMAIN draft[r]
  <2>1. JudgedBy(r)' = [j \in DOMAIN draft[r] \cup {i} |->
                           IF j = i THEN row[i] ELSE draft[r][j].judged]
    BY <1>5, <1>7 DEF Visible
  <2> QED
    BY <1>1, <1>2, <1>3, <1>7, <2>1, OneMoreJudged DEF Ended
<1> QED
  BY <1>6, <1>7

LEMMA EscalationStepsMap ==
  ASSUME ReviewInv, JudgmentInv, NEW r \in Requests,
         ReadEscalation(r) \/ FlushEscalation(r)
  PROVE  UNCHANGED Ledger!vars
<1>1. /\ UNCHANGED <<row, log, escalation, ask, at, copy, draft>>
      /\ pc[r] \in {"load", "flush"}
  BY DEF ReadEscalation, FlushEscalation
<1>2. /\ \A q \in Requests : q # r => pc'[q] = pc[q]
      /\ pc'[r] \in {"flush", "lock", "commit"}
  BY DEF ReadEscalation, FlushEscalation, ReviewInv, TypeOK
<1>3. ask[r].kind \notin LoadFirst
  BY DEF ReadEscalation, FlushEscalation, JudgmentInv, JudgmentIsSound, LoadFirst
<1>4. JudgedBy(r)' = JudgedBy(r)
  BY <1>1, <1>3 DEF JudgedBy, JudgedItems
<1> QED
  BY <1>1, <1>2, <1>4, Invisible DEF Ended

\* Once staged, what was judged is remembered with the draft.
JudgedAlso(r, i, judged) ==
    [j \in DOMAIN draft[r] \cup {i} |->
        IF j = i THEN judged ELSE draft[r][j].judged]

LEMMA StagedJudgment ==
  ASSUME ReviewInv, NEW r \in Requests, NEW i, NEW judged, NEW newRow, NEW entries,
         Stage(r, i, judged, newRow, entries), Onward(r)
  PROVE  JudgedBy(r)' = JudgedAlso(r, i, judged)
<1>1. pc'[r] \in {"load", "commit"}
  BY OnwardFacts
<1>2. JudgedBy(r)' = [j \in DOMAIN draft'[r] |-> draft'[r][j].judged]
  BY <1>1 DEF JudgedBy, JudgedItems
<1>3. /\ DOMAIN draft'[r] = DOMAIN draft[r] \cup {i}
      /\ draft'[r][i] = [row |-> newRow, entries |-> entries, judged |-> judged]
      /\ \A j \in DOMAIN draft[r] : j # i => draft'[r][j] = draft[r][j]
  BY StageFacts
<1>4. draft'[r][i].judged = judged
  BY <1>3
<1> QED
  BY <1>2, <1>3, <1>4 DEF JudgedAlso

\* What a load-first operation has judged when it holds, or waits for, the lock.
LEMMA JudgedAtLock ==
  ASSUME NEW r \in Requests, pc[r] \in {"lock", "write"}, ask[r].kind \in LoadFirst
  PROVE  JudgedBy(r) = [j \in DOMAIN draft[r] \cup {Item(r)} |->
                           IF j \in DOMAIN draft[r] THEN draft[r][j].judged
                                                    ELSE copy[r]]
BY DEF JudgedBy, JudgedItems

\* A transition is the judgment of an operation that locks first; one that
\* loads first has judged before, and stages what it judged then.
LEMMA TransitionMaps ==
  ASSUME ReviewInv, JudgmentInv, NEW r \in Requests, transition_work_item(r)
  PROVE  Ledger!Next \/ UNCHANGED Ledger!vars
<1> PICK i : i = Item(r)
  OBVIOUS
<1>1. /\ pc[r] = "lock" /\ Onward(r)
      /\ UNCHANGED <<row, log, escalation, ask, copy>>
      /\ Stage(r, i, Judged(r), Flushed(Judged(r), Assigned(r), Visible(r, i)),
               <<EntryOf(r, ask[r], Judged(r))>>)
  BY DEF transition_work_item
<1>2. i \notin DOMAIN draft[r]
  BY NotDraftedTwice
<1>3. JudgedBy(r)' = [j \in DOMAIN draft[r] \cup {i} |->
                         IF j = i THEN Judged(r) ELSE draft[r][j].judged]
  <2>1. JudgedBy(r)' = JudgedAlso(r, i, Judged(r))
    BY <1>1, StagedJudgment
  <2> QED
    BY <2>1 DEF JudgedAlso
<1>4. /\ \A q \in Requests : q # r =>
            /\ pc'[q] = pc[q] /\ at'[q] = at[q]
            /\ copy'[q] = copy[q] /\ draft'[q] = draft[q]
      /\ pc'[r] \notin Ended
  BY <1>1, OnwardFacts, StageFacts DEF Ended
<1>5. CASE ask[r].kind \in LoadFirst
  <2>1. JudgedBy(r) = [j \in DOMAIN draft[r] \cup {i} |->
                          IF j \in DOMAIN draft[r] THEN draft[r][j].judged
                                                   ELSE copy[r]]
    BY <1>1, <1>5, JudgedAtLock
  <2>2. Judged(r) = copy[r]
    BY <1>5 DEF Judged
  <2>3. JudgedBy(r)' = JudgedBy(r)
    BY <1>2, <1>3, <2>1, <2>2
  <2> QED
    BY <1>1, <1>4, <2>3, Invisible DEF Ended
<1>6. CASE ask[r].kind \notin LoadFirst
  <2>1. ask[r].kind \in LockFirst
    BY <1>6, TransitionFacts, ReviewAssumption DEF Ask, AllKinds
  <2>2. Judged(r) = row[i]
    BY <2>1, TransitionFacts
  <2>3. JudgedBy(r) = [j \in DOMAIN draft[r] |-> draft[r][j].judged]
    BY <1>6, DraftedOnly
  <2> QED
    BY <1>1, <1>2, <1>3, <1>4, <2>2, <2>3, OneMoreJudged
<1> QED
  BY <1>5, <1>6

\* A batch passes over an item it may not move, or one it has moved.
LEMMA SkipMaps ==
  ASSUME ReviewInv, JudgmentInv, NEW r \in Requests, SkipBatchItem(r)
  PROVE  Ledger!Next \/ UNCHANGED Ledger!vars
<1> PICK i : i = Item(r)
  OBVIOUS
<1>1. /\ pc[r] = "lock" /\ ask[r].kind = "batch" /\ Onward(r) /\ ~Allowed(r)
      /\ UNCHANGED <<row, log, escalation, ask, copy, draft>>
  BY DEF SkipBatchItem
<1>2. /\ \A q \in Requests : q # r => pc'[q] = pc[q] /\ at'[q] = at[q]
      /\ pc'[r] \in {"load", "commit"}
  BY <1>1, OnwardFacts
<1>3. JudgedBy(r) = [j \in DOMAIN draft[r] \cup {i} |->
                        IF j \in DOMAIN draft[r] THEN draft[r][j].judged
                                                 ELSE copy[r]]
  BY <1>1, JudgedAtLock DEF LoadFirst
<1>4. JudgedBy(r)' = [j \in DOMAIN draft[r] |-> draft[r][j].judged]
  BY <1>1, <1>2 DEF JudgedBy, JudgedItems
<1>5. CASE i \in DOMAIN draft[r]
  <2>1. DOMAIN draft[r] \cup {i} = DOMAIN draft[r]
    BY <1>5
  <2>2. JudgedBy(r)' = JudgedBy(r)
    BY <1>3, <1>4, <2>1
  <2> QED
    BY <1>1, <1>2, <2>2, Invisible DEF Ended
<1>6. CASE i \notin DOMAIN draft[r]
  <2>1. Ledger!UnderWay(r) /\ i \in Items
    BY <1>1, WorksUnderWay DEF Working
  <2>2. /\ JudgedRows[r] = JudgedBy(r) /\ i \in DOMAIN JudgedBy(r)
        /\ JudgedBy(r)[i] = copy[r]
    BY <1>3, <1>6, JudgedByFacts
  <2>3. ~Ledger!Legal(r, i)
    <3>1. Judged(r) = copy[r]
      BY <1>1 DEF Judged, LoadFirst
    <3>2. ~LegalEntry(EntryOf(r, ask[r], copy[r]), i)
      BY <1>1, <3>1 DEF Allowed, require_realm, validate_work_item_transition,
                        Authorised, LegalEntry, EntryOf
    <3> QED
      BY <2>2, <3>2, SameRows DEF Ledger!Legal
  <2>4. /\ JudgedRows' = [JudgedRows EXCEPT ![r] = JudgedBy(r)'] /\ Over' = Over
    BY <1>1, <1>2, OthersStay DEF Ended
  <2>5. JudgedBy(r)' = [j \in DOMAIN JudgedBy(r) \ {i} |-> JudgedBy(r)[j]]
    <3>1. DOMAIN JudgedBy(r) \ {i} = DOMAIN draft[r]
      BY <1>3, <1>6
    <3> QED
      BY <1>3, <1>4, <3>1
  <2>6. JudgedRows' = [JudgedRows EXCEPT ![r] = [j \in DOMAIN @ \ {i} |-> @[j]]]
    BY <2>2, <2>4, <2>5
  <2>7. Ledger!Skip(r, i)
    BY <1>1, <2>1, <2>2, <2>3, <2>4, <2>6 DEF Ledger!Skip
  <2> QED
    BY <2>1, <2>7 DEF Ledger!Next
<1> QED
  BY <1>5, <1>6

\* A correction stages what it loaded.
LEMMA CorrectionMaps ==
  ASSUME ReviewInv, JudgmentInv, NEW r \in Requests, WriteCorrection(r)
  PROVE  UNCHANGED Ledger!vars
<1> PICK i : i = Item(r)
  OBVIOUS
<1>1. /\ pc[r] = "write" /\ Onward(r)
      /\ Stage(r, i, copy[r], CorrectedRow(r, i), << >>)
      /\ UNCHANGED <<row, log, escalation, ask, copy>>
  BY DEF WriteCorrection
<1>2. /\ \A q \in Requests : q # r =>
            /\ pc'[q] = pc[q] /\ at'[q] = at[q]
            /\ copy'[q] = copy[q] /\ draft'[q] = draft[q]
      /\ pc'[r] \notin Ended
  BY <1>1, OnwardFacts, StageFacts DEF Ended
<1>3. ask[r].kind = "correct" /\ draft[r] = NoDraft
  BY <1>1 DEF ReviewInv, RequestsAreSound, RequestIsSound
<1>4. JudgedBy(r) = [j \in DOMAIN draft[r] \cup {i} |->
                        IF j \in DOMAIN draft[r] THEN draft[r][j].judged
                                                 ELSE copy[r]]
  BY <1>1, <1>3, JudgedAtLock DEF LoadFirst
<1>5. JudgedBy(r)' = [j \in DOMAIN draft[r] \cup {i} |->
                         IF j = i THEN copy[r] ELSE draft[r][j].judged]
  <2>1. JudgedBy(r)' = JudgedAlso(r, i, copy[r])
    BY <1>1, StagedJudgment
  <2> QED
    BY <2>1 DEF JudgedAlso
<1>6. JudgedBy(r)' = JudgedBy(r)
  BY <1>3, <1>4, <1>5, NoDraftFacts
<1> QED
  BY <1>1, <1>2, <1>6, Invisible DEF Ended

\* A rollback gives the request up.
LEMMA EndsBadlyMaps ==
  ASSUME ReviewInv, JudgmentInv, NEW r \in Requests,
         Refuse(r) \/ Abort(r) \/ BreakDeadlock(r)
  PROVE  Ledger!Next
<1>1. JudgedBy(r)' = Ledger!NoItem
  BY EndsBadlyFacts, NoDraftFacts DEF JudgedBy, JudgedItems, Ended, Ledger!NoItem
<1>2. /\ JudgedRows' = [JudgedRows EXCEPT ![r] = JudgedBy(r)']
      /\ Over' = Over \cup {r}
  BY EndsBadlyFacts, OthersStay
<1>3. Ledger!UnderWay(r)
  BY EndsBadlyFacts, WorksUnderWay
<1>4. Ledger!GiveUp(r)
  BY <1>1, <1>2, <1>3, EndsBadlyFacts DEF Ledger!GiveUp
<1> QED
  BY <1>4 DEF Ledger!Next

\* What a commit installs of an item it drafted is the effect of its judgment,
\* over the row as it is.
LEMMA CommitEffects ==
  ASSUME ReviewInv, JudgmentInv, NEW r \in Requests, Commit(r),
         NEW i \in DOMAIN draft[r],
         JudgedRows[r][i] = draft[r][i].judged
  PROVE  /\ row'[i] = Ledger!Effect(r, i)
         /\ log'[i] = Ledger!Recorded(r, i)
         /\ ~Ledger!OnlyCorrects(ask[r], JudgedRows[r][i]) => Ledger!Legal(r, i)
         /\ ask[r].kind \in LockFirst => JudgedRows[r][i] = row[i]
<1> DEFINE d == draft[r][i]
           e == EntryOf(r, ask[r], d.judged)
<1>1. i \in Items /\ log[i] \in Seq(Entry)
  BY DEF ReviewInv, TypeOK
<1>2. row'[i] = d.row /\ log'[i] = log[i] \o d.entries
  BY <1>1 DEF Commit, Visible
<1>3. DraftIsEffect(r, i)
  BY DEF JudgmentInv, JudgmentIsSound
<1>4. CASE OnlyCorrects(ask[r], d.judged)
  <2>1. d.row = [row[i] EXCEPT !.recommended = r] /\ d.entries = << >>
    BY <1>3, <1>4 DEF DraftIsEffect
  <2>2. log[i] \o << >> = log[i]
    BY <1>1
  <2>3. Ledger!OnlyCorrects(ask[r], JudgedRows[r][i])
    BY <1>4, SameRows
  <2>4. ask[r].kind \in LockFirst => d.judged = row[i]
    BY <1>3 DEF DraftIsEffect
  <2> QED
    BY <1>2, <2>1, <2>2, <2>3, <2>4 DEF Ledger!Effect, Ledger!Recorded
<1>5. CASE ~OnlyCorrects(ask[r], d.judged)
  <2>1. /\ d.row = Flushed(d.judged, Moved(r, ask[r], d.judged), row[i])
        /\ d.entries = <<e>> /\ LegalEntry(e, i)
    BY <1>3, <1>5 DEF DraftIsEffect
  <2>2. log[i] \o <<e>> = Append(log[i], e)
    BY <1>1
  <2>3. ~Ledger!OnlyCorrects(ask[r], JudgedRows[r][i])
    BY <1>5, SameRows
  <2>4. Ledger!EntryOf(r, ask[r], JudgedRows[r][i]) = e
    BY SameRows
  <2>5. row'[i] = Ledger!Effect(r, i)
    BY <1>2, <2>1, <2>3, SameRows DEF Ledger!Effect
  <2>6. log'[i] = Ledger!Recorded(r, i)
    BY <1>2, <2>1, <2>2, <2>3, <2>4 DEF Ledger!Recorded
  <2>7. Ledger!Legal(r, i)
    BY <2>1, <2>4, SameRows DEF Ledger!Legal
  <2>8. ask[r].kind \in LockFirst => d.judged = row[i]
    BY <1>3 DEF DraftIsEffect
  <2> QED
    BY <2>5, <2>6, <2>7, <2>8
<1> QED
  BY <1>4, <1>5

\* A commit is the instant at which a request takes effect, as a whole.
LEMMA CommitMaps ==
  ASSUME ReviewInv, JudgmentInv, NEW r \in Requests, Commit(r)
  PROVE  Ledger!Next
<1> DEFINE S == DOMAIN draft[r]
<1>1. /\ row' = [i \in Items |-> Visible(r, i)]
      /\ log' = [i \in Items |-> IF i \in S THEN log[i] \o draft[r][i].entries
                                            ELSE log[i]]
      /\ escalation' = EscalationsAfter(r, ask[r], escalation)
  BY DEF Commit
<1>2. JudgedBy(r) = [j \in S |-> draft[r][j].judged]
  BY CommitFacts, DraftedOnly
<1>3. /\ DOMAIN JudgedRows[r] = S
      /\ \A i \in S : JudgedRows[r][i] = draft[r][i].judged
  BY <1>2, JudgedByFacts
<1>4. \A i \in S : /\ row'[i] = Ledger!Effect(r, i)
                   /\ log'[i] = Ledger!Recorded(r, i)
                   /\ ~Ledger!OnlyCorrects(ask[r], JudgedRows[r][i]) => Ledger!Legal(r, i)
                   /\ ask[r].kind \in LockFirst => JudgedRows[r][i] = row[i]
  BY <1>3, CommitEffects
<1>5. row' = [i \in Items |-> IF i \in S THEN Ledger!Effect(r, i) ELSE row[i]]
  <2>1. \A i \in Items : row'[i] = IF i \in S THEN Ledger!Effect(r, i) ELSE row[i]
    BY <1>1, <1>4 DEF Visible
  <2> QED
    BY <1>1, <2>1
<1>6. log' = [i \in Items |-> IF i \in S THEN Ledger!Recorded(r, i) ELSE log[i]]
  <2>1. \A i \in Items : log'[i] = IF i \in S THEN Ledger!Recorded(r, i) ELSE log[i]
    BY <1>1, <1>4
  <2> QED
    BY <1>1, <2>1
<1>7. escalation' = Ledger!EscalationsAfter(r, ask[r], escalation)
  BY <1>1, SameRows
<1>8. JudgedBy(r)' = Ledger!NoItem
  BY CommitFacts, NoDraftFacts DEF JudgedBy, JudgedItems, Ledger!NoItem
<1>9. /\ JudgedRows' = [JudgedRows EXCEPT ![r] = Ledger!NoItem]
      /\ Over' = Over \cup {r}
  BY <1>8, CommitFacts, OthersStay DEF Ended
<1>10. Ledger!UnderWay(r)
  BY CommitFacts, WorksUnderWay DEF Working
<1>11. ask[r].kind \notin {"batch", "resolve"} => S # {}
  BY CommitFacts DEF JudgmentInv, JudgmentIsSound
<1>12. Ledger!LockFirst = LockFirst
  BY SameRows
<1> HIDE DEF S
<1>13. Ledger!TakeEffect(r)
  BY <1>3, <1>4, <1>5, <1>6, <1>7, <1>9, <1>10, <1>11, <1>12, CommitFacts
  DEF Ledger!TakeEffect
<1> QED
  BY <1>13 DEF Ledger!Next

\* Every step is a step of the ledger or leaves it alone.
LEMMA StepMaps ==
  ASSUME ReviewInv, JudgmentInv, [Next]_vars
  PROVE  [Ledger!Next]_(Ledger!vars)
<1>1. CASE UNCHANGED vars
  <2>1. \A q \in Requests : JudgedBy(q)' = JudgedBy(q)
    BY <1>1, SameJudgment DEF vars
  <2>2. UNCHANGED JudgedRows
    BY <2>1 DEF JudgedRows, JudgedBy
  <2> QED
    BY <1>1, <2>2 DEF vars, Ledger!vars, Over
<1>2. ASSUME NEW r \in Requests, Receive(r) \/ Handle(r) \/ Abort(r)
      PROVE  Ledger!Next \/ UNCHANGED Ledger!vars
  BY <1>2, ReceiveMaps, LoadMaps, EscalationStepsMap, TransitionMaps, SkipMaps,
     CorrectionMaps, EndsBadlyMaps, CommitMaps DEF Handle
<1> QED
  BY <1>1, <1>2 DEF Next

\* The requests, with their sessions, row locks, deadlocks and rollbacks, do to
\* the rows what the ledger allows: each judges its items, and takes effect
\* later as a whole or not at all; what an operation that locks first has judged
\* is what it replaces (services.py over workflow.py and db/session.py).
THEOREM Refinement == Spec => ImplementsReview
<1>1. [](ReviewInv /\ JudgmentInv) /\ [][Next]_vars => [][Ledger!Next]_(Ledger!vars)
  BY StepMaps, PTL
<1> QED
  BY InitMaps, JudgmentHolds, <1>1, PTL DEF Spec, ImplementsReview, Ledger!Spec

-----------------------------------------------------------------------------
(* Where the trail of an item breaks.  What is judged under the lock is the *)
(* committed row (JudgmentInv), whose status is the end of the trail        *)
(* (RowMatchesAudit); and who is on record has arrived (ReportInv), so that *)
(* what it asks for stays what it is.                                       *)

\* The steps that put nothing on record.
LEMMA ChainKept ==
  ASSUME ReviewInv, ReportInv, LockedStepsChain, UNCHANGED log,
         \A q \in Requests : pc[q] # "new" => ask'[q] = ask[q]
  PROVE  LockedStepsChain'
<1> SUFFICES ASSUME NEW i \in Items, NEW k \in 2..Len(log[i]),
                    ask'[log[i][k].req].kind \in LockFirst
             PROVE  log[i][k].from = log[i][k - 1].to
  BY DEF LockedStepsChain
<1>1. log[i] \in Seq(Entry)
  BY DEF ReviewInv, TypeOK
<1>2. k \in 1..Len(log[i]) /\ log[i][k] \in Entry
  BY <1>1
<1>3. PICK q \in Requests : q = log[i][k].req
  BY <1>2 DEF Entry
<1>4. pc[q] = "done"
  BY <1>2, <1>3 DEF ReportInv, ReportIsSound, Logged
<1>5. ask'[q] = ask[q]
  BY <1>4
<1> QED
  BY <1>3, <1>5 DEF LockedStepsChain

\* The entry a lock-first operation adds starts where the trail ended.
LEMMA ChainCommit ==
  ASSUME ReviewInv, JudgmentInv, LockedStepsChain, NEW r \in Requests, Commit(r)
  PROVE  LockedStepsChain'
<1> SUFFICES ASSUME NEW i \in Items, NEW k \in 2..Len(log'[i]),
                    ask[log'[i][k].req].kind \in LockFirst
             PROVE  log'[i][k].from = log'[i][k - 1].to
  BY CommitFacts DEF LockedStepsChain
<1>1. log[i] \in Seq(Entry)
  BY DEF ReviewInv, TypeOK
<1>2. log'[i] = IF i \in DOMAIN draft[r] THEN log[i] \o draft[r][i].entries ELSE log[i]
  BY DEF Commit
<1>3. CASE log'[i] = log[i]
  BY <1>3 DEF LockedStepsChain
<1>4. CASE log'[i] # log[i]
  <2> DEFINE d == draft[r][i]
             e == EntryOf(r, ask[r], d.judged)
             n == Len(log[i])
  <2>1. i \in DOMAIN draft[r] /\ log'[i] = log[i] \o d.entries
    BY <1>2, <1>4
  <2>2. d.entries # << >>
    <3>1. log[i] \o << >> = log[i]
      BY <1>1
    <3> QED
      BY <1>4, <2>1, <3>1
  <2>3. d.entries = <<e>> /\ (ask[r].kind \in LockFirst => d.judged = row[i])
    BY <2>1, <2>2 DEF JudgmentInv, JudgmentIsSound, DraftIsEffect
  <2>4. /\ n \in Nat /\ Len(log'[i]) = n + 1 /\ log'[i][n + 1] = e
        /\ \A j \in 1..n : log'[i][j] = log[i][j]
    <3>1. log[i] \o <<e>> = Append(log[i], e)
      BY <1>1
    <3> HIDE DEF e
    <3> QED
      BY <1>1, <2>1, <2>3, <3>1
  <2> HIDE DEF n
  <2>5. CASE k = n + 1
    <3>1. k - 1 = n /\ n \in 1..n
      BY <2>4, <2>5
    <3>2. e.req = r /\ e.from = d.judged.status
      BY DEF EntryOf
    <3>3. d.judged = row[i]
      BY <2>3, <2>4, <2>5, <3>2
    <3>4. row[i].status = log[i][n].to
      <4>1. log[i] # << >>
        BY <3>1 DEF n
      <4> QED
        BY <4>1 DEF ReviewInv, RowMatchesAudit, n
    <3> QED
      BY <2>4, <2>5, <3>1, <3>2, <3>3, <3>4
  <2>6. CASE k # n + 1
    <3>1. k \in 2..n /\ k \in 1..n /\ k - 1 \in 1..n
      BY <2>4, <2>6
    <3> QED
      BY <2>4, <3>1 DEF LockedStepsChain, n
  <2> QED
    BY <2>5, <2>6
<1> QED
  BY <1>3, <1>4

LEMMA ChainStep ==
  ReviewInv /\ JudgmentInv /\ ReportInv /\ LockedStepsChain /\ [Next]_vars
  => LockedStepsChain'
<1> SUFFICES ASSUME ReviewInv, JudgmentInv, ReportInv, LockedStepsChain, [Next]_vars
             PROVE  LockedStepsChain'
  OBVIOUS
<1>1. CASE UNCHANGED vars
  BY <1>1, ChainKept DEF vars
<1>2. ASSUME NEW r \in Requests, Receive(r) PROVE LockedStepsChain'
  <2>1. UNCHANGED log /\ \A q \in Requests : pc[q] # "new" => ask'[q] = ask[q]
    BY <1>2 DEF Receive, ReviewInv, TypeOK
  <2> QED
    BY <2>1, ChainKept
<1>3. ASSUME NEW r \in Requests, Commit(r) PROVE LockedStepsChain'
  BY <1>3, ChainCommit
<1>4. ASSUME NEW r \in Requests,
             \/ Load(r) \/ ReadEscalation(r) \/ FlushEscalation(r)
             \/ transition_work_item(r) \/ SkipBatchItem(r) \/ Refuse(r)
             \/ WriteCorrection(r) \/ BreakDeadlock(r) \/ Abort(r)
      PROVE  LockedStepsChain'
  <2>1. UNCHANGED <<log, ask>>
    BY <1>4 DEF Load, ReadEscalation, FlushEscalation, transition_work_item,
       SkipBatchItem, Refuse, WriteCorrection, BreakDeadlock, Abort, RollBack
  <2> QED
    BY <2>1, ChainKept
<1> QED
  BY <1>1, <1>2, <1>3, <1>4 DEF Next, Handle

\* A transition judged under the lock starts where the one before it on record
\* ended: only what was loaded first (approve, batch_approve, record_correction,
\* create_escalation) can leave a gap in work_item_transition.
THEOREM LockedStepsChainHolds == Spec => []LockedStepsChain
<1>1. Init => ReviewInv /\ JudgmentInv /\ ReportInv /\ LockedStepsChain
  <2>1. Init => LockedStepsChain
    BY DEF Init, LockedStepsChain
  <2> QED
    BY <2>1, InitInv, JudgmentInit, ReportInit
<1>2. (ReviewInv /\ JudgmentInv /\ ReportInv /\ LockedStepsChain) /\ [Next]_vars
      => (ReviewInv /\ JudgmentInv /\ ReportInv /\ LockedStepsChain)'
  BY NextInv, JudgmentStep, ReportStep, ChainStep
<1> QED
  BY <1>1, <1>2, PTL DEF Spec
=============================================================================
