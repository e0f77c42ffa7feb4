------------------------ MODULE TransactionSyncProofs ------------------------
(***************************************************************************)
(* Proofs about TransactionSync, for any remote, any number of runs and    *)
(* any page size, limit and window.  The inductive invariant SyncInv says  *)
(* of every run where each record is that it fetched for its entity: still *)
(* to be persisted, in its uncommitted rows, or covered by what was        *)
(* committed once, by this run or by another.                              *)
(***************************************************************************)
EXTENDS TransactionSync, FiniteSetTheorems, WellFoundedInduction, SequenceTheorems, TLAPS

Lists    == {request[2] : request \in Requests}
DraftRow == [snapshot : Snapshot, txn : Nat]

\* A record that was fetched is still to be persisted, or drafted, or kept.
Held(rec, a, d, k) ==
    \/ rec \in a.page
    \/ rec.version <= k[rec.id]
    \/ rec.id \in DOMAIN d /\ rec.version <= d[rec.id].snapshot.version

\* What holds of a run that knows a, stands where it stands and has drafted d,
\* when k is kept and the checkpoints are c.
Typed(a, where, d) ==
    /\ where \in Places
    /\ a \in Run \cup {None}
    /\ DOMAIN d \subseteq Txns
    /\ d \in [DOMAIN d -> DraftRow]
    /\ where \notin {"look", "write", "commit"} => d = NoDraft

Started(a, where, c) ==
    /\ a \in Run
    /\ a.n \in 1..Len(a.list)
    /\ IsFiniteSet(a.answer)
    /\ a.mode = "BACKFILL" => a.cp = None
    /\ a.cp # None => c[<<a.list[a.n], a.mode>>] # None
    /\ where \in {"fetch", "look", "write", "commit"} =>
          (a.mode = "INCREMENTAL" => a.windows # << >>)

Accounted(a, where, d, k) ==
    /\ where \in {"look", "write"} =>
          /\ a.page # {}
          /\ \A rec \in a.page : rec.id \notin DOMAIN d
          /\ \A rec, other \in a.page : rec.id = other.id => rec = other
    /\ where \notin {"look", "write"} => a.page = {}
    /\ where = "write" =>
          /\ a.looked \in Snapshot
          /\ a.looked.version <= k[NextOf(a.page).id]
    /\ where \in {"fetch", "look", "write", "commit", "mark", "insert"} =>
          \A rec \in a.seen : Held(rec, a, d, k)

Sound(a, where, d, k, c) ==
    /\ Typed(a, where, d)
    /\ where # "new" => Started(a, where, c) /\ Accounted(a, where, d, k)

SharedOK ==
    /\ clock \in Int
    /\ remote \in [Txns -> [version : Nat, at : Int, live : BOOLEAN]]
    /\ snapshot \in [Txns -> Snapshot]
    /\ txn \in [Txns -> Nat]
    /\ checkpoint \in [Keys -> Mark \cup {None}]
    /\ syncRun \in [Runs -> Report]
    /\ lock \in [Txns -> Runs \cup {None}]
    /\ kept \in [Txns -> Nat]
    /\ coveredFrom \in [Entities -> Int]
    /\ pc = [r \in Runs |-> pc[r]]
    /\ run = [r \in Runs |-> run[r]]
    /\ draft = [r \in Runs |-> draft[r]]
    /\ \A t \in Txns : snapshot[t].version <= kept[t]

RunsAreSound == \A r \in Runs : Sound(run[r], pc[r], draft[r], kept, checkpoint)

SyncInv == SharedOK /\ RunsAreSound

-----------------------------------------------------------------------------
(* Data.                                                                   *)

LEMMA ListFacts == \A list \in Lists : list \in Seq(Entities) /\ Len(list) \in Nat \ {0}
<1> SUFFICES ASSUME NEW request \in Requests
             PROVE  request[2] \in Seq(Entities) /\ Len(request[2]) \in Nat \ {0}
  BY DEF Lists
<1>1. request[2] \in Seq(Entities) /\ request[2] # << >>
  BY SyncAssumption
<1> QED
  BY <1>1

\* A sequence in which one element is replaced, if it has that one.
LEMMA ReplacedIn ==
  ASSUME NEW S, NEW s \in Seq(S), NEW n \in Nat, NEW x \in S
  PROVE  /\ [s EXCEPT ![n] = x] \in Seq(S)
         /\ Len([s EXCEPT ![n] = x]) = Len(s)
         /\ \A j \in 1..Len(s) : [s EXCEPT ![n] = x][j] = IF j = n THEN x ELSE s[j]
<1>1. CASE n \in 1..Len(s)
  BY <1>1, ExceptSeq
<1>2. CASE n \notin 1..Len(s)
  <2>1. s = [j \in 1..Len(s) |-> s[j]]
    BY LenProperties
  <2>2. [s EXCEPT ![n] = x] = s
    BY <1>2, <2>1
  <2> QED
    BY <1>2, <2>2
<1> QED
  BY <1>1, <1>2

LEMMA NoDraftFacts == DOMAIN NoDraft = {} /\ NoDraft \in [DOMAIN NoDraft -> DraftRow]
  BY DEF NoDraft

\* A finite set of numbers that is not empty has a least one.
LEMMA LeastOf ==
  ASSUME NEW S \in SUBSET Nat, IsFiniteSet(S), NEW P \in SUBSET S, P # {}
  PROVE  \E p \in P : \A q \in P : p <= q
<1> DEFINE Below(t) == {u \in S : u <= t}
           T == {Below(p) : p \in P}
<1>1. T \subseteq SUBSET S /\ T # {}
  <2>1. \A t : Below(t) \subseteq S
    OBVIOUS
  <2> HIDE DEF Below
  <2> QED
    BY <2>1
<1>2. IsWellFoundedOn(StrictSubsetOrdering(S), SUBSET S)
  BY FS_StrictSubsetOrderingWellFounded, FS_FiniteSubsetsOfFinite
<1>3. PICK x \in T : \A y \in T : <<y, x>> \notin StrictSubsetOrdering(S)
  <2> HIDE DEF T
  <2> QED
    BY <1>1, <1>2, WFMin
<1>4. PICK p \in P : x = Below(p)
  BY <1>3
<1>5. ASSUME NEW q \in P PROVE p <= q
  <2>1. p \in Nat /\ q \in Nat /\ p \in S /\ q \in S
    OBVIOUS
  <2>2. <<Below(q), Below(p)>> \notin StrictSubsetOrdering(S)
    BY <1>3, <1>4
  <2>3. CASE q < p
    <3>1. ASSUME NEW u \in Below(q) PROVE u \in Below(p)
      <4>1. u \in S /\ u \in Nat /\ u <= q
        BY <3>1
      <4> QED
        BY <2>1, <2>3, <4>1
    <3>2. p \in Below(p) /\ p \notin Below(q)
      BY <2>1, <2>3
    <3>3. Below(q) \in SUBSET S /\ Below(p) \in SUBSET S
      OBVIOUS
    <3>4. Below(q) \subseteq Below(p)
      BY <3>1
    <3> HIDE DEF Below
    <3> QED
      BY <2>2, <3>2, <3>3, <3>4 DEF StrictSubsetOrdering
  <2> QED
    BY <2>1, <2>3
<1> QED
  BY <1>5

LEMMA NextOfFacts ==
  ASSUME NEW page \in SUBSET Record, page # {}
  PROVE  NextOf(page) \in page
<1> DEFINE P == {rec.id : rec \in page}
<1>1. P \in SUBSET Txns /\ P # {}
  BY DEF Record
<1>2. PICK p \in P : \A q \in P : p <= q
  <2> HIDE DEF P
  <2> QED
    BY <1>1, LeastOf, SyncAssumption
<1>3. PICK rec \in page : rec.id = p
  OBVIOUS
<1>4. \A o \in page : rec.id <= o.id
  BY <1>2, <1>3
<1> QED
  BY <1>4 DEF NextOf

-----------------------------------------------------------------------------
(* Steps.                                                                  *)

\* What is kept only grows, and a checkpoint row is never removed.
LEMMA SoundStays ==
  ASSUME NEW a, NEW where, NEW d, NEW k, NEW c, NEW k2, NEW c2,
         Sound(a, where, d, k, c),
         k \in [Txns -> Nat], k2 \in [Txns -> Nat],
         \A t \in Txns : k[t] <= k2[t],
         \A key \in Keys : c[key] # None => c2[key] # None
  PROVE  Sound(a, where, d, k2, c2)
<1> SUFFICES ASSUME where # "new"
             PROVE  Started(a, where, c2) /\ Accounted(a, where, d, k2)
  BY DEF Sound
<1>1. Started(a, where, c) /\ Accounted(a, where, d, k)
  BY DEF Sound
<1>2. /\ a.list \in Seq(Entities) /\ a.list[a.n] \in Entities
      /\ a.mode \in {"BACKFILL", "INCREMENTAL"}
      /\ a.page \subseteq Record /\ a.seen \subseteq Record
  BY <1>1, ListFacts DEF Started, Run, Lists
<1>3. Started(a, where, c2)
  BY <1>1, <1>2 DEF Started, Keys
<1>4. ASSUME NEW rec \in Record, NEW v \in Nat, v <= k[rec.id]
      PROVE  v <= k2[rec.id]
  <2>1. rec.id \in Txns
    BY DEF Record
  <2>2. k[rec.id] \in Nat /\ k2[rec.id] \in Nat /\ k[rec.id] <= k2[rec.id]
    BY <2>1
  <2> QED
    BY <1>4, <2>2
<1>5. \A rec \in a.seen : Held(rec, a, d, k) => Held(rec, a, d, k2)
  BY <1>2, <1>4 DEF Held, Record
<1>6. where = "write" => a.looked.version <= k2[NextOf(a.page).id]
  <2> SUFFICES ASSUME where = "write"
               PROVE  a.looked.version <= k2[NextOf(a.page).id]
    OBVIOUS
  <2>1. a.page # {} /\ a.looked \in Snapshot /\ a.looked.version <= k[NextOf(a.page).id]
    BY <1>1 DEF Accounted
  <2>2. NextOf(a.page) \in Record
    BY <1>2, <2>1, NextOfFacts
  <2>3. a.looked.version \in Nat
    BY <2>1 DEF Snapshot
  <2> QED
    BY <1>4, <2>1, <2>2, <2>3
<1> QED
  BY <1>1, <1>3, <1>5, <1>6 DEF Accounted

\* A step of one run, which may commit.
LEMMA RunStep ==
  ASSUME SyncInv, NEW r \in Runs, NEW a, NEW where, NEW d,
         run' = [run EXCEPT ![r] = a],
         pc' = [pc EXCEPT ![r] = where],
         draft' = [draft EXCEPT ![r] = d],
         kept' \in [Txns -> Nat], \A t \in Txns : kept[t] <= kept'[t],
         \A key \in Keys : checkpoint[key] # None => checkpoint'[key] # None,
         Sound(a, where, d, kept', checkpoint')
  PROVE  /\ RunsAreSound'
         /\ pc' = [q \in Runs |-> pc'[q]]
         /\ run' = [q \in Runs |-> run'[q]]
         /\ draft' = [q \in Runs |-> draft'[q]]
<1>1. DOMAIN pc = Runs /\ DOMAIN run = Runs /\ DOMAIN draft = Runs
  <2>1. /\ pc = [q \in Runs |-> pc[q]] /\ run = [q \in Runs |-> run[q]]
        /\ draft = [q \in Runs |-> draft[q]]
    BY DEF SyncInv, SharedOK
  <2> QED
    BY <2>1
<1>2. ASSUME NEW q \in Runs
      PROVE  Sound(run'[q], pc'[q], draft'[q], kept', checkpoint')
  <2>1. CASE q = r
    BY <1>1, <2>1
  <2>2. CASE q # r
    <3>1. run'[q] = run[q] /\ pc'[q] = pc[q] /\ draft'[q] = draft[q]
      BY <1>1, <2>2
    <3>2. Sound(run[q], pc[q], draft[q], kept, checkpoint)
      BY DEF SyncInv, RunsAreSound
    <3>3. kept \in [Txns -> Nat]
      BY DEF SyncInv, SharedOK
    <3> QED
      BY <3>1, <3>2, <3>3, SoundStays
  <2> QED
    BY <2>1, <2>2
<1> QED
  BY <1>1, <1>2 DEF RunsAreSound

\* A step of one run that changes nothing shared.
LEMMA PrivateStep ==
  ASSUME SyncInv, NEW r \in Runs, NEW a, NEW where,
         run' = [run EXCEPT ![r] = a],
         pc' = [pc EXCEPT ![r] = where],
         UNCHANGED <<clock, remote, snapshot, txn, checkpoint, syncRun, lock,
                     draft, kept, coveredFrom>>,
         Sound(a, where, draft[r], kept, checkpoint)
  PROVE  SyncInv'
<1>1. draft' = [draft EXCEPT ![r] = draft[r]]
  <2>1. draft = [q \in Runs |-> draft[q]]
    BY DEF SyncInv, SharedOK
  <2> QED
    BY <2>1
<1>2. kept \in [Txns -> Nat] /\ kept' = kept /\ checkpoint' = checkpoint
  BY DEF SyncInv, SharedOK
<1>3. /\ \A t \in Txns : kept[t] <= kept'[t]
      /\ \A key \in Keys : checkpoint[key] # None => checkpoint'[key] # None
      /\ kept' \in [Txns -> Nat]
      /\ Sound(a, where, draft[r], kept', checkpoint')
  BY <1>2
<1>4. /\ RunsAreSound'
      /\ pc' = [q \in Runs |-> pc'[q]]
      /\ run' = [q \in Runs |-> run'[q]]
      /\ draft' = [q \in Runs |-> draft'[q]]
  BY <1>1, <1>3, RunStep
<1> QED
  BY <1>4 DEF SyncInv, SharedOK

LEMMA SyncInit == Init => SyncInv
<1> SUFFICES ASSUME Init PROVE SyncInv
  OBVIOUS
<1>1. RunsAreSound
  BY NoDraftFacts DEF Init, RunsAreSound, Sound, Typed, Places
<1>2. NoReport \in Report
  BY DEF NoReport, Report, Status
<1>3. /\ clock \in Int /\ txn \in [Txns -> Nat] /\ kept \in [Txns -> Nat]
      /\ checkpoint \in [Keys -> Mark \cup {None}]
      /\ syncRun \in [Runs -> Report]
      /\ lock \in [Txns -> Runs \cup {None}]
      /\ coveredFrom \in [Entities -> Int]
      /\ pc = [r \in Runs |-> pc[r]] /\ run = [r \in Runs |-> run[r]]
      /\ draft = [r \in Runs |-> draft[r]]
  BY <1>2 DEF Init
<1>4. remote \in [Txns -> [version : Nat, at : Int, live : BOOLEAN]]
  <2>1. -1 \in Int
    OBVIOUS
  <2>2. \A t \in Txns : [version |-> IF t \in Old THEN 1 ELSE 0,
                         at |-> -1, live |-> t \in Old]
                           \in [version : Nat, at : Int, live : BOOLEAN]
    BY <2>1
  <2> QED
    BY <2>2 DEF Init
<1>5. /\ snapshot \in [Txns -> Snapshot]
      /\ \A t \in Txns : snapshot[t].version <= kept[t]
  BY DEF Init, Snapshot
<1> QED
  BY <1>1, <1>3, <1>4, <1>5 DEF SyncInv, SharedOK

-----------------------------------------------------------------------------
(* What a run does by itself.                                              *)

LEMMA RunFacts ==
  ASSUME SyncInv, NEW r \in Runs, pc[r] # "new"
  PROVE  /\ run[r] \in Run
         /\ run[r].list \in Lists
         /\ run[r].list \in Seq(Entities) /\ Len(run[r].list) \in Nat \ {0}
         /\ Entity(r) \in Entities
         /\ run[r].mode \in {"BACKFILL", "INCREMENTAL"}
         /\ Key(r) \in Keys
         /\ Typed(run[r], pc[r], draft[r])
         /\ Started(run[r], pc[r], checkpoint)
         /\ Accounted(run[r], pc[r], draft[r], kept)
<1>1. Sound(run[r], pc[r], draft[r], kept, checkpoint)
  BY DEF SyncInv, RunsAreSound
<1>2. /\ Typed(run[r], pc[r], draft[r])
      /\ Started(run[r], pc[r], checkpoint)
      /\ Accounted(run[r], pc[r], draft[r], kept)
  BY <1>1 DEF Sound
<1>3. /\ run[r] \in Run /\ run[r].list \in Lists
      /\ run[r].mode \in {"BACKFILL", "INCREMENTAL"}
      /\ run[r].n \in 1..Len(run[r].list)
  BY <1>2 DEF Started, Run, Lists
<1>4. run[r].list \in Seq(Entities) /\ Len(run[r].list) \in Nat \ {0}
  BY <1>3, ListFacts
<1>5. Entity(r) \in Entities
  BY <1>3, <1>4 DEF Entity
<1> QED
  BY <1>2, <1>3, <1>4, <1>5 DEF Key, Keys

LEMMA ClearedRun ==
  ASSUME NEW a \in Run
  PROVE  /\ Cleared(a) \in Run
         /\ Cleared(a).list = a.list /\ Cleared(a).n = a.n
         /\ Cleared(a).mode = a.mode /\ Cleared(a).cp = None
         /\ Cleared(a).page = {} /\ Cleared(a).seen = {}
         /\ Cleared(a).answer = {} /\ Cleared(a).windows = << >>
         /\ Cleared(a).result = a.result /\ Cleared(a).report = a.report
<1>1. << >> \in Seq(Window) /\ 0 \in Int /\ 0 \in Nat
  OBVIOUS
<1> QED
  BY <1>1 DEF Cleared, Run

\* A run with no records between two entities, or at its end.
LEMMA IdleSound ==
  ASSUME NEW a \in Run, a.n \in 1..Len(a.list), a.cp = None, a.page = {},
         a.seen = {}, a.answer = {}, NEW k, NEW c,
         NEW where \in {"entity", "finish", "ended"}
  PROVE  Sound(a, where, NoDraft, k, c)
<1>1. Typed(a, where, NoDraft)
  BY NoDraftFacts DEF Typed, Places
<1>2. IsFiniteSet(a.answer)
  BY FS_EmptySet
<1>3. Started(a, where, c)
  BY <1>2 DEF Started
<1> QED
  BY <1>1, <1>3 DEF Sound, Accounted

LEMMA LeftSound ==
  ASSUME SyncInv, NEW r \in Runs, pc[r] # "new",
         NEW outcome \in {"COMPLETED", "FAILED"}, NEW k, NEW c
  PROVE  Sound(Left(r, outcome), AfterEntity(r), NoDraft, k, c)
<1> DEFINE b == Cleared(run[r])
           report == [b.report EXCEPT !.entities[run[r].n] = outcome]
           n == IF b.n < Len(run[r].list) THEN b.n + 1 ELSE b.n
           a == [b EXCEPT !.result = RunStatus(b.result, outcome),
                          !.report = report, !.n = n]
<1>1. /\ run[r] \in Run /\ Len(run[r].list) \in Nat
      /\ run[r].n \in 1..Len(run[r].list) /\ Entity(r) \in Entities
  BY RunFacts DEF Started
<1>2. /\ b \in Run /\ b.list = run[r].list /\ b.n = run[r].n /\ b.cp = None
      /\ b.page = {} /\ b.seen = {} /\ b.answer = {}
  BY <1>1, ClearedRun
<1>3. report \in Report /\ RunStatus(b.result, outcome) \in Status
  <2>1. b.report.entities \in Seq(Status) /\ outcome \in Status /\ run[r].n \in Nat
    BY <1>1, <1>2 DEF Run, Report, Status
  <2>2. [b.report.entities EXCEPT ![run[r].n] = outcome] \in Seq(Status)
    BY <2>1, ReplacedIn
  <2>3. b.report \in Report
    BY <1>2 DEF Run
  <2>4. RunStatus(b.result, outcome) \in Status
    BY DEF RunStatus, Status
  <2> HIDE DEF b
  <2> QED
    BY <2>2, <2>3, <2>4 DEF Report
<1>4. n \in 1..Len(b.list) /\ n \in Nat
  BY <1>1, <1>2
<1>5. Left(r, outcome) = a
  BY <1>2 DEF Left, Run, Report
<1> HIDE DEF b, report, n
<1>6. a \in Run
  BY <1>2, <1>3, <1>4 DEF Run
<1>7. /\ a.n = n /\ a.list = b.list /\ a.cp = None /\ a.page = {}
      /\ a.seen = {} /\ a.answer = {}
  BY <1>2 DEF Run
<1> HIDE DEF a
<1> QED
  BY <1>4, <1>5, <1>6, <1>7, IdleSound DEF AfterEntity

LEMMA OverSound ==
  ASSUME SyncInv, NEW r \in Runs, pc[r] # "new", NEW k, NEW c
  PROVE  Sound(Over(run[r]), "ended", NoDraft, k, c)
<1> DEFINE b == Cleared(run[r])
           a == [b EXCEPT !.n = 1, !.result = "RUNNING", !.report = NoReport]
<1>1. run[r] \in Run /\ Len(run[r].list) \in Nat \ {0}
  BY RunFacts
<1>2. /\ b \in Run /\ b.list = run[r].list /\ b.cp = None
      /\ b.page = {} /\ b.seen = {} /\ b.answer = {}
  BY <1>1, ClearedRun
<1>3. NoReport \in Report /\ "RUNNING" \in Status
  BY DEF NoReport, Report, Status
<1>4. Over(run[r]) = a
  BY DEF Over
<1> HIDE DEF b
<1>5. a \in Run
  BY <1>2, <1>3 DEF Run
<1>6. /\ a.n = 1 /\ a.list = b.list /\ a.cp = None /\ a.page = {}
      /\ a.seen = {} /\ a.answer = {}
  BY <1>2 DEF Run
<1> HIDE DEF a
<1> QED
  BY <1>1, <1>2, <1>4, <1>5, <1>6, IdleSound

LEMMA LeaveEntityInv ==
  ASSUME SyncInv, NEW r \in Runs, pc[r] = "fetch",
         NEW outcome \in {"COMPLETED", "FAILED"}, LeaveEntity(r, outcome)
  PROVE  SyncInv'
<1>1. draft[r] = NoDraft
  BY RunFacts DEF Typed
<1>2. Sound(Left(r, outcome), AfterEntity(r), draft[r], kept, checkpoint)
  BY <1>1, LeftSound
<1> QED
  BY <1>2, PrivateStep DEF LeaveEntity

LEMMA BeginInv == ASSUME SyncInv, NEW r \in Runs, Begin(r) PROVE SyncInv'
<1>1. PICK request \in Requests :
        run' = [run EXCEPT ![r] =
            [mode |-> request[1], list |-> request[2], n |-> 1, cp |-> None,
             windows |-> << >>,
             until |-> 0, since |-> 0, pos |-> 0,
             more |-> FALSE, page |-> {}, answer |-> {}, looked |-> None,
             seen |-> {}, result |-> "RUNNING",
             report |-> [NoReport EXCEPT !.status = "RUNNING"],
             initial |-> << >>]]
  BY DEF Begin
<1> DEFINE report == [NoReport EXCEPT !.status = "RUNNING"]
           a == [mode |-> request[1], list |-> request[2], n |-> 1, cp |-> None,
                 windows |-> << >>,
                 until |-> 0, since |-> 0, pos |-> 0,
                 more |-> FALSE, page |-> {}, answer |-> {}, looked |-> None,
                 seen |-> {}, result |-> "RUNNING",
                 report |-> report,
                 initial |-> << >>]
<1>2. report \in Report /\ "RUNNING" \in Status
  <2>1. << >> \in Seq(Status)
    BY EmptySeq
  <2> QED
    BY <2>1 DEF NoReport, Report, Status
<1>3. request[1] \in {"BACKFILL", "INCREMENTAL"} /\ request[2] \in Lists
  BY SyncAssumption DEF Lists
<1>4. Len(request[2]) \in Nat \ {0}
  BY <1>3, ListFacts
<1>5. << >> \in Seq(Window) /\ << >> \in Seq([Txns -> Nat])
  OBVIOUS
<1>6. a.report = report /\ a.list = request[2] /\ a.n = 1
  OBVIOUS
<1> HIDE DEF report
<1>7. a \in Run
  BY <1>2, <1>3, <1>5 DEF Run, Lists
<1>8. a.cp = None /\ a.page = {} /\ a.seen = {} /\ a.answer = {}
  OBVIOUS
<1>9. run' = [run EXCEPT ![r] = a]
  BY <1>1 DEF report
<1>10. draft[r] = NoDraft
  <2>1. Typed(run[r], pc[r], draft[r]) /\ pc[r] = "new"
    BY DEF SyncInv, RunsAreSound, Sound, Begin
  <2> QED
    BY <2>1 DEF Typed
<1> HIDE DEF a
<1>11. Sound(a, "entity", draft[r], kept, checkpoint)
  BY <1>4, <1>6, <1>7, <1>8, <1>10, IdleSound
<1> QED
  BY <1>9, <1>11, PrivateStep DEF Begin

LEMMA EnterEntityInv == ASSUME SyncInv, NEW r \in Runs, EnterEntity(r) PROVE SyncInv'
<1> DEFINE e  == Entity(r)
           cp == IF run[r].mode = "INCREMENTAL" THEN checkpoint[Key(r)] ELSE None
           windows == IF run[r].mode = "INCREMENTAL" THEN <<WindowFrom(cp)>> ELSE << >>
           report == [run[r].report EXCEPT !.entities = Append(run[r].report.entities, "RUNNING")]
           initial == Append(run[r].initial, ToFind(run[r].mode, e))
           since == IF run[r].mode = "INCREMENTAL"
                    THEN Promise(cp, coveredFrom[e]) ELSE 0
           a == [run[r] EXCEPT !.cp = cp, !.windows = windows, !.until = clock,
                               !.since = since,
                               !.pos = 0, !.more = FALSE, !.seen = {},
                               !.report = report, !.initial = initial]
<1>1. /\ run[r] \in Run /\ e \in Entities /\ Key(r) \in Keys
      /\ Typed(run[r], pc[r], draft[r])
      /\ Started(run[r], pc[r], checkpoint)
      /\ Accounted(run[r], pc[r], draft[r], kept)
  BY RunFacts DEF EnterEntity
<1>2. /\ clock \in Int /\ checkpoint \in [Keys -> Mark \cup {None}]
      /\ remote \in [Txns -> [version : Nat, at : Int, live : BOOLEAN]]
  BY DEF SyncInv, SharedOK
<1>3. pc[r] = "entity" /\ run[r].page = {} /\ draft[r] = NoDraft
  BY <1>1 DEF EnterEntity, Accounted, Typed
<1>4. cp \in Mark \cup {None}
  BY <1>1, <1>2
<1>5. windows \in Seq(Window)
  <2>1. WindowFrom(cp) \in Window
    <3>1. cp # None => cp.at \in Int
      BY <1>4 DEF Mark
    <3>2. Overlap \in Int /\ FirstWindow \in Int /\ Lookback \in Int
      BY SyncAssumption
    <3> HIDE DEF cp
    <3> QED
      BY <1>2, <3>1, <3>2 DEF WindowFrom, Window
  <2> QED
    BY <2>1
<1>6. run[r].mode = "INCREMENTAL" => windows # << >>
  OBVIOUS
<1>7. report \in Report
  <2>1. run[r].report.entities \in Seq(Status) /\ "RUNNING" \in Status
    BY <1>1 DEF Run, Report, Status
  <2>2. Append(run[r].report.entities, "RUNNING") \in Seq(Status)
    BY <2>1, AppendProperties
  <2> QED
    BY <1>1, <2>2 DEF Run, Report
<1>8. initial \in Seq([Txns -> Nat])
  <2>1. ToFind(run[r].mode, e) \in [Txns -> Nat]
    BY <1>2 DEF ToFind
  <2> QED
    BY <1>1, <2>1 DEF Run
<1>9. /\ cp # None => checkpoint[<<run[r].list[run[r].n], run[r].mode>>] # None
      /\ run[r].mode = "BACKFILL" => cp = None
  BY DEF Key, Entity
<1>10. run' = [run EXCEPT ![r] = a]
  BY <1>1 DEF EnterEntity, Run
<1>14. since \in Int
  <2>1. coveredFrom[e] \in Int
    BY <1>1 DEF SyncInv, SharedOK
  <2>2. Lookback \in Int /\ FirstWindow \in Int
    BY SyncAssumption
  <2> HIDE DEF cp, e
  <2> QED
    BY <1>2, <2>1, <2>2 DEF Promise
<1> HIDE DEF e, cp, windows, report, initial, since
<1>11. a \in Run
  BY <1>1, <1>2, <1>4, <1>5, <1>7, <1>8, <1>14 DEF Run
<1>12. /\ a.n = run[r].n /\ a.list = run[r].list /\ a.mode = run[r].mode
       /\ a.cp = cp /\ a.windows = windows /\ a.page = {} /\ a.seen = {}
       /\ a.answer = run[r].answer
  BY <1>1, <1>3 DEF Run
<1> HIDE DEF a
<1>13. Sound(a, "fetch", draft[r], kept, checkpoint)
  <2>1. Typed(a, "fetch", draft[r])
    BY <1>3, <1>11, NoDraftFacts DEF Typed, Places
  <2>2. Started(a, "fetch", checkpoint)
    BY <1>1, <1>6, <1>9, <1>11, <1>12 DEF Started
  <2>3. Accounted(a, "fetch", draft[r], kept)
    BY <1>12 DEF Accounted
  <2> QED
    BY <2>1, <2>2, <2>3 DEF Sound
<1> QED
  BY <1>10, <1>13, PrivateStep DEF EnterEntity

\* An answer of the remote: one record for each transaction in it.
LEMMA AnswerFacts ==
  ASSUME SyncInv, NEW S \in SUBSET Txns
  PROVE  LET answer == {AsRecord(t) : t \in S} IN
         /\ answer \in SUBSET Record
         /\ IsFiniteSet(answer)
         /\ \A rec, other \in answer : rec.id = other.id => rec = other
<1> DEFINE answer == {AsRecord(t) : t \in S}
<1>1. \A t \in S : AsRecord(t) \in Record /\ AsRecord(t).id = t
  <2>1. remote \in [Txns -> [version : Nat, at : Int, live : BOOLEAN]]
    BY DEF SyncInv, SharedOK
  <2> QED
    BY <2>1 DEF AsRecord, Record
<1>2. IsFiniteSet(S)
  BY FS_Subset, SyncAssumption
<1>3. IsFiniteSet(answer)
  <2> DEFINE f == [t \in S |-> AsRecord(t)]
  <2>1. f \in Surjection(S, answer)
    BY DEF Surjection
  <2> QED
    BY <1>2, <2>1, FS_Surjection
<1> QED
  BY <1>1, <1>3

\* Whatever the answer, its records are to be persisted next.
LEMMA FetchedSound ==
  ASSUME SyncInv, NEW r \in Runs, pc[r] = "fetch", NEW S \in SUBSET Txns,
         NEW answer, answer = {AsRecord(t) : t \in S}, NEW more \in BOOLEAN,
         NEW a, a = [run[r] EXCEPT !.page = answer, !.answer = answer,
                                   !.seen = run[r].seen \cup answer, !.more = more],
         NEW where, where = IF answer = {} THEN "commit" ELSE "look"
  PROVE  Sound(a, where, draft[r], kept, checkpoint)
<1>1. /\ run[r] \in Run
      /\ Typed(run[r], pc[r], draft[r])
      /\ Started(run[r], pc[r], checkpoint)
      /\ Accounted(run[r], pc[r], draft[r], kept)
  BY RunFacts
<1>2. /\ answer \in SUBSET Record /\ IsFiniteSet(answer)
      /\ \A rec, other \in answer : rec.id = other.id => rec = other
  BY AnswerFacts
<1>3. draft[r] = NoDraft /\ run[r].page = {}
  BY <1>1 DEF Typed, Accounted
<1>4. a \in Run
  BY <1>1, <1>2 DEF Run
<1>5. /\ a.n = run[r].n /\ a.list = run[r].list /\ a.mode = run[r].mode
      /\ a.cp = run[r].cp /\ a.windows = run[r].windows
      /\ a.page = answer /\ a.seen = run[r].seen \cup answer
      /\ a.answer = answer
  BY <1>1 DEF Run
<1>6. Typed(a, where, draft[r])
  BY <1>3, <1>4, NoDraftFacts DEF Typed, Places
<1>7. Started(a, where, checkpoint)
  BY <1>1, <1>2, <1>4, <1>5 DEF Started
<1>8. \A rec \in a.seen : Held(rec, a, draft[r], kept)
  <2>1. \A rec \in run[r].seen : Held(rec, run[r], draft[r], kept)
    BY <1>1 DEF Accounted
  <2>2. \A rec \in run[r].seen : Held(rec, a, draft[r], kept)
    BY <1>3, <2>1 DEF Held
  <2> QED
    BY <1>5, <2>2 DEF Held
<1>9. Accounted(a, where, draft[r], kept)
  BY <1>2, <1>3, <1>5, <1>8, NoDraftFacts DEF Accounted
<1> QED
  BY <1>6, <1>7, <1>9 DEF Sound

LEMMA FetchChangesInv == ASSUME SyncInv, NEW r \in Runs, FetchChanges(r) PROVE SyncInv'
<1> DEFINE since == format_date(Head(run[r].windows).start)
<1>1. PICK S \in Answers(Entity(r), since) :
         LET answer == {AsRecord(t) : t \in S} IN
         /\ run' = [run EXCEPT ![r] = [run[r] EXCEPT !.page = answer,
                                          !.answer = answer,
                                          !.seen = run[r].seen \cup answer]]
         /\ pc' = [pc EXCEPT ![r] = IF answer = {} THEN "commit" ELSE "look"]
  BY DEF FetchChanges
<1>2. S \in SUBSET Txns
  BY DEF Answers, Changed, OfEntity
<1> DEFINE answer == {AsRecord(t) : t \in S}
           where == IF answer = {} THEN "commit" ELSE "look"
           a == [run[r] EXCEPT !.page = answer, !.answer = answer,
                               !.seen = run[r].seen \cup answer, !.more = run[r].more]
<1>3. run[r] \in Run /\ pc[r] = "fetch" /\ run[r].more \in BOOLEAN
  BY RunFacts DEF FetchChanges, Run
<1>4. run' = [run EXCEPT ![r] = a] /\ pc' = [pc EXCEPT ![r] = where]
  BY <1>1, <1>3 DEF Run
<1>5. Sound(a, where, draft[r], kept, checkpoint)
  BY <1>2, <1>3, FetchedSound
<1> HIDE DEF answer, where, a
<1> QED
  BY <1>4, <1>5, PrivateStep DEF FetchChanges

LEMMA FetchPageInv == ASSUME SyncInv, NEW r \in Runs, FetchPage(r) PROVE SyncInv'
<1> DEFINE S == PageAt(Entity(r), run[r].pos)
           answer == {AsRecord(t) : t \in S}
           more == HasMore(Cardinality(S), run[r].pos,
                           Cardinality(Existing(Entity(r))))
           a == [run[r] EXCEPT !.page = answer, !.answer = answer,
                               !.seen = run[r].seen \cup answer, !.more = more]
<1>1. S \in SUBSET Txns /\ S # {} /\ more \in BOOLEAN
  BY DEF FetchPage, PageAt, Existing, OfEntity, HasMore
<1>2. pc[r] = "fetch" /\ run' = [run EXCEPT ![r] = a] /\ pc' = [pc EXCEPT ![r] = "look"]
  BY DEF FetchPage
<1> HIDE DEF S
<1>3. answer # {}
  BY <1>1
<1> HIDE DEF more
<1>4. Sound(a, "look", draft[r], kept, checkpoint)
  BY <1>1, <1>2, <1>3, FetchedSound
<1> HIDE DEF a
<1> QED
  BY <1>2, <1>4, PrivateStep DEF FetchPage

LEMMA FetchEndsInv ==
  ASSUME SyncInv, NEW r \in Runs, RefuseWindow(r) \/ NoMorePages(r) \/ RequestFails(r)
  PROVE  SyncInv'
  BY LeaveEntityInv DEF RefuseWindow, NoMorePages, RequestFails

LEMMA MissCheckpointInv == ASSUME SyncInv, NEW r \in Runs, MissCheckpoint(r) PROVE SyncInv'
<1>1. run' = [run EXCEPT ![r] = run[r]]
  <2>1. run = [q \in Runs |-> run[q]]
    BY DEF SyncInv, SharedOK
  <2> QED
    BY <2>1 DEF MissCheckpoint
<1>2. Sound(run[r], "insert", draft[r], kept, checkpoint)
  <2>1. pc[r] = "mark" /\ Sound(run[r], pc[r], draft[r], kept, checkpoint)
    BY DEF SyncInv, RunsAreSound, MissCheckpoint
  <2> QED
    BY <2>1 DEF Sound, Typed, Started, Accounted, Places
<1> QED
  BY <1>1, <1>2, PrivateStep DEF MissCheckpoint

LEMMA CurrentFacts ==
  ASSUME SyncInv, NEW r \in Runs, pc[r] \in {"look", "write"}
  PROVE  /\ Current(r) \in run[r].page /\ Current(r) \in Record
         /\ Current(r).id \in Txns /\ Current(r).version \in Nat
         /\ Current(r).id \notin DOMAIN draft[r]
<1>1. run[r].page \in SUBSET Record /\ run[r].page # {}
      /\ \A rec \in run[r].page : rec.id \notin DOMAIN draft[r]
  BY RunFacts DEF Run, Accounted
<1>2. Current(r) \in run[r].page
  BY <1>1, NextOfFacts DEF Current
<1> QED
  BY <1>1, <1>2 DEF Record

LEMMA LookInv == ASSUME SyncInv, NEW r \in Runs, Look(r) PROVE SyncInv'
<1> DEFINE looked == VisibleSnapshot(r, Current(r).id)
           a == [run[r] EXCEPT !.looked = looked]
<1>1. /\ run[r] \in Run
      /\ Typed(run[r], pc[r], draft[r])
      /\ Started(run[r], pc[r], checkpoint)
      /\ Accounted(run[r], pc[r], draft[r], kept)
  BY RunFacts DEF Look
<1>2. /\ pc[r] = "look" /\ run' = [run EXCEPT ![r] = a]
      /\ pc' = [pc EXCEPT ![r] = "write"]
  BY DEF Look
<1>3. Current(r).id \in Txns /\ Current(r).id \notin DOMAIN draft[r]
  BY <1>2, CurrentFacts
<1>4. looked \in Snapshot /\ looked.version <= kept[Current(r).id]
  BY <1>3 DEF SyncInv, SharedOK, VisibleSnapshot
<1> HIDE DEF looked
<1>5. a \in Run
  BY <1>1, <1>4 DEF Run
<1>6. /\ a.n = run[r].n /\ a.list = run[r].list /\ a.mode = run[r].mode
      /\ a.cp = run[r].cp /\ a.windows = run[r].windows
      /\ a.page = run[r].page /\ a.seen = run[r].seen
      /\ a.answer = run[r].answer /\ a.looked = looked
  BY <1>1 DEF Run
<1> HIDE DEF a
<1>7. Typed(a, "write", draft[r])
  BY <1>1, <1>2, <1>5 DEF Typed, Places
<1>8. Started(a, "write", checkpoint)
  BY <1>1, <1>2, <1>5, <1>6 DEF Started
<1>9. Accounted(a, "write", draft[r], kept)
  BY <1>1, <1>2, <1>4, <1>6 DEF Accounted, Held, Current
<1>10. Sound(a, "write", draft[r], kept, checkpoint)
  BY <1>7, <1>8, <1>9 DEF Sound
<1> QED
  BY <1>2, <1>10, PrivateStep DEF Look

\* The row a record leaves in the transaction of its run covers it, or it is
\* already kept: the row may keep a newer version under an unchanged column.
LEMMA WrittenRow ==
  ASSUME NEW looked \in Snapshot, NEW visible \in Snapshot, NEW rec \in Record,
         NEW old \in Nat, NEW k \in Nat, looked.version <= k
  PROVE  LET row == Flushed(looked, NewSnapshot(rec), visible) IN
         /\ row \in Snapshot
         /\ rec.version <= row.version \/ rec.version <= k
         /\ UpsertedTxn(rec, old) \in Nat
  BY DEF Flushed, NewSnapshot, Snapshot, Record, UpsertedTxn

LEMMA WriteInv == ASSUME SyncInv, NEW r \in Runs, Write(r) PROVE SyncInv'
<1> DEFINE rec == Current(r)
           t == rec.id
           rest == Rest(r)
           row == [snapshot |-> Flushed(run[r].looked, NewSnapshot(rec),
                                        VisibleSnapshot(r, t)),
                   txn      |-> UpsertedTxn(rec, VisibleTxn(r, t))]
           d == [u \in DOMAIN draft[r] \cup {t} |-> IF u = t THEN row ELSE draft[r][u]]
           a == [run[r] EXCEPT !.page = rest, !.looked = None]
           where == IF rest = {} THEN "commit" ELSE "look"
<1>1. /\ run[r] \in Run
      /\ Typed(run[r], pc[r], draft[r])
      /\ Started(run[r], pc[r], checkpoint)
      /\ Accounted(run[r], pc[r], draft[r], kept)
  BY RunFacts DEF Write
<1>2. /\ pc[r] = "write"
      /\ lock' = [lock EXCEPT ![t] = r]
      /\ draft' = [draft EXCEPT ![r] = d]
      /\ pc' = [pc EXCEPT ![r] = where]
      /\ UNCHANGED <<clock, remote, snapshot, txn, checkpoint, syncRun,
                     kept, coveredFrom>>
  BY DEF Write
<1>3. run' = [run EXCEPT ![r] = a]
  BY <1>1 DEF Write, Run, SyncInv, SharedOK
<1>4. /\ rec \in run[r].page /\ rec \in Record /\ t \in Txns
      /\ t \notin DOMAIN draft[r]
  BY <1>2, CurrentFacts
<1>5. /\ VisibleSnapshot(r, t) \in Snapshot /\ VisibleTxn(r, t) \in Nat
      /\ kept[t] \in Nat
  BY <1>4 DEF SyncInv, SharedOK, VisibleSnapshot, VisibleTxn
<1>6. run[r].looked \in Snapshot /\ run[r].looked.version <= kept[t]
  BY <1>1, <1>2 DEF Accounted, Current
<1>7. /\ row \in DraftRow
      /\ rec.version <= row.snapshot.version \/ rec.version <= kept[t]
  BY <1>4, <1>5, <1>6, WrittenRow DEF DraftRow
<1>8. rest = run[r].page \ {rec}
  BY DEF Rest
<1> HIDE DEF row, rest
<1>9. /\ a \in Run /\ a.n = run[r].n /\ a.list = run[r].list
      /\ a.mode = run[r].mode /\ a.cp = run[r].cp /\ a.windows = run[r].windows
      /\ a.page = rest /\ a.seen = run[r].seen /\ a.answer = run[r].answer
  BY <1>1, <1>8 DEF Run
<1>10. /\ DOMAIN d = DOMAIN draft[r] \cup {t} /\ d[t] = row
       /\ \A u \in DOMAIN draft[r] : d[u] = draft[r][u]
  BY <1>4
<1>11. d \in [DOMAIN d -> DraftRow] /\ DOMAIN d \subseteq Txns
  BY <1>1, <1>4, <1>7 DEF Typed
<1> HIDE DEF d, a
<1>12. Typed(a, where, d)
  BY <1>9, <1>11 DEF Typed, Places
<1>13. Started(a, where, checkpoint)
  BY <1>1, <1>2, <1>9 DEF Started
<1>14. Accounted(a, where, d, kept)
  <2>1. \A o \in a.page : o.id \notin DOMAIN d
    BY <1>1, <1>2, <1>4, <1>8, <1>9, <1>10 DEF Accounted
  <2>2. \A o, other \in a.page : o.id = other.id => o = other
    BY <1>1, <1>2, <1>8, <1>9 DEF Accounted
  <2>3. ASSUME NEW o \in a.seen PROVE Held(o, a, d, kept)
    <3>1. Held(o, run[r], draft[r], kept)
      BY <1>1, <1>2, <1>9, <2>3 DEF Accounted
    <3>2. CASE o = rec
      BY <1>7, <1>10, <3>2 DEF Held
    <3>3. CASE o # rec
      BY <1>8, <1>9, <1>10, <3>1, <3>3 DEF Held
    <3> QED
      BY <3>2, <3>3
  <2> QED
    BY <1>9, <2>1, <2>2, <2>3 DEF Accounted
<1>15. Sound(a, where, d, kept', checkpoint')
  BY <1>2, <1>12, <1>13, <1>14 DEF Sound
<1>16. /\ kept' \in [Txns -> Nat] /\ \A u \in Txns : kept[u] <= kept'[u]
       /\ \A key \in Keys : checkpoint[key] # None => checkpoint'[key] # None
  BY <1>2 DEF SyncInv, SharedOK
<1>17. lock' \in [Txns -> Runs \cup {None}]
  BY <1>2 DEF SyncInv, SharedOK
<1> HIDE DEF where, t, rec
<1>18. /\ RunsAreSound'
       /\ pc' = [q \in Runs |-> pc'[q]]
       /\ run' = [q \in Runs |-> run'[q]]
       /\ draft' = [q \in Runs |-> draft'[q]]
  BY <1>2, <1>3, <1>15, <1>16, RunStep
<1> QED
  BY <1>2, <1>17, <1>18 DEF SyncInv, SharedOK

LEMMA AbandonInv ==
  ASSUME SyncInv, NEW r \in Runs, pc[r] # "new", Abandon(r)
  PROVE  SyncInv'
<1>1. /\ run' = [run EXCEPT ![r] = Over(run[r])]
      /\ pc' = [pc EXCEPT ![r] = "ended"]
      /\ draft' = [draft EXCEPT ![r] = NoDraft]
      /\ UNCHANGED <<clock, remote, snapshot, txn, checkpoint, syncRun, kept,
                     coveredFrom>>
  BY DEF Abandon
<1>2. Sound(Over(run[r]), "ended", NoDraft, kept', checkpoint')
  BY OverSound
<1>3. /\ kept' \in [Txns -> Nat] /\ \A u \in Txns : kept[u] <= kept'[u]
      /\ \A key \in Keys : checkpoint[key] # None => checkpoint'[key] # None
  BY <1>1 DEF SyncInv, SharedOK
<1>4. lock' \in [Txns -> Runs \cup {None}]
  BY DEF Abandon, SyncInv, SharedOK
<1>5. /\ RunsAreSound'
      /\ pc' = [q \in Runs |-> pc'[q]]
      /\ run' = [q \in Runs |-> run'[q]]
      /\ draft' = [q \in Runs |-> draft'[q]]
  BY <1>1, <1>2, <1>3, RunStep
<1> QED
  BY <1>1, <1>4, <1>5 DEF SyncInv, SharedOK

LEMMA EndsBadlyInv ==
  ASSUME SyncInv, NEW r \in Runs,
         DatabaseError(r) \/ Crash(r) \/ CheckpointConflict(r)
  PROVE  SyncInv'
  BY AbandonInv DEF DatabaseError, Crash, CheckpointConflict, Active

-----------------------------------------------------------------------------
(* Commits, checkpoints and the remote.                                    *)

LEMMA SplitWindows == ASSUME NEW w \in Window PROVE split(w) \in Seq(Window)
<1> DEFINE mid == w.start + ((w.end - w.start) \div 2)
           first == [start |-> w.start, end |-> mid, depth |-> w.depth + 1]
           second == [start |-> mid, end |-> w.end, depth |-> w.depth + 1]
<1>1. w.start \in Int /\ w.end \in Int /\ w.depth + 1 \in Nat
  BY DEF Window
<1>2. mid \in Int
  BY <1>1
<1>3. split(w) = <<first, second>>
  BY DEF split
<1> HIDE DEF mid
<1>4. first \in Window /\ second \in Window
  BY <1>1, <1>2 DEF Window
<1> HIDE DEF first, second
<1> QED
  BY <1>3, <1>4

LEMMA CommitAnswerInv == ASSUME SyncInv, NEW r \in Runs, CommitAnswer(r) PROVE SyncInv'
<1> DEFINE near == run[r].mode = "INCREMENTAL" /\ NearLimit(run[r].answer)
           windows == IF run[r].mode = "BACKFILL" THEN << >>
                      ELSE IF near
                      THEN split(Head(run[r].windows)) \o Tail(run[r].windows)
                      ELSE Tail(run[r].windows)
           a == [run[r] EXCEPT !.windows = windows]
           where == IF windows = << >> THEN "mark" ELSE "fetch"
<1>1. /\ run[r] \in Run
      /\ Typed(run[r], pc[r], draft[r])
      /\ Started(run[r], pc[r], checkpoint)
      /\ Accounted(run[r], pc[r], draft[r], kept)
  BY RunFacts DEF CommitAnswer
<1>2. /\ pc[r] = "commit"
      /\ snapshot' = [t \in Txns |-> VisibleSnapshot(r, t)]
      /\ txn' = [t \in Txns |-> VisibleTxn(r, t)]
      /\ kept' = [t \in Txns |-> Newest(t, VisibleSnapshot(r, t))]
      /\ syncRun' = [syncRun EXCEPT ![r] = run[r].report]
      /\ lock' = [t \in Txns |-> IF lock[t] = r THEN None ELSE lock[t]]
      /\ draft' = [draft EXCEPT ![r] = NoDraft]
      /\ run' = [run EXCEPT ![r] = a]
      /\ pc' = [pc EXCEPT ![r] = where]
      /\ UNCHANGED <<clock, remote, checkpoint, coveredFrom>>
  BY DEF CommitAnswer
<1>3. ASSUME NEW t \in Txns
      PROVE  /\ VisibleSnapshot(r, t) \in Snapshot /\ VisibleTxn(r, t) \in Nat
             /\ kept[t] \in Nat /\ Newest(t, VisibleSnapshot(r, t)) \in Nat
             /\ kept[t] <= Newest(t, VisibleSnapshot(r, t))
             /\ VisibleSnapshot(r, t).version <= Newest(t, VisibleSnapshot(r, t))
  <2>1. /\ snapshot[t] \in Snapshot /\ txn[t] \in Nat /\ kept[t] \in Nat
    BY DEF SyncInv, SharedOK
  <2>2. t \in DOMAIN draft[r] => draft[r][t] \in DraftRow
    BY <1>1 DEF Typed
  <2>3. VisibleSnapshot(r, t) \in Snapshot /\ VisibleTxn(r, t) \in Nat
    BY <2>1, <2>2 DEF VisibleSnapshot, VisibleTxn, DraftRow
  <2>4. VisibleSnapshot(r, t).version \in Nat
    BY <2>3 DEF Snapshot
  <2> QED
    BY <2>1, <2>3, <2>4 DEF Newest
<1>4. /\ snapshot' \in [Txns -> Snapshot] /\ txn' \in [Txns -> Nat]
      /\ kept' \in [Txns -> Nat] /\ \A t \in Txns : kept[t] <= kept'[t]
      /\ \A t \in Txns : snapshot'[t].version <= kept'[t]
  BY <1>2, <1>3
<1>5. /\ syncRun' \in [Runs -> Report] /\ lock' \in [Txns -> Runs \cup {None}]
      /\ \A key \in Keys : checkpoint[key] # None => checkpoint'[key] # None
  BY <1>1, <1>2 DEF SyncInv, SharedOK, Run
<1>6. windows \in Seq(Window)
  <2> SUFFICES ASSUME run[r].mode # "BACKFILL" PROVE windows \in Seq(Window)
    OBVIOUS
  <2>1. run[r].mode = "INCREMENTAL" /\ run[r].windows \in Seq(Window)
    BY <1>1 DEF Run
  <2>2. run[r].windows # << >>
    BY <1>1, <1>2, <2>1 DEF Started
  <2>3. Head(run[r].windows) \in Window /\ Tail(run[r].windows) \in Seq(Window)
    BY <2>1, <2>2
  <2>4. split(Head(run[r].windows)) \in Seq(Window)
    BY <2>3, SplitWindows
  <2> QED
    BY <2>3, <2>4
<1> HIDE DEF windows
<1>7. /\ a \in Run /\ a.n = run[r].n /\ a.list = run[r].list
      /\ a.mode = run[r].mode /\ a.cp = run[r].cp /\ a.windows = windows
      /\ a.page = run[r].page /\ a.seen = run[r].seen /\ a.answer = run[r].answer
  BY <1>1, <1>6 DEF Run
<1> HIDE DEF a
<1>8. Typed(a, where, NoDraft)
  BY <1>7, NoDraftFacts DEF Typed, Places
<1>9. Started(a, where, checkpoint')
  BY <1>1, <1>2, <1>7 DEF Started
<1>10. Accounted(a, where, NoDraft, kept')
  <2>1. ASSUME NEW rec \in a.seen PROVE rec.version <= kept'[rec.id]
    <3>1. Held(rec, run[r], draft[r], kept) /\ run[r].page = {}
      BY <1>1, <1>2, <1>7, <2>1 DEF Accounted
    <3>2. rec.id \in Txns /\ rec.version \in Nat
      BY <1>1, <1>7, <2>1 DEF Run, Record
    <3>3. /\ kept[rec.id] <= kept'[rec.id]
          /\ VisibleSnapshot(r, rec.id).version <= kept'[rec.id]
          /\ kept[rec.id] \in Nat /\ kept'[rec.id] \in Nat
          /\ VisibleSnapshot(r, rec.id).version \in Nat
      BY <1>2, <1>3, <1>4, <3>2 DEF Snapshot
    <3>4. rec.id \in DOMAIN draft[r] =>
            draft[r][rec.id].snapshot.version = VisibleSnapshot(r, rec.id).version
      BY DEF VisibleSnapshot
    <3> QED
      BY <3>1, <3>2, <3>3, <3>4 DEF Held
  <2>2. a.page = {}
    BY <1>1, <1>2, <1>7 DEF Accounted
  <2> QED
    BY <2>1, <2>2 DEF Accounted, Held
<1>11. Sound(a, where, NoDraft, kept', checkpoint')
  BY <1>8, <1>9, <1>10 DEF Sound
<1> HIDE DEF where
<1>12. /\ RunsAreSound'
       /\ pc' = [q \in Runs |-> pc'[q]]
       /\ run' = [q \in Runs |-> run'[q]]
       /\ draft' = [q \in Runs |-> draft'[q]]
  BY <1>2, <1>4, <1>5, <1>11, RunStep
<1> QED
  BY <1>2, <1>4, <1>5, <1>12 DEF SyncInv, SharedOK

\* A checkpoint row that is moved stays a row.
LEMMA AdvancedMark ==
  ASSUME NEW judged \in Mark \cup {None}, NEW until \in Int,
         NEW row \in Mark \cup {None}, judged # None => row # None
  PROVE  /\ Advanced(judged, until, row) \in Mark
         /\ Advanced(judged, until, row) # None
<1>1. None \notin Mark
  BY SyncAssumption DEF Mark
<1>2. CASE judged = None
  BY <1>1, <1>2 DEF Advanced, Mark
<1>3. CASE judged # None
  <2>1. judged \in Mark /\ row \in Mark
    BY <1>3
  <2>2. judged.version + 1 \in Nat
    BY <2>1 DEF Mark
  <2>3. Flushed(judged, [at |-> until, version |-> judged.version + 1], row) \in Mark
    BY <2>1, <2>2 DEF Flushed, Mark
  <2> QED
    BY <1>1, <1>3, <2>1, <2>3 DEF Advanced
<1> QED
  BY <1>2, <1>3

LEMMA AdvanceCheckpointInv ==
  ASSUME SyncInv, NEW r \in Runs, AdvanceCheckpoint(r) PROVE SyncInv'
<1> DEFINE row == checkpoint[Key(r)]
           moved == Advanced(Judged(run[r].cp, row), Target(r), row)
           next == [run[r] EXCEPT !.pos = run[r].pos + Cardinality(run[r].answer)]
<1>1. /\ run[r] \in Run /\ Key(r) \in Keys /\ Entity(r) \in Entities
      /\ Typed(run[r], pc[r], draft[r])
      /\ Started(run[r], pc[r], checkpoint)
      /\ Accounted(run[r], pc[r], draft[r], kept)
  BY RunFacts DEF AdvanceCheckpoint
<1>2. pc[r] \in {"mark", "insert"}
  BY DEF AdvanceCheckpoint
<1>3. /\ checkpoint' = [checkpoint EXCEPT ![Key(r)] = moved]
      /\ syncRun' = [syncRun EXCEPT ![r] = run[r].report]
      /\ UNCHANGED <<clock, remote, snapshot, txn, lock, draft, kept>>
  BY DEF AdvanceCheckpoint
<1>4. draft[r] = NoDraft /\ draft' = [draft EXCEPT ![r] = NoDraft]
  BY <1>1, <1>2, <1>3 DEF Typed, SyncInv, SharedOK
<1>5. moved \in Mark /\ moved # None
  <2>1. row \in Mark \cup {None} /\ run[r].cp \in Mark \cup {None}
    BY <1>1 DEF SyncInv, SharedOK, Run
  <2>2. run[r].cp # None => row # None
    BY <1>1 DEF Started, Key, Entity
  <2>3. Target(r) \in Int
    BY <1>1 DEF Target, Run
  <2> QED
    BY <2>1, <2>2, <2>3, AdvancedMark DEF Judged
<1> HIDE DEF moved
<1>6. /\ checkpoint' \in [Keys -> Mark \cup {None}]
      /\ \A key \in Keys : checkpoint[key] # None => checkpoint'[key] # None
  BY <1>1, <1>3, <1>5 DEF SyncInv, SharedOK
<1>7. coveredFrom' \in [Entities -> Int]
  <2>1. run[r].since \in Int
    BY <1>1 DEF Run
  <2>2. coveredFrom \in [Entities -> Int]
    BY DEF SyncInv, SharedOK
  <2>3. coveredFrom' = coveredFrom
        \/ coveredFrom' = [coveredFrom EXCEPT ![Entity(r)] = run[r].since]
    BY DEF AdvanceCheckpoint
  <2> QED
    BY <1>1, <2>1, <2>2, <2>3
<1>8. /\ syncRun' \in [Runs -> Report]
      /\ kept' \in [Txns -> Nat] /\ \A t \in Txns : kept[t] <= kept'[t]
  BY <1>1, <1>3 DEF SyncInv, SharedOK, Run
<1>9. /\ RunsAreSound'
      /\ pc' = [q \in Runs |-> pc'[q]]
      /\ run' = [q \in Runs |-> run'[q]]
      /\ draft' = [q \in Runs |-> draft'[q]]
  <2>1. CASE run[r].mode = "BACKFILL" /\ run[r].more
    <3>1. run' = [run EXCEPT ![r] = next] /\ pc' = [pc EXCEPT ![r] = "fetch"]
      BY <2>1 DEF AdvanceCheckpoint
    <3>2. run[r].pos + Cardinality(run[r].answer) \in Nat
      BY <1>1, FS_CardinalityType DEF Run, Started
    <3>3. /\ next \in Run /\ next.n = run[r].n /\ next.list = run[r].list
          /\ next.mode = run[r].mode /\ next.cp = run[r].cp
          /\ next.page = run[r].page /\ next.seen = run[r].seen
          /\ next.answer = run[r].answer
      BY <1>1, <3>2 DEF Run
    <3> HIDE DEF next
    <3>4. Typed(next, "fetch", NoDraft)
      BY <3>3, NoDraftFacts DEF Typed, Places
    <3>5. Started(next, "fetch", checkpoint')
      BY <1>1, <2>1, <3>3 DEF Started
    <3>6. Accounted(next, "fetch", NoDraft, kept')
      BY <1>1, <1>2, <1>3, <1>4, <3>3 DEF Accounted, Held
    <3>7. Sound(next, "fetch", NoDraft, kept', checkpoint')
      BY <3>4, <3>5, <3>6 DEF Sound
    <3> QED
      BY <1>4, <1>6, <1>8, <3>1, <3>7, RunStep
  <2>2. CASE ~(run[r].mode = "BACKFILL" /\ run[r].more)
    <3>1. /\ run' = [run EXCEPT ![r] = Left(r, "COMPLETED")]
          /\ pc' = [pc EXCEPT ![r] = AfterEntity(r)]
      BY <2>2 DEF AdvanceCheckpoint
    <3>2. Sound(Left(r, "COMPLETED"), AfterEntity(r), NoDraft, kept', checkpoint')
      BY <1>2, LeftSound
    <3> QED
      BY <1>4, <1>6, <1>8, <3>1, <3>2, RunStep
  <2> QED
    BY <2>1, <2>2
<1> QED
  BY <1>3, <1>6, <1>7, <1>8, <1>9 DEF SyncInv, SharedOK

LEMMA FinishInv == ASSUME SyncInv, NEW r \in Runs, Finish(r) PROVE SyncInv'
<1> DEFINE report == [run[r].report EXCEPT !.status = run[r].result]
<1>1. run[r] \in Run /\ Typed(run[r], pc[r], draft[r])
  BY RunFacts DEF Finish
<1>2. /\ run' = [run EXCEPT ![r] = Over(run[r])]
      /\ pc' = [pc EXCEPT ![r] = "ended"] /\ pc[r] = "finish"
      /\ syncRun' = [syncRun EXCEPT ![r] = report]
      /\ UNCHANGED <<clock, remote, snapshot, txn, checkpoint, lock, draft,
                     kept, coveredFrom>>
  BY DEF Finish
<1>3. draft[r] = NoDraft /\ draft' = [draft EXCEPT ![r] = NoDraft]
  BY <1>1, <1>2 DEF Typed, SyncInv, SharedOK
<1>4. report \in Report
  BY <1>1 DEF Run, Report
<1> HIDE DEF report
<1>5. Sound(Over(run[r]), "ended", NoDraft, kept', checkpoint')
  BY <1>2, OverSound
<1>6. /\ syncRun' \in [Runs -> Report]
      /\ kept' \in [Txns -> Nat] /\ \A t \in Txns : kept[t] <= kept'[t]
      /\ \A key \in Keys : checkpoint[key] # None => checkpoint'[key] # None
  BY <1>2, <1>4 DEF SyncInv, SharedOK
<1>7. /\ RunsAreSound'
      /\ pc' = [q \in Runs |-> pc'[q]]
      /\ run' = [q \in Runs |-> run'[q]]
      /\ draft' = [q \in Runs |-> draft'[q]]
  BY <1>2, <1>3, <1>5, <1>6, RunStep
<1> QED
  BY <1>2, <1>6, <1>7 DEF SyncInv, SharedOK

\* Time and edits touch no run.
LEMMA RemoteInv ==
  ASSUME SyncInv, Tick \/ \E t \in Txns : Edit(t)
  PROVE  SyncInv'
<1>1. UNCHANGED <<snapshot, txn, checkpoint, syncRun, lock, pc, run, draft,
                  kept, coveredFrom>>
  BY DEF Tick, Edit
<1>2. RunsAreSound'
  BY <1>1 DEF SyncInv, RunsAreSound
<1>3. CASE Tick
  BY <1>1, <1>2, <1>3 DEF Tick, SyncInv, SharedOK
<1>4. ASSUME NEW t \in Txns, Edit(t) PROVE SyncInv'
  <2>1. remote \in [Txns -> [version : Nat, at : Int, live : BOOLEAN]] /\ clock \in Int
    BY DEF SyncInv, SharedOK
  <2>2. remote' \in [Txns -> [version : Nat, at : Int, live : BOOLEAN]]
    BY <1>4, <2>1 DEF Edit
  <2>3. clock' = clock
    BY <1>4 DEF Edit
  <2> QED
    BY <1>1, <1>2, <2>2, <2>3 DEF SyncInv, SharedOK
<1> QED
  BY <1>3, <1>4

\* A deletion changes what a backfill has to find, and nothing else of it.
LEMMA DeleteInv == ASSUME SyncInv, NEW t \in Txns, Delete(t) PROVE SyncInv'
<1>1. /\ remote \in [Txns -> [version : Nat, at : Int, live : BOOLEAN]]
      /\ clock \in Int
  BY DEF SyncInv, SharedOK
<1>2. remote' \in [Txns -> [version : Nat, at : Int, live : BOOLEAN]]
  BY <1>1 DEF Delete
<1>3. ASSUME NEW r \in Runs
      PROVE  Sound(run'[r], pc'[r], draft'[r], kept', checkpoint')
  <2>1. /\ pc'[r] = pc[r] /\ draft'[r] = draft[r] /\ kept' = kept
        /\ checkpoint' = checkpoint
    BY DEF Delete
  <2>2. Sound(run[r], pc[r], draft[r], kept, checkpoint)
    BY DEF SyncInv, RunsAreSound
  <2>3. CASE ~IsAt(r, EntityOf[t])
    <3>1. run'[r] = run[r]
      BY <2>3 DEF Delete
    <3> QED
      BY <2>1, <2>2, <3>1
  <2>4. CASE IsAt(r, EntityOf[t])
    <3> DEFINE initial == [run[r].initial EXCEPT ![run[r].n] = NothingToFind]
               a == [run[r] EXCEPT !.initial = initial]
    <3>1. run'[r] = a
      BY <2>4 DEF Delete
    <3>2. /\ run[r] \in Run
          /\ Typed(run[r], pc[r], draft[r])
          /\ Started(run[r], pc[r], checkpoint)
          /\ Accounted(run[r], pc[r], draft[r], kept)
      BY <2>4, RunFacts DEF IsAt, Active
    <3>3. initial \in Seq([Txns -> Nat])
      <4>1. run[r].initial \in Seq([Txns -> Nat]) /\ NothingToFind \in [Txns -> Nat]
        BY <3>2 DEF Run, NothingToFind
      <4>2. run[r].n \in Nat
        BY <3>2 DEF Run
      <4> QED
        BY <4>1, <4>2, ReplacedIn
    <3> HIDE DEF initial
    <3>4. /\ a \in Run /\ a.n = run[r].n /\ a.list = run[r].list
          /\ a.mode = run[r].mode /\ a.cp = run[r].cp
          /\ a.windows = run[r].windows /\ a.page = run[r].page
          /\ a.seen = run[r].seen /\ a.answer = run[r].answer
          /\ a.looked = run[r].looked
      BY <3>2, <3>3 DEF Run
    <3> HIDE DEF a
    <3>5. Typed(a, pc[r], draft[r])
      BY <3>2, <3>4 DEF Typed
    <3>6. Started(a, pc[r], checkpoint)
      BY <3>2, <3>4 DEF Started
    <3>7. Accounted(a, pc[r], draft[r], kept)
      BY <3>2, <3>4 DEF Accounted, Held
    <3> QED
      BY <2>1, <3>1, <3>5, <3>6, <3>7 DEF Sound
  <2> QED
    BY <2>3, <2>4
<1>4. /\ run' = [r \in Runs |-> run'[r]]
      /\ UNCHANGED <<clock, snapshot, txn, checkpoint, syncRun, lock, pc,
                     draft, kept, coveredFrom>>
  BY DEF Delete
<1> QED
  BY <1>2, <1>3, <1>4 DEF SyncInv, SharedOK, RunsAreSound

-----------------------------------------------------------------------------
(* The theorems.                                                           *)

\* Every step keeps the invariant.
LEMMA SyncNext == SyncInv /\ [Next]_vars => SyncInv'
<1> SUFFICES ASSUME SyncInv, [Next]_vars PROVE SyncInv'
  OBVIOUS
<1>1. CASE UNCHANGED vars
  BY <1>1 DEF vars, SyncInv, SharedOK, RunsAreSound
<1>2. ASSUME NEW r \in Runs, Step(r) PROVE SyncInv'
  BY <1>2, BeginInv, EnterEntityInv, FetchChangesInv, FetchPageInv,
     FetchEndsInv, LookInv, WriteInv, CommitAnswerInv, MissCheckpointInv,
     AdvanceCheckpointInv, EndsBadlyInv, FinishInv DEF Step
<1>3. CASE Tick \/ \E t \in Txns : Edit(t)
  BY <1>3, RemoteInv
<1>4. ASSUME NEW t \in Txns, Delete(t) PROVE SyncInv'
  BY <1>4, DeleteInv
<1> QED
  BY <1>1, <1>2, <1>3, <1>4 DEF Next

LEMMA SyncInvariance == Spec => []SyncInv
  BY SyncInit, SyncNext, PTL DEF Spec

\* Types, whatever the remote answers and wherever runs die.
THEOREM TypesHold == Spec => []TypeOK
<1>1. SyncInv => TypeOK
  <2> SUFFICES ASSUME SyncInv PROVE TypeOK
    OBVIOUS
  <2>1. \A r \in Runs : Typed(run[r], pc[r], draft[r])
    BY DEF SyncInv, RunsAreSound, Sound
  <2>2. pc \in [Runs -> Places] /\ run \in [Runs -> Run \cup {None}]
    BY <2>1 DEF Typed, SyncInv, SharedOK
  <2> QED
    BY <2>1, <2>2 DEF Typed, DraftRow, TypeOK, SyncInv, SharedOK
<1> QED
  BY <1>1, SyncInvariance, PTL

\* Only advance_checkpoint touches a checkpoint, its own.
LEMMA CheckpointMoves ==
  ASSUME SyncInv, Next, NEW k \in Keys, checkpoint'[k] # checkpoint[k]
  PROVE  \E r \in Runs : AdvanceCheckpoint(r) /\ Key(r) = k
<1>1. PICK r \in Runs : AdvanceCheckpoint(r)
  BY DEF Next, Step, Begin, EnterEntity, FetchChanges, RefuseWindow, FetchPage,
         NoMorePages, RequestFails, LeaveEntity, Look, Write, DatabaseError,
         Abandon, CommitAnswer, MissCheckpoint, CheckpointConflict, Finish,
         Crash, Edit, Delete, Tick
<1>2. Key(r) = k
  BY <1>1 DEF AdvanceCheckpoint, SyncInv, SharedOK
<1> QED
  BY <1>1, <1>2

\* A checkpoint moves only when all that its run fetched for the entity is
\* committed, by itself or by another run.
THEOREM CheckpointFollowsCommitHolds == Spec => CheckpointFollowsCommit
<1> DEFINE Follows == \A k \in Keys : checkpoint'[k] # checkpoint[k] =>
              \E r \in Runs :
                 /\ pc[r] \in {"mark", "insert"} /\ Key(r) = k
                 /\ \A rec \in run[r].seen : kept[rec.id] >= rec.version
<1>1. SyncInv /\ [Next]_vars => Follows \/ UNCHANGED vars
  <2> SUFFICES ASSUME SyncInv, Next, NEW k \in Keys, checkpoint'[k] # checkpoint[k]
               PROVE  \E r \in Runs :
                 /\ pc[r] \in {"mark", "insert"} /\ Key(r) = k
                 /\ \A rec \in run[r].seen : kept[rec.id] >= rec.version
    OBVIOUS
  <2>1. PICK r \in Runs : AdvanceCheckpoint(r) /\ Key(r) = k
    BY CheckpointMoves
  <2>2. pc[r] \in {"mark", "insert"}
    BY <2>1 DEF AdvanceCheckpoint
  <2>3. /\ Typed(run[r], pc[r], draft[r])
        /\ Accounted(run[r], pc[r], draft[r], kept) /\ run[r] \in Run
    BY <2>2, RunFacts
  <2>4. draft[r] = NoDraft /\ run[r].page = {}
    BY <2>2, <2>3 DEF Typed, Accounted
  <2>5. ASSUME NEW rec \in run[r].seen PROVE kept[rec.id] >= rec.version
    <3>1. rec.version <= kept[rec.id]
      BY <2>2, <2>3, <2>4, NoDraftFacts DEF Accounted, Held
    <3>2. rec.version \in Nat /\ kept[rec.id] \in Nat
      BY <2>3 DEF Run, Record, SyncInv, SharedOK
    <3> QED
      BY <3>1, <3>2
  <2> QED
    BY <2>1, <2>2, <2>5
<1>2. (Follows \/ UNCHANGED vars) <=> [Follows]_vars
  OBVIOUS
<1>3. SyncInv /\ [Next]_vars => [Follows]_vars
  BY <1>1, <1>2
<1> HIDE DEF Follows
<1>4. Spec => [][Follows]_vars
  BY <1>3, SyncInvariance, PTL DEF Spec
<1> QED
  BY <1>4 DEF Follows, CheckpointFollowsCommit

\* The checkpoint of a backfill never moves backward: a backfill has loaded no
\* checkpoint, and is judged by the row it has locked.
THEOREM BackfillCheckpointHolds == Spec => BackfillCheckpointIsMonotone
<1> DEFINE Forward == \A e \in Entities :
              LET cp == checkpoint[<<e, "BACKFILL">>] IN
              cp # None => checkpoint'[<<e, "BACKFILL">>].at >= cp.at
<1>1. SyncInv /\ [Next]_vars => [Forward]_vars
  <2> SUFFICES ASSUME SyncInv, Next, NEW e \in Entities,
                      checkpoint[<<e, "BACKFILL">>] # None
               PROVE  checkpoint'[<<e, "BACKFILL">>].at
                         >= checkpoint[<<e, "BACKFILL">>].at
    OBVIOUS
  <2> DEFINE k == <<e, "BACKFILL">>
  <2>1. k \in Keys /\ checkpoint[k] \in Mark /\ checkpoint[k].at \in Int
    BY DEF Keys, SyncInv, SharedOK, Mark
  <2>2. CASE checkpoint'[k] = checkpoint[k]
    BY <2>1, <2>2
  <2>3. CASE checkpoint'[k] # checkpoint[k]
    <3>1. PICK r \in Runs : AdvanceCheckpoint(r) /\ Key(r) = k
      BY <2>1, <2>3, CheckpointMoves
    <3>2. pc[r] # "new" /\ run[r].mode = "BACKFILL"
      BY <3>1 DEF AdvanceCheckpoint, Key
    <3>3. run[r] \in Run /\ run[r].cp = None
      BY <3>2, RunFacts DEF Started
    <3>4. checkpoint'[k] = Advanced(checkpoint[k], run[r].until, checkpoint[k])
      BY <2>1, <3>1, <3>3 DEF AdvanceCheckpoint, Judged, Target, SyncInv, SharedOK
    <3>5. run[r].until \in Int /\ checkpoint[k].version + 1 \in Nat
      BY <2>1, <3>3 DEF Run, Mark
    <3>6. ASSUME NEW row \in Mark, row # None, NEW until \in Int
          PROVE  Advanced(row, until, row).at >= row.at
      <4>1. row.at \in Int /\ row.version \in Nat
        BY <3>6 DEF Mark
      <4>2. CASE until <= row.at
        BY <3>6, <4>1, <4>2 DEF Advanced
      <4>3. CASE ~(until <= row.at)
        <5>1. Flushed(row, [at |-> until, version |-> row.version + 1], row).at = until
          BY <4>1, <4>3 DEF Flushed, Mark
        <5> QED
          BY <3>6, <4>1, <4>3, <5>1 DEF Advanced
      <4> QED
        BY <4>2, <4>3
    <3> QED
      BY <2>1, <3>4, <3>5, <3>6
  <2> QED
    BY <2>2, <2>3
<1> HIDE DEF Forward
<1>2. Spec => [][Forward]_vars
  BY <1>1, SyncInvariance, PTL DEF Spec
<1> QED
  BY <1>2 DEF Forward, BackfillCheckpointIsMonotone
=============================================================================
