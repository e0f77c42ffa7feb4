---------------------------- MODULE ReviewLedger -----------------------------
(***************************************************************************)
(* What the review of work items promises, without sessions, locks,        *)
(* deadlocks or rollbacks.  A request judges each of its items at one      *)
(* instant, and takes effect at a later one, as a whole or not at all:     *)
(* then every item it moves gets the transition, judged on the row as it   *)
(* was and written over the row as it is.  For the operations that lock    *)
(* first the two rows are the same.  For those that load first they need   *)
(* not be, and that is all that can go wrong.                              *)
(***************************************************************************)
EXTENDS ReviewRows

VARIABLES
    row,         \* the rows
    log,         \* the transitions of each item, in order
    escalation,  \* the escalations, named by the creating request
    ask,         \* what each request asks for, or NoOne
    judged,      \* of each request: the row, as it was, of the items it moves
    over         \* the requests that have taken effect or been given up

vars == <<row, log, escalation, ask, judged, over>>

NoItem == [i \in {} |-> NoOne]

Init ==
    /\ row \in [Items -> {NewRow(s) : s \in Starts}]
    /\ log = [i \in Items |-> << >>]
    /\ escalation = [r \in Requests |-> "ABSENT"]
    /\ ask = [r \in Requests |-> NoOne]
    /\ judged = [r \in Requests |-> NoItem]
    /\ over = {}

Arrive(r) ==
    /\ ask[r] = NoOne
    /\ ask'[r] \in Ask /\ LetIn(ask'[r])
    /\ ask' = [ask EXCEPT ![r] = ask'[r]]
    /\ UNCHANGED <<row, log, escalation, judged, over>>

UnderWay(r) == ask[r] \in Ask /\ r \notin over

Judge(r, i) ==
    /\ UnderWay(r)
    /\ i \in {ask[r].items[k] : k \in DOMAIN ask[r].items} \ DOMAIN judged[r]
    /\ judged' = [judged EXCEPT ![r] = [j \in DOMAIN @ \cup {i} |->
                                           IF j = i THEN row[i] ELSE @[j]]]
    /\ UNCHANGED <<row, log, escalation, ask, over>>

Legal(r, i) == LegalEntry(EntryOf(r, ask[r], judged[r][i]), i)

\* A batch goes on without an item it may not move, and without no other.
Skip(r, i) ==
    /\ UnderWay(r)
    /\ ask[r].kind = "batch" /\ i \in DOMAIN judged[r] /\ ~Legal(r, i)
    /\ judged' = [judged EXCEPT ![r] = [j \in DOMAIN @ \ {i} |-> @[j]]]
    /\ UNCHANGED <<row, log, escalation, ask, over>>

Effect(r, i) ==
    IF OnlyCorrects(ask[r], judged[r][i])
    THEN [row[i] EXCEPT !.recommended = r]
    ELSE Flushed(judged[r][i], Moved(r, ask[r], judged[r][i]), row[i])

Recorded(r, i) ==
    IF OnlyCorrects(ask[r], judged[r][i])
    THEN log[i] ELSE Append(log[i], EntryOf(r, ask[r], judged[r][i]))

TakeEffect(r) ==
    /\ UnderWay(r)
    /\ ask[r].kind \notin {"batch", "resolve"} => DOMAIN judged[r] # {}
    /\ \A i \in DOMAIN judged[r] :
          /\ ~OnlyCorrects(ask[r], judged[r][i]) => Legal(r, i)
          /\ ask[r].kind \in LockFirst => judged[r][i] = row[i]
    /\ row' = [i \in Items |-> IF i \in DOMAIN judged[r] THEN Effect(r, i) ELSE row[i]]
    /\ log' = [i \in Items |-> IF i \in DOMAIN judged[r] THEN Recorded(r, i) ELSE log[i]]
    /\ escalation' = EscalationsAfter(r, ask[r], escalation)
    /\ judged' = [judged EXCEPT ![r] = NoItem]
    /\ over' = over \cup {r}
    /\ UNCHANGED ask

GiveUp(r) ==
    /\ UnderWay(r)
    /\ judged' = [judged EXCEPT ![r] = NoItem]
    /\ over' = over \cup {r}
    /\ UNCHANGED <<row, log, escalation, ask>>

Next ==
    \E r \in Requests :
        \/ Arrive(r)
        \/ \E i \in Items : Judge(r, i) \/ Skip(r, i)
        \/ TakeEffect(r)
        \/ GiveUp(r)

Spec == Init /\ [][Next]_vars
=============================================================================
