------------------------- MODULE CategorizationRun -------------------------
(***************************************************************************)
(* The categorization engine and a run over a list of transactions         *)
(* (categorization/engine.py, services.py, rules.py, scoring.py,           *)
(* normalization.py, features.py, repository.py).                          *)
(*                                                                         *)
(* Scores are hundredths.  A text is its set of words; a vendor name is a  *)
(* core with some processor prefixes before it and legal suffixes after.   *)
(* One session serves the run: a flush that fails rolls its transaction    *)
(* back, and every later statement of the session is refused.              *)
(***************************************************************************)
EXTENDS Integers, Sequences, SequencesExt, FiniteSetsExt

CONSTANTS
    Names,         \* names of vendors and payees
    Shapes,        \* kinds and conditions of the rules that may be entered
    Feed,          \* transactions a run may be given
    Targets,       \* accounts
    MaxRules,      \* bound: rules of the realm
    MaxVotes,      \* bound: approvals and rejections of a vendor mapping
    MaxRun         \* bound: transactions of a run

ASSUME EngineAssumption == {MaxRules, MaxVotes, MaxRun} \subseteq Nat

VARIABLES
    rules,         \* active categorization_rule rows in order of precedence
    mapping,       \* the vendor_mapping row, or none
    engineRun,     \* the run: what is left of it, its session and its counts
    result,        \* the last CategorizationResult, with the target of the first rule
    runTable       \* committed categorization_run rows and categorizations

engineVars == <<rules, mapping, engineRun, result, runTable>>

NoName   == [core |-> "", pre |-> 0, suf |-> 0]
NoTarget == "none"

\* normalize_vendor takes one prefix and one suffix off.
NormalizeVendor(name) ==
    [name EXCEPT !.pre = IF @ > 0 THEN @ - 1 ELSE 0,
                 !.suf = IF @ > 0 THEN @ - 1 ELSE 0]

Abs(n) == IF n < 0 THEN -n ELSE n

\* name in other, as strings.
IsPart(name, other) ==
    \/ name.core = ""
    \/ name.core = other.core /\ name.pre <= other.pre /\ name.suf <= other.suf

-----------------------------------------------------------------------------
(* Rules.  The engine hands the normalized vendor of the features to a     *)
(* rule, which normalizes it again.                                        *)

SubMatches(sub, txn) ==
    CASE sub.kind = "vendor_equals" ->
            NormalizeVendor(NormalizeVendor(txn.vendor)) = NormalizeVendor(sub.name)
      [] sub.kind = "description_contains" -> sub.text \subseteq txn.description
      [] sub.kind = "memo_contains" -> sub.text \subseteq txn.memo
      [] OTHER -> FALSE

RuleMatches(rule, txn) ==
    LET actual == NormalizeVendor(NormalizeVendor(txn.vendor))
        target == NormalizeVendor(rule.name)
    IN CASE rule.kind = "EXACT_VENDOR" -> target.core # "" /\ target = actual
         [] rule.kind = "NORMALIZED_VENDOR" -> target.core # "" /\ IsPart(target, actual)
         [] rule.kind = "DESCRIPTION_CONTAINS" ->
               rule.text # {} /\ rule.text \subseteq txn.description
         [] rule.kind = "MEMO_CONTAINS" -> rule.text # {} /\ rule.text \subseteq txn.memo
         [] rule.kind = "TRANSACTION_TYPE" -> rule.type = txn.type
         [] rule.kind = "AMOUNT_RANGE" -> Abs(txn.amount) \in rule.low..rule.high
         [] rule.kind = "COMPOSITE" -> \A sub \in rule.all : SubMatches(sub, txn)
         [] OTHER -> FALSE

\* The places of the matching rules in the order of precedence, up to one that
\* stops.
Matching(txn) ==
    {i \in DOMAIN rules :
        /\ RuleMatches(rules[i].shape, txn)
        /\ ~\E k \in 1..(i - 1) : RuleMatches(rules[k].shape, txn) /\ rules[k].stop}

-----------------------------------------------------------------------------
(* Scores and candidates.                                                  *)

HistoryRatio == (mapping.approvals * 100) \div Max({1, mapping.approvals + mapping.rejections})

\* Mutant: the history is not capped at its weight.
CalculateScore_HistoryUncapped(ruleMatch, history, conflict) ==
    Min({100, (IF ruleMatch THEN 55 ELSE 0) + history + 10 - (IF conflict THEN 15 ELSE 0)})

\* Mutant: the weights of rules and history are swapped.
CalculateScore_WeightsSwapped(ruleMatch, history, conflict) ==
    Max({0, (IF ruleMatch THEN 25 ELSE 0) + Min({history, 55}) + 10
              - (IF conflict THEN 15 ELSE 0)})

CalculateScore(ruleMatch, history, conflict) ==
    LET sum == (IF ruleMatch THEN 55 ELSE 0)
             + (IF history > 0 THEN Min({history, 25}) ELSE 0)
             + 10
        net == IF conflict THEN Max({0, sum - 15}) ELSE sum
    IN Min({100, net})

ScoreToBand(score) ==
    CASE score >= 90 -> "HIGH" [] score >= 70 -> "MEDIUM"
      [] score > 0 -> "LOW" [] OTHER -> "NONE"

\* The rules, and after them the history of the vendor unless a rule has its target.
Candidates(txn) ==
    LET matches  == Matching(txn)
        targets  == {rules[i].target : i \in matches}
        conflict == Cardinality(matches) > 1 /\ Cardinality(targets) > 1
        known    == /\ txn.vendor.core # "" /\ mapping.target # NoTarget
                    /\ mapping.vendor = NormalizeVendor(txn.vendor)
                    /\ mapping.approvals >= 2 /\ mapping.target \notin targets
    IN {[target |-> rules[i].target, source |-> "USER_RULE", rank |-> i,
         score  |-> CalculateScore(TRUE, 0, conflict)] : i \in matches}
       \cup (IF known
             THEN {[target |-> mapping.target, source |-> "APPROVED_HISTORY",
                    rank   |-> Len(rules) + 1,
                    score  |-> CalculateScore(FALSE, HistoryRatio, conflict)]}
             ELSE {})

\* The order in which candidates are sorted; ranks differ.
Before(c, d) == c.score > d.score \/ (c.score = d.score /\ c.rank < d.rank)
Best(cs) == CHOOSE c \in cs : \A d \in cs \ {c} : Before(c, d)

\* check_assisted_automation_gate
GatePasses(cs) ==
    LET top    == Best(cs)
        rest   == cs \ {top}
        second == IF rest = {} THEN 0 ELSE Best(rest).score
    IN /\ cs # {} /\ top.score >= 97 /\ top.score - second >= 10
       /\ top.source = "USER_RULE" =>
             Cardinality({c.target : c \in {d \in cs : d.source = top.source}}) = 1

Eligible == {"Purchase", "Bill"}
Decided  == {"APPROVED", "APPLIED", "APPLYING"}

CategorizeTransaction(txn, existing, recategorize) ==
    LET cs == Candidates(txn)
        answer(status, target) == [status |-> status, target |-> target, candidates |-> {}]
    IN IF txn.type \notin Eligible THEN answer("PENDING", NoTarget)
       ELSE IF ~recategorize /\ existing.status \in Decided
            THEN answer(existing.status, existing.target)
       ELSE IF cs = {} THEN answer("NEEDS_REVIEW", NoTarget)
       ELSE [status     |-> IF GatePasses(cs) THEN "PRESELECTED"
                            ELSE IF ScoreToBand(Best(cs).score) = "HIGH" THEN "RECOMMENDED"
                            ELSE "NEEDS_REVIEW",
             target     |-> Best(cs).target,
             candidates |-> cs]

-----------------------------------------------------------------------------
(* Rules and mappings as they are entered, and the run.                    *)

NoRun    == [pc |-> "idle", left |-> 0, session |-> "clean", total |-> 0, failed |-> 0,
             recategorize |-> FALSE]
NoResult == [status |-> "none", target |-> NoTarget, candidates |-> {},
             first |-> NoTarget]

EngineTypeOK ==
    /\ Len(rules) <= MaxRules
    /\ {mapping.approvals, mapping.rejections} \subseteq 0..MaxVotes
    /\ mapping.target \in Targets \cup {NoTarget}
    /\ engineRun.pc \in {"idle", "run", "ended"}
    /\ engineRun.session \in {"clean", "dirty", "doomed"}
    /\ result.target \in Targets \cup {NoTarget}
    /\ runTable \in [completed : Nat, stored : Nat]

EngineInit ==
    /\ rules = << >>
    /\ mapping = [target |-> NoTarget, vendor |-> NoName, approvals |-> 0, rejections |-> 0]
    /\ engineRun = NoRun
    /\ result = NoResult
    /\ runTable = [completed |-> 0, stored |-> 0]

\* create_rule; where it falls in the order of precedence is the caller's.
CreateRule(shape, target, stop) ==
    /\ engineRun.pc = "idle" /\ Len(rules) < MaxRules
    /\ \E i \in 1..(Len(rules) + 1) :
          rules' = InsertAt(rules, i, [shape |-> shape, target |-> target, stop |-> stop])
    /\ UNCHANGED <<mapping, engineRun, result, runTable>>

\* upsert_vendor_mapping: another target counts against the first one.
UpsertVendorMapping(name, target) ==
    /\ engineRun.pc = "idle" /\ mapping.approvals + mapping.rejections < MaxVotes
    /\ mapping' =
         CASE mapping.target = NoTarget ->
                 [target |-> target, vendor |-> NormalizeVendor(name),
                  approvals |-> 1, rejections |-> 0]
           [] mapping.target = target -> [mapping EXCEPT !.approvals = @ + 1]
           [] OTHER -> [mapping EXCEPT !.rejections = @ + 1]
    /\ mapping.target # NoTarget => mapping.vendor = NormalizeVendor(name)
    /\ UNCHANGED <<rules, engineRun, result, runTable>>

StartRun(n, recategorize) ==
    /\ engineRun.pc = "idle"
    /\ engineRun' = [NoRun EXCEPT !.pc = "run", !.left = n, !.recategorize = recategorize]
    /\ UNCHANGED <<rules, mapping, result, runTable>>

\* Mutant: a row without rule is stored with NULL.
SessionAfter_NullRule(existing, answer) == "clean"

\* The row's rule_id refers to categorization_rule and is given the empty string,
\* so its INSERT fails at once and its UPDATE at the next statement of the
\* session: the SELECT of save_recommendations, or one of the next transaction.
SessionAfter(existing, answer) ==
    IF existing.status = "ABSENT" \/ answer.candidates # {} THEN "doomed" ELSE "dirty"

\* One transaction: categorize_transaction and persist_result, whose exceptions
\* are counted.
RunTransaction(txn, existing) ==
    /\ engineRun.pc = "run" /\ engineRun.left > 0
    /\ LET answer  == CategorizeTransaction(txn, existing, engineRun.recategorize)
           doomed  == engineRun.session # "clean"
           after   == IF doomed THEN "doomed" ELSE SessionAfter(existing, answer)
           fails   == after = "doomed"
       IN /\ result' = IF doomed /\ txn.type \in Eligible THEN NoResult
                       ELSE [status |-> answer.status, target |-> answer.target,
                             candidates |-> answer.candidates,
                             first |-> IF Matching(txn) = {} THEN NoTarget
                                       ELSE rules[Min(Matching(txn))].target]
          /\ engineRun' = [engineRun EXCEPT
                !.left    = @ - 1,
                !.session = after,
                !.failed  = @ + (IF fails THEN 1 ELSE 0),
                !.total   = @ + (IF fails THEN 0 ELSE 1)]
    /\ UNCHANGED <<rules, mapping, runTable>>

\* complete_run and the commit, outside of any handler: its SELECT flushes too.
CompleteRun ==
    /\ engineRun.pc = "run" /\ engineRun.left = 0
    /\ engineRun' = [NoRun EXCEPT !.pc = "ended", !.session = engineRun.session]
    /\ runTable' = IF engineRun.session = "clean"
                   THEN [completed |-> runTable.completed + 1,
                         stored    |-> runTable.stored + engineRun.total]
                   ELSE runTable
    /\ result' = NoResult
    /\ UNCHANGED <<rules, mapping>>

Existing == [status : {"ABSENT", "NEEDS_REVIEW"}, target : {NoTarget}]
            \cup [status : {"APPROVED"}, target : Targets]

EngineNext ==
    \/ \E shape \in Shapes, target \in Targets, stop \in BOOLEAN :
          CreateRule(shape, target, stop)
    \/ \E name \in Names, target \in Targets : UpsertVendorMapping(name, target)
    \/ \E n \in 0..MaxRun, recategorize \in BOOLEAN : StartRun(n, recategorize)
    \/ \E txn \in Feed, existing \in Existing : RunTransaction(txn, existing)
    \/ CompleteRun

EngineSpec == EngineInit /\ [][EngineNext]_engineVars

-----------------------------------------------------------------------------
(* Properties.                                                             *)

\* Whatever rules and history a realm has, no transaction reaches the 0.97 of
\* the assisted automation gate nor the 0.90 of a recommendation: the engine
\* never adds the weights of a rule and of a history (engine.py:225), so a human
\* reviews everything.
EverythingIsReviewed ==
    result.status \notin {"PRESELECTED", "RECOMMENDED"}

\* What is recommended is the target of the first matching rule, however the
\* penalty for conflicts and a long history of the vendor change the scores.
FirstRuleLeads ==
    result.candidates # {} /\ result.first # NoTarget => result.target = result.first

\* A run that had transactions leaves nothing: not one of them is stored, and no
\* run is recorded although the failures were counted.
LostRun == runTable.stored = 0
=============================================================================
