--------------------------- MODULE AccountQueries ---------------------------
(***************************************************************************)
(* What is asked of the stored chart of accounts                           *)
(* (integrations/quickbooks/accounting/services.py, repository.py,         *)
(* router.py): lists, candidates, validation of a reference, usage and     *)
(* resolution.  All of them only read.                                     *)
(*                                                                         *)
(* A list is in a fixed order; here it is that of the ids.                 *)
(***************************************************************************)
EXTENDS AccountSync

CONSTANTS
    CoaType,       \* account_type of each account, "" when it has none
    CoaClass       \* classification of each account, "" when it has none

Classifications == {"Asset", "Liability", "Equity", "Revenue", "Expense"}

ASSUME CoaKindAssumption ==
    /\ CoaType \in [Accounts -> STRING]
    /\ CoaClass \in [Accounts -> Classifications \cup {""}]

\* _USAGE_RULES
UsageRules == [expense |-> {"Expense"}, income |-> {"Revenue"}, asset |-> {"Asset"},
               liability |-> {"Liability"}, equity |-> {"Equity"}, bank |-> {"Asset"},
               accounts_payable |-> {"Liability"}, accounts_receivable |-> {"Asset"}]

InChart(a) == coaRow[a].token > 0

\* The record of a deleted account has neither, and it overwrites both.
TypeOf(a)  == IF coaRow[a].deleted THEN "" ELSE CoaType[a]
ClassOf(a) == IF coaRow[a].deleted THEN "" ELSE CoaClass[a]

\* An empty list filters nothing.
Matches(value, wanted) == wanted = {} \/ value \in wanted

\* What is asked for.  parents and tops are the candidates' own: the ids of parents,
\* and not include_subaccounts.  name_search is left out.
Filter(activeOnly, classes) ==
    [activeOnly |-> activeOnly, types |-> {}, classes |-> classes,
     parents |-> {}, tops |-> FALSE]

UpTo(sequence, n) == SubSeq(sequence, 1, IF n < Len(sequence) THEN n ELSE Len(sequence))

InOrder(ids) == [i \in 1..Cardinality(ids) |->
                    CHOOSE a \in ids : Cardinality({b \in ids : b < a}) = i - 1]

\* Mutant: deleted accounts are listed, too.
Hits_WithDeleted(filter) ==
    {a \in Accounts : /\ InChart(a)
                      /\ filter.activeOnly => coaRow[a].active
                      /\ Matches(TypeOf(a), filter.types)
                      /\ Matches(ClassOf(a), filter.classes)}

\* What the filter leaves of the chart.
Hits(filter) ==
    {a \in Accounts : /\ InChart(a) /\ ~coaRow[a].deleted
                      /\ filter.activeOnly => coaRow[a].active
                      /\ Matches(TypeOf(a), filter.types)
                      /\ Matches(ClassOf(a), filter.classes)}

\* get_accounts_by_realm
AccountList(filter, limit) == UpTo(InOrder(Hits(filter)), limit)

\* One page of the endpoint: the list up to the page's end, cut.  Its total is the
\* length of what was read.
AccountPage(filter, limit, offset) ==
    LET list == AccountList(filter, limit + offset)
    IN [items |-> SubSeq(list, offset + 1, Len(list)), total |-> Len(list)]

\* get_candidates: the limit comes before the filters of its own.  (A subaccount is
\* an account with a parent.)
AccountCandidates(filter, limit) ==
    {a \in ToSet(AccountList(filter, limit)) :
        /\ filter.tops => coaRow[a].parent = NoParent
        /\ Matches(coaRow[a].parent, filter.parents)}

\* validate_account_reference: the first check that fails.  An account without a
\* type or classification is not held against the lists.
ValidateReference(a, requireActive, types, classes) ==
    IF ~InChart(a) THEN "NOT_FOUND"
    ELSE IF coaRow[a].deleted THEN "SOURCE_DELETED"
    ELSE IF requireActive /\ ~coaRow[a].active THEN "INACTIVE"
    ELSE IF TypeOf(a) # "" /\ ~Matches(TypeOf(a), types) THEN "TYPE_NOT_ALLOWED"
    ELSE IF ClassOf(a) # "" /\ ~Matches(ClassOf(a), classes) THEN "CLASSIFICATION_NOT_ALLOWED"
    ELSE "VALID"

\* The evaluation of a usage.  That an account is inactive is only a warning.
UsageEvaluation(a, usage) ==
    LET known == usage \in DOMAIN UsageRules
        fits  == known /\ ClassOf(a) \in UsageRules[usage]
    IN [allowed |-> fits /\ ~coaRow[a].deleted,
        warning |-> IF ~known THEN "unknown usage"
                    ELSE IF coaRow[a].deleted THEN "deleted"
                    ELSE IF ~fits THEN "not typical"
                    ELSE IF ~coaRow[a].active THEN "inactive" ELSE "none"]

\* The endpoint: an account that is not there is not evaluated.
UsageAnswer(a, usage) ==
    IF InChart(a) THEN UsageEvaluation(a, usage)
    ELSE [allowed |-> FALSE, warning |-> "not found"]

\* resolve: a deleted account resolves, and nothing is said against it.
ResolveReference(a) ==
    [resolved |-> InChart(a),
     reason   |-> IF ~InChart(a) THEN "NOT_FOUND"
                  ELSE IF coaRow[a].active THEN "OK" ELSE "INACTIVE"]

-----------------------------------------------------------------------------
(* Properties.                                                             *)

\* The questions agree about every stored account at every moment of the runs:
\* paging through the list finds an account iff it is a candidate, iff it validates
\* and has what is asked for; a usage is allowed to it without a warning iff it
\* validates for the usage's classifications; and what validates resolves as OK.
\* (An account without a classification validates for each and is listed for none;
\* one that is deleted does not validate, and its record resolves as OK.)
AnswersAgree ==
    \A a \in {b \in Accounts : InChart(b)}, class \in {CoaClass[b] : b \in Accounts} :
        LET wanted    == {class} \ {""}
            n         == Cardinality(Accounts)
            Valid(cs) == ValidateReference(a, TRUE, {}, cs) = "VALID"
            listed    == \E k \in 0..n - 1 :
                            a \in ToSet(AccountPage(Filter(TRUE, wanted), 1, k).items)
        IN /\ listed <=> a \in AccountCandidates(Filter(TRUE, wanted), n)
           /\ listed <=> Valid(wanted) /\ (wanted = {} \/ ClassOf(a) # "")
           /\ Valid(wanted) => ResolveReference(a) = [resolved |-> TRUE, reason |-> "OK"]
           /\ \A usage \in DOMAIN UsageRules :
                 /\ class \in UsageRules[usage] /\ ClassOf(a) # ""
                 => (Valid(UsageRules[usage])
                       <=> UsageAnswer(a, usage) = [allowed |-> TRUE, warning |-> "none"])
=============================================================================
