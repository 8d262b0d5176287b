------------------------------ MODULE JoinSpec ------------------------------
(***************************************************************************)
(* What joining two compiled sides promises, without names: the joined     *)
(* expression's output columns are the left side's columns then the right  *)
(* side's, its hidden ordering columns likewise, and (in ordered mode) its *)
(* ordering is the preserved side's ordering followed by the other side's. *)
(* A column is denoted by its origin <<side, id>>; how the compiler names  *)
(* it in the joined table is not observable here.                          *)
(***************************************************************************)
EXTENDS Sequences

CONSTANTS
    SideSet,      \* the compiled sides a join may be given
    NoResult      \* no joined expression yet

VARIABLES left, right, jtype, joined
specVars == <<left, right, jtype, joined>>

JoinKinds == {"inner", "outer", "left", "right", "cross"}

\* the columns of one side, each denoted by its origin
Origins(s, tag) == [i \in DOMAIN s |-> <<tag, s[i]>>]

\* a right join preserves the right side's order; every other kind the left's
PreservedFirst ==
    IF jtype = "right"
    THEN Origins(right.ordering, "R") \o Origins(left.ordering, "L")
    ELSE Origins(left.ordering, "L") \o Origins(right.ordering, "R")

SpecInit ==
    /\ left \in SideSet
    /\ right \in SideSet
    /\ jtype \in JoinKinds
    /\ joined = NoResult

JoinOrdered ==
    /\ joined = NoResult
    /\ joined' = [columns |-> Origins(left.columns, "L") \o Origins(right.columns, "R"),
                  hidden |-> Origins(left.hidden, "L") \o Origins(right.hidden, "R"),
                  ordering |-> PreservedFirst]
    /\ UNCHANGED <<left, right, jtype>>

\* unordered sides carry no hidden columns and the result no ordering
JoinUnordered ==
    /\ joined = NoResult
    /\ left.hidden = <<>> /\ right.hidden = <<>>
    /\ joined' = [columns |-> Origins(left.columns, "L") \o Origins(right.columns, "R"),
                  hidden |-> <<>>,
                  ordering |-> <<>>]
    /\ UNCHANGED <<left, right, jtype>>

SpecNext == JoinOrdered \/ JoinUnordered

\* a join that is asked for is produced: compiling it is a call that returns
Spec == SpecInit /\ [][SpecNext]_specVars /\ WF_specVars(SpecNext)
=============================================================================
