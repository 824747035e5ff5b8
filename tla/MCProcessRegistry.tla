-------------------------- MODULE MCProcessRegistry --------------------------
(***************************************************************************)
(* Small instances of ProcessRegistry.                                     *)
(***************************************************************************)
EXTENDS ProcessRegistry, TLC

CONSTANTS p1, p2, p3, p4

\* p1 and p2 are started by the broker, p3 is a fork of p1.
OneForked == [p \in Pid |-> IF p = p3 THEN <<p1>> ELSE <<>>]

\* and p4 is a fork of p3.
ForkedTwice == [p \in Pid |-> CASE p = p3 -> <<p1>> [] p = p4 -> <<p3, p1>> [] OTHER -> <<>>]

\* Kept is remove_if: what SelectSeq leaves when the values of the kept places are selected.
ASSUME KeptIsSelectSeq ==
  \A n \in 0..4 : \A s \in [1..n -> 1..3], values \in SUBSET (1..3) :
    LET IsKept(v) == v \in values
    IN Kept(s, {i \in 1..n : s[i] \in values}) = SelectSeq(s, IsKept)

\* Windows are interchangeable; used where only safety is checked.
ToplevelSymmetry == Permutations(Toplevel)
=============================================================================
