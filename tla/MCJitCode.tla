------------------------------ MODULE MCJitCode ------------------------------
(***************************************************************************)
(* Instances of JitCode for TLC.                                           *)
(***************************************************************************)
EXTENDS JitCode, TLC

CONSTANTS c1, c2, g1, g2, b1, n1

\* Every code object loads the one name.
MCLoads == [c \in Code |-> n1]

\* Code runs with one namespace; c1 runs with two; c1 also runs in builtins itself.
OneNamespace == [c \in Code |-> {<<g1, b1>>}]
TwoNamespaces == [c \in Code |-> {<<g1, b1>>} \cup {<<g2, b1>> : x \in {c} \cap {c1}}]
InBuiltins == [c \in Code |-> {<<g1, b1>>} \cup {<<b1, b1>> : x \in {c} \cap {c1}}]

Interchangeable == Permutations(Value) \cup Permutations(Frame)
=============================================================================
