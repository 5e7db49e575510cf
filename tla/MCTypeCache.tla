----------------------------- MODULE MCTypeCache -----------------------------
(***************************************************************************)
(* Instances of TypeCache for TLC.                                         *)
(***************************************************************************)
EXTENDS TypeCache, TLC

CONSTANTS obj, A, B, C, D, E, F, m, g, v1, v2

\* Nothing tells one actor from another.
Actors == Permutations(Actor)

\* Entries collide: the slot depends on the tag alone.
ByTag(version, name) == version % 2

\* Values are of built-in types; or v1 is an instance of the heap type B.
Plain == [v \in Value |-> NoType]
Descriptor == [v \in Value |-> IF v = v1 THEN B ELSE NoType]

\* A below object; B below object or A; C below B or below both.
Lattice == [t \in Type |-> CASE t = A -> {<<obj>>} [] t = B -> {<<obj>>, <<A>>}
                             [] t = C -> {<<B>>, <<B, A>>, <<A, B>>} [] OTHER -> {}]

\* C below B, and B below object or A.
Chain == [t \in Type |-> CASE t = A -> {<<obj>>} [] t = B -> {<<obj>>, <<A>>}
                           [] t = C -> {<<B>>} [] OTHER -> {}]

\* D below B and C, which are below A, and so is F; A moves from object to E.
Diamond == [t \in Type |-> CASE t = E -> {<<obj>>} [] t = A -> {<<obj>>, <<E>>}
                             [] t \in {B, C, F} -> {<<A>>} [] t = D -> {<<B, C>>} [] OTHER -> {}]
=============================================================================
