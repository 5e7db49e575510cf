----------------------------- MODULE MCCyclicGC -----------------------------
(* Small programs for CyclicGC. *)
EXTENDS CyclicGC

CONSTANTS a, b, f, w

\* A cycle a, b that keeps a weak reference to one of its own objects; f, the callback, has
\* __del__, is kept by the cycle and may keep it.
OwnCycle == {<<a, b>>, <<b, a>>, <<a, w>>, <<w, f>>, <<f, a>>, <<b, f>>}
OwnWatch == {<<w, a>>}

\* The object a keeps b, and a weak reference to b whose callback is a's.
LastRef == {<<a, b>>, <<a, w>>, <<w, a>>}
LastWatch == {<<w, b>>}
=============================================================================
