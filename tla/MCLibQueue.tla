------------------------------ MODULE MCLibQueue ------------------------------
(***************************************************************************)
(* Instances of LibQueue for TLC: threads that put, get and join.          *)
(***************************************************************************)
EXTENDS LibQueue

CONSTANTS p, q, c, d, x, y

A(kind, item, mode) == [kind |-> kind, item |-> item, mode |-> mode]
\* Two producers, one with a timeout that also joins; a consumer with a timeout, and one that
\* finishes tasks.
PutGetJoin == [t \in Thread |->
  CASE t = p -> {A("put", x, "timed"), A("join", x, "block")}
    [] t = q -> {A("put", y, "block")}
    [] t = c -> {A("get", x, "timed")}
    [] t = d -> {A("get", x, "block"), A("get", x, "nowait"), A("task_done", x, "block")}]
=============================================================================
