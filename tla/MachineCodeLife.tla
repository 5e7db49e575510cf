--------------------------- MODULE MachineCodeLife ---------------------------
(***************************************************************************)
(* What the JIT promises of a code object: machine code is made at most    *)
(* once, a frame enters only machine code that is valid, and machine code  *)
(* that was invalidated is never entered again (PY_MAX_FATALBAILCOUNT is   *)
(* 1: "force this code to use the eval loop forever after").               *)
(***************************************************************************)
CONSTANTS Code, Frame,
          NoCode     \* not an element of Code

VARIABLES phase,     \* [Code -> "absent", "cold", "compiled" or "invalid"]
          entered    \* [Frame -> the code object whose machine code it runs, or NoCode]

lifeVars == <<phase, entered>>

LifeInit == /\ phase = [c \in Code |-> "absent"]
            /\ entered = [f \in Frame |-> NoCode]

Create(c) == /\ phase[c] = "absent"
             /\ phase' = [phase EXCEPT ![c] = "cold"]
             /\ UNCHANGED entered

MakeNative(c) == /\ phase[c] = "cold"
                 /\ phase' = [phase EXCEPT ![c] = "compiled"]
                 /\ UNCHANGED entered

InvalidateAll(C) == /\ \A c \in C : phase[c] \in {"cold", "compiled", "invalid"}
                    /\ phase' = [c \in Code |-> IF c \in C THEN "invalid" ELSE phase[c]]
                    /\ UNCHANGED entered

Delete(c) == /\ phase[c] # "absent" /\ \A f \in Frame : entered[f] # c
             /\ phase' = [phase EXCEPT ![c] = "absent"]
             /\ UNCHANGED entered

Enter(f, c) == /\ entered[f] = NoCode /\ phase[c] = "compiled"
               /\ entered' = [entered EXCEPT ![f] = c]
               /\ UNCHANGED phase

Leave(f) == /\ entered[f] # NoCode
            /\ entered' = [entered EXCEPT ![f] = NoCode]
            /\ UNCHANGED phase

LifeNext == \/ \E c \in Code : Create(c) \/ MakeNative(c) \/ Delete(c)
            \/ \E C \in SUBSET Code : InvalidateAll(C)
            \/ \E f \in Frame : Leave(f) \/ \E c \in Code : Enter(f, c)

LifeSpec == LifeInit /\ [][LifeNext]_lifeVars
=============================================================================
