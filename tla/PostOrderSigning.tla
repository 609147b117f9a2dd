-------------------------- MODULE PostOrderSigning --------------------------
(***************************************************************************)
(* What a re-signing promises about order, whatever it does to files.      *)
(* A bundle's CodeResources seals the signed content of the code below it, *)
(* so code is signed after the code below it, stays signed, and the result *)
(* is shipped only when all the code that had to be signed is.             *)
(***************************************************************************)
CONSTANTS
    Objects,   \* the code there may be
    Below(_)   \* the code in the directory of a piece of code

VARIABLES
    plan,      \* the code that has to be signed
    signed,    \* the code that is
    outcome

pvars == <<plan, signed, outcome>>

PInit ==
    /\ plan \in SUBSET Objects
    /\ signed = {}
    /\ outcome = "working"

Sign(o) ==
    /\ outcome = "working"
    /\ o \in plan \ signed
    /\ Below(o) \cap plan \subseteq signed
    /\ signed' = signed \cup {o}
    /\ UNCHANGED <<plan, outcome>>

Ship ==
    /\ outcome = "working"
    /\ plan \subseteq signed
    /\ outcome' = "shipped"
    /\ UNCHANGED <<plan, signed>>

GiveUp ==
    /\ outcome = "working"
    /\ outcome' = "failed"
    /\ UNCHANGED <<plan, signed>>

PNext == (\E o \in Objects : Sign(o)) \/ Ship \/ GiveUp

PSpec == PInit /\ [][PNext]_pvars
=============================================================================
