--------------------------- MODULE EventRegister ---------------------------
(***************************************************************************)
(* What recording a border event promises, whatever the interleaving: an   *)
(* idempotency key stands for the first event recorded under it, for ever, *)
(* and a key is answered with success only once it stands for one.         *)
(***************************************************************************)
CONSTANTS Keys, Events, Nothing

VARIABLES
    recorded,    \* the event each key stands for
    answered     \* keys some client was answered with success

registerVars == <<recorded, answered>>

RegisterInit ==
    /\ recorded = [k \in Keys |-> Nothing]
    /\ answered = {}

Record(k, e) ==
    /\ recorded[k] = Nothing
    /\ recorded' = [recorded EXCEPT ![k] = e]
    /\ UNCHANGED answered

Answer(k) ==
    /\ recorded[k] # Nothing
    /\ answered' = answered \cup {k}
    /\ UNCHANGED recorded

RegisterNext ==
    \E k \in Keys : Answer(k) \/ \E e \in Events : Record(k, e)

Register == RegisterInit /\ [][RegisterNext]_registerVars
=============================================================================
