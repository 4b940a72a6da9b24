-------------------------- MODULE DurableRegister --------------------------
(***************************************************************************)
(* What the store promises its callers, without files, gates or keys: one  *)
(* register that holds the number of operations applied.  A write puts the *)
(* register in doubt between two neighbouring values; a fault or a repair  *)
(* may only narrow the doubt to values that were possible; and a value is  *)
(* served only when it is the one possible value.                          *)
(***************************************************************************)
EXTENDS Naturals

CONSTANT None          \* nothing was ever stored; nothing is served

VARIABLES possible,    \* values a restart may find
          served       \* the value the owner answers from

registerVars == <<possible, served>>

RegisterInit == possible = {None} /\ served = None

\* A first value is that of a new vault or of a restored backup.
Write ==
    /\ \E w \in possible :
        /\ possible = {w}
        /\ possible' \in IF w = None THEN {{None, 0}, {None, 1}} ELSE {{w, w + 1}}
    /\ served' = None

Settle ==
    /\ possible' \subseteq possible /\ possible' # {}
    /\ served' = None

Serve ==
    /\ served' # None
    /\ possible = {served'}
    /\ possible' = possible

RegisterNext == Write \/ Settle \/ Serve

RegisterSpec == RegisterInit /\ [][RegisterNext]_registerVars

=============================================================================
