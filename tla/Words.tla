-------------------------------- MODULE Words --------------------------------
(***************************************************************************)
(* The unsigned integers of the jobspec's counts.                          *)
(***************************************************************************)
EXTENDS Integers

CONSTANT Word       \* 2^w for integers of w bits

ASSUME WordAssumption == Word \in Nat \ {0}
=============================================================================
