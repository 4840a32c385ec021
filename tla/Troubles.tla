------------------------------ MODULE Troubles ------------------------------
(***************************************************************************)
(* What may go wrong around the installer (src/src/common/installer.c):    *)
(* calls that fail, a player who quits, a process that dies.  Each place   *)
(* where the code meets a failure has a name, and asks for it by that name. *)
(***************************************************************************)
EXTENDS Naturals

CONSTANTS
  TroubleSites,  \* the names of what may go wrong
  MaxTroubles    \* bound: how often, over all launches of the program

ASSUME TroublesAssumption == MaxTroubles \in Nat

VARIABLE troubles

Trouble(site) ==
  /\ site \in TroubleSites
  /\ troubles < MaxTroubles
  /\ troubles' = troubles + 1
=============================================================================
