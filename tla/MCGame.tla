------------------------------- MODULE MCGame -------------------------------
(***************************************************************************)
(* Game with symmetry: nothing tells two humans or two teams apart.        *)
(***************************************************************************)
EXTENDS Game, TLC

Symmetry == Permutations(Clients \ Bots) \cup Permutations(Teams)

=============================================================================
