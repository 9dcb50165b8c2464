------------------------------- MODULE MCRoster -------------------------------
(* Three people and Me's client: the others may be exchanged for each other.  *)
EXTENDS Roster

OthersAlike == Permutations(People \ {Me})
=============================================================================
