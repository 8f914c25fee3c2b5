---------------------------- MODULE MCRowEdits ------------------------------
(* A small instance of RowEdits for TLC. *)
EXTENDS RowEdits, TLC

\* Neither clients nor good values are told apart.
Symmetry == Permutations(Clients) \cup Permutations(Inputs \ Bad)
=============================================================================
