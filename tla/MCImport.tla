------------------------------ MODULE MCImport ------------------------------
(* A small instance of ImportBatch for TLC. *)
EXTENDS ImportBatch

\* One keyed and one keyless good line, and one that validation catches.
MCInputs == {[key |-> k, fate |-> "good"] : k \in Keys \cup {NoKey}}
              \cup {[key |-> NoKey, fate |-> "bad"]}
=============================================================================
