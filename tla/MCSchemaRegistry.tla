-------------------------- MODULE MCSchemaRegistry --------------------------
(* Apps of one model each for the TLC run of SchemaRegistry, where an      *)
(* entry names one app.  Threads and models are interchangeable.           *)
EXTENDS SchemaRegistry, TLC

MCApps == {{m} : m \in Models}
Symmetry == Permutations(Threads) \cup Permutations(Models)
=============================================================================
