---------------------------- MODULE MCMutations ----------------------------
(* A small instance of Mutations for TLC. *)
EXTENDS Mutations

CONSTANTS r1, r2, i1, i2

Plain(kind, roots) ==
  [kind |-> kind, roots |-> roots, replace |-> FALSE, set |-> {}, disconnect |-> {},
   connect |-> {}, create |-> {}, update |-> {}]

Replace(kind) == {[Plain(kind, {r1}) EXCEPT !.replace = TRUE, !.set = S] : S \in SUBSET Items}
Combine(kind, Ds, Ns, Us) ==
  {[Plain(kind, {r1}) EXCEPT !.disconnect = D, !.connect = C, !.create = N, !.update = U] :
     D \in Ds, C \in SUBSET Items, N \in Ns, U \in Us}

\* The operators of a relation, alone and together, over two items; and each of
\* the other kinds of mutation.
MCAsks ==
  Replace("update") \cup Combine("update", SUBSET Items, {{}}, {{}})
  \cup Combine("update", {{}, {i1}}, {{i2}}, {{i1}})
  \cup Combine("create", {{}}, {{}, {i2}}, {{}})
  \cup {[Plain("method", {r1}) EXCEPT !.connect = C] : C \in SUBSET Items}
  \cup {Plain("delete", {r1})}
  \cup {Plain(kind, {r1, r2}) : kind \in {"bulk_create", "bulk_update", "bulk_delete"}}

\* A required foreign key, and an optional one of either behaviour.
MCSchemas == {[nullable |-> FALSE, on_delete |-> "protect"],
              [nullable |-> TRUE, on_delete |-> "cascade"],
              [nullable |-> TRUE, on_delete |-> "set_null"]}
=============================================================================
