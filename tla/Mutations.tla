----------------------------- MODULE Mutations -----------------------------
(***************************************************************************)
(* The mutations rail_django/generators builds for a model with a reverse  *)
(* relation (an order and its items): create, update and delete through    *)
(* the pipeline with the nested relation handler, bulk_create, bulk_update *)
(* and bulk_delete, and a model method.  Every one runs in one transaction *)
(* (@transaction.atomic), but it is its except clauses that decide whether *)
(* a failure rolls that transaction back.                                  *)
(*                                                                         *)
(* An action is one statement: the look-up of an instance, the full_clean  *)
(* and save of it, a queryset update.  Between two of them the rest of the *)
(* application commits changes to records this transaction has not         *)
(* written.  post_save and post_delete register events on commit; they are *)
(* sent, one by one, after the commit (webhooks, subscriptions), and       *)
(* mirror is what a subscriber that applies them knows.                    *)
(*                                                                         *)
(* A record is what it is linked to: a root that exists is Nobody's.       *)
(***************************************************************************)
EXTENDS Naturals, SequencesExt

CONSTANTS Roots, Items,  \* primary keys of the model and of the related one
          Nobody, Gone,  \* not linked (FK null), and no such record
          Schemas,       \* the items' foreign keys considered
          Asks,          \* the requests considered
          MaxRequests,   \* bound: mutations in one behaviour
          MaxRaces       \* bound: other transactions while one is served

Objects == Roots \cup Items
Value == Roots \cup {Nobody, Gone}
Kinds == {"create", "update", "delete", "bulk_create", "bulk_update",
          "bulk_delete", "method"}
Ask == [kind : Kinds, roots : SUBSET Roots, replace : BOOLEAN, set : SUBSET Items,
        disconnect : SUBSET Items, connect : SUBSET Items, create : SUBSET Items,
        update : SUBSET Items]

ASSUME ObjectsAssumption == Roots \cap Items = {} /\ {Nobody, Gone} \cap Objects = {}
                            /\ Nobody # Gone
ASSUME SchemasAssumption ==
  /\ Schemas \subseteq [nullable : BOOLEAN, on_delete : {"cascade", "set_null", "protect"}]
  /\ \A s \in Schemas : s.on_delete = "set_null" => s.nullable
\* A request names finitely many records, and is refused before it begins when it
\* combines a set with other operations on the relation.
ASSUME AsksAssumption ==
  /\ Asks # {} /\ Asks \subseteq Ask
  /\ \A a \in Asks :
       /\ a.roots # {}
       /\ \A S \in {a.roots, a.set, a.disconnect, a.connect, a.create, a.update} :
            IsFiniteSet(S)
       /\ a.replace => a.disconnect \cup a.connect \cup a.create \cup a.update = {}
ASSUME BoundAssumption == MaxRequests \in Nat /\ MaxRaces \in Nat

VARIABLES
  schema,    \* the items' foreign key: may it be null, and its on_delete
  db,        \* the committed records
  ask,       \* the current mutation, or the latest one
  phase,     \* "idle", or the next step of it: "load" or "write"
  todo,      \* its statements still to run
  copy,      \* the instance it has loaded
  leaving,   \* the ids handle_set is going to detach
  tx, dirty, \* what its open transaction has written, and to which records
  quiet,     \* those whose latest write has registered no event
  events,    \* the events it has registered on commit
  outbox,    \* committed events being sent
  mirror,    \* the records as told by the events
  answer,    \* the latest answer: ok, why not, and what was committed with it
  had,       \* history: the root's items when the mutation began
  raced,     \* history: how many other transactions were committed since
  silent,    \* history: records whose latest change no event of ours tells
  served     \* mutations so far

mutationVars ==
  <<schema, db, ask, phase, todo, copy, leaving, tx, dirty, quiet, events, outbox, mirror,
    answer, had, raced, silent, served>>
work == <<schema, ask, had, served>>
-----------------------------------------------------------------------------
Causes == {"none", "not found", "missing", "invalid", "error", "database", "crash"}
Lookups == {"save", "link", "unlink", "edit", "add", "delete"}
Statement == [do : Lookups \cup {"store", "find", "remove", "nullable", "existing",
                                 "detach"}, obj : Objects]
Event == [obj : Objects \cup {Nobody}, value : Value]

Linked(d, r) == {i \in Items : d[i] = r}
Consistent(d) ==
  /\ \A r \in Roots : d[r] \in {Nobody, Gone}
  /\ \A i \in Items : /\ d[i] \in Roots => d[d[i]] # Gone
                      /\ d[i] = Nobody => schema.nullable

MutationTypeOK ==
  /\ schema \in Schemas
  /\ db \in [Objects -> Value] /\ Consistent(db)
  /\ ask \in Ask
  /\ phase \in {"idle", "load", "write"}
  /\ todo \in Seq(Statement)
  /\ copy \in Value
  /\ leaving \in SUBSET Items
  /\ tx \in [Objects -> Value] /\ dirty \in SUBSET Objects /\ quiet \in SUBSET dirty
  /\ events \in Seq(Event) /\ outbox \in Seq(Event)
  /\ mirror \in [Objects -> Value]
  /\ answer \in [ok : BOOLEAN, cause : Causes, wrote : SUBSET Objects]
  /\ had \in SUBSET Items /\ raced \in 0 .. MaxRaces /\ silent \in SUBSET Objects
  /\ served \in 0 .. MaxRequests

Root == CHOOSE r \in ask.roots : TRUE
Nothing == [o \in Objects |-> Gone]

MutationInit ==
  /\ schema \in Schemas
  /\ db \in {d \in [Objects -> Value] : Consistent(d)}
  /\ ask = CHOOSE a \in Asks : TRUE
  /\ phase = "idle" /\ todo = <<>> /\ copy = Gone /\ leaving = {}
  /\ tx = Nothing /\ dirty = {} /\ quiet = {} /\ events = <<>> /\ outbox = <<>>
  /\ mirror = db
  /\ answer = [ok |-> TRUE, cause |-> "none", wrote |-> {}]
  /\ had = {} /\ raced = 0 /\ silent = {} /\ served = 0

\* What the transaction's own queries see.
View == [o \in Objects |-> IF o \in dirty THEN tx[o] ELSE db[o]]
-----------------------------------------------------------------------------
(* The statements of a mutation *)

Do(what, o) == [do |-> what, obj |-> o]
Each(what, S) == LET q == SetToSeq(S) IN [n \in DOMAIN q |-> Do(what, q[n])]

\* handle_set, for the first and the second half of its work.
Replacing(a, r) ==
  IF a.replace THEN <<Do("existing", r), Do("detach", r)>> \o Each("link", a.set)
  ELSE <<>>
Disconnecting(a, r) ==
  IF a.disconnect # {} THEN <<Do("nullable", r)>> \o Each("unlink", a.disconnect)
  ELSE <<>>

\* Mutant of Relations: items are disconnected after they were connected.
RelationsSwapped(a, r) ==
  Replacing(a, r) \o Each("link", a.connect) \o Disconnecting(a, r)
    \o Each("add", a.create) \o Each("edit", a.update)
\* process_relation: set, disconnect, connect, create, update, in this order.
Relations(a, r) ==
  Replacing(a, r) \o Disconnecting(a, r) \o Each("link", a.connect)
    \o Each("add", a.create) \o Each("edit", a.update)

\* The statements of each kind of mutation; a bulk update looks every instance up
\* in its turn, and what a method does to its items is the application's.
Plan(a, r) ==
  CASE a.kind = "create"      -> <<Do("store", r)>> \o Relations(a, r)
    [] a.kind = "update"      -> <<Do("save", r)>> \o Relations(a, r)
    [] a.kind = "delete"      -> <<Do("delete", r)>>
    [] a.kind = "bulk_create" -> Each("store", a.roots)
    [] a.kind = "bulk_update" -> Each("save", a.roots)
    [] a.kind = "bulk_delete" -> <<Do("find", r)>> \o Each("remove", a.roots)
    [] a.kind = "method"      -> <<Do("find", r)>> \o Each("link", a.connect)
                               \o <<Do("store", r)>>

\* A request is served when the one before it has sent its events; ids of records
\* to be created are new.
Begin ==
  /\ phase = "idle" /\ outbox = <<>> /\ served < MaxRequests
  /\ served' = served + 1
  /\ ask' \in Asks
  /\ ask'.kind \in {"create", "bulk_create"} => \A r \in ask'.roots : db[r] = Gone
  /\ \A i \in ask'.create : db[i] = Gone
  /\ LET r == CHOOSE r \in ask'.roots : TRUE
     IN todo' = Plan(ask', r) /\ had' = Linked(db, r)
  /\ phase' = "load" /\ raced' = 0
  /\ UNCHANGED <<schema, db, copy, leaving, tx, dirty, quiet, events, outbox, mirror,
                 answer, silent>>
-----------------------------------------------------------------------------
(* The end of a mutation *)

Leave == /\ phase' = "idle" /\ todo' = <<>> /\ copy' = Gone /\ leaving' = {}
         /\ tx' = Nothing /\ dirty' = {} /\ quiet' = {} /\ events' = <<>>
         /\ UNCHANGED <<mirror, raced>> /\ UNCHANGED work

CommitTx(ok, cause) ==
  /\ db' = View
  /\ outbox' = events
  /\ silent' = (silent \ dirty) \cup quiet
  /\ answer' = [ok |-> ok, cause |-> cause, wrote |-> dirty]

\* Mutant of Dropped: events are sent whether or not the transaction commits.
DroppedNone == events
\* on_commit drops the events of a transaction that rolls back.
Dropped == <<>>

RollBack(cause) ==
  /\ outbox' = Dropped
  /\ answer' = [ok |-> FALSE, cause |-> cause, wrote |-> {}]
  /\ UNCHANGED <<db, silent>>

\* Mutant of RollsBack: bulk_delete and methods treat validation errors as the
\* other mutations do.
RollsBackOnErrors(cause) == cause \in {"database", "error"}
\* Whether the except clauses call set_rollback.  An error of the database has
\* marked the transaction already, even when the nested handler turns it into a
\* ValidationError, as it does with any other exception of create and update.
RollsBack(cause) ==
  \/ cause = "database"
  \/ ask.kind \in {"bulk_delete", "method"} /\ cause # "not found"
  \/ ask.kind \in {"delete", "bulk_create", "bulk_update"} /\ cause = "error"

Fail(cause) ==
  /\ IF RollsBack(cause) THEN RollBack(cause) ELSE CommitTx(FALSE, cause)
  /\ Leave

Finish ==
  /\ phase = "load" /\ todo = <<>>
  /\ CommitTx(TRUE, "none") /\ Leave
-----------------------------------------------------------------------------
(* The steps of a mutation *)

Step == Head(todo)
Running == phase # "idle" /\ todo # <<>>
Advance == /\ phase' = "load" /\ todo' = Tail(todo) /\ copy' = Gone
           /\ UNCHANGED work
Quietly == UNCHANGED <<db, outbox, mirror, answer, raced, silent>>

\* The instance a statement is about is read, without a lock; a nested create
\* reads the root it is going to refer to.
LookUp ==
  /\ Running /\ phase = "load" /\ Step.do \in Lookups
  /\ LET o == IF Step.do = "add" THEN Root ELSE Step.obj
     IN IF View[o] # Gone
        THEN /\ phase' = "write" /\ copy' = View[o]
             /\ UNCHANGED <<todo, leaving, tx, dirty, quiet, events>>
             /\ UNCHANGED work /\ Quietly
        ELSE Fail(IF Step.do \in {"save", "delete"} THEN "not found" ELSE "missing")

\* bulk_delete reads all its instances at once before it deletes any, a method
\* the one it is called on.
Find ==
  /\ Running /\ Step.do = "find"
  /\ IF \A r \in ask.roots : View[r] # Gone
     THEN /\ Advance /\ UNCHANGED <<leaving, tx, dirty, quiet, events>> /\ Quietly
     ELSE Fail("not found")

\* Mutant of Accepts: the instance is saved without full_clean.
AcceptsAny(v) == TRUE
\* full_clean finds the record a foreign key refers to.
Accepts(v) == v \in Roots => View[v] # Gone

Ready == Running /\ (phase = "write" \/ Step.do \notin Lookups)

\* The foreign key, or for a root nothing, that a save writes: an update of other
\* fields writes the one that was loaded, a stored instance is a root.
Saves == [save |-> copy, edit |-> copy, link |-> Root, add |-> Root,
          unlink |-> Nobody, store |-> Nobody]

\* full_clean has accepted the instance, save writes all its fields, inserting it
\* again if it was deleted meanwhile, and post_save registers an event.
Save ==
  /\ Ready /\ Step.do \in DOMAIN Saves
  /\ LET o == Step.obj
         v == Saves[Step.do]
     IN /\ Accepts(v)
        /\ tx' = [tx EXCEPT ![o] = v]
        /\ dirty' = dirty \cup {o} /\ quiet' = quiet \ {o}
        /\ events' = Append(events, [obj |-> o, value |-> v])
  /\ Advance /\ UNCHANGED leaving /\ Quietly

\* Any statement that writes may be refused: by full_clean, by code of the model
\* or a signal, or by the database.
\* A DoesNotExist that code of the model raises passes for a failed look-up.
Refused ==
  /\ Ready /\ Step.do \notin {"find", "nullable", "existing"}
  /\ \E cause \in {"invalid", "error", "database", "not found"} :
       /\ cause = "not found" => ask.kind \in {"method", "bulk_update", "bulk_delete"}
       /\ Fail(cause)

\* _assert_reverse_relation_nullable, before disconnect touches anything.
AssertNullable ==
  /\ Running /\ Step.do = "nullable"
  /\ IF schema.nullable
     THEN Advance /\ UNCHANGED <<leaving, tx, dirty, quiet, events>> /\ Quietly
     ELSE Fail("invalid")

\* handle_set reads the items linked now; if any has to leave, the foreign key
\* must be nullable.
ReadExisting ==
  /\ Running /\ Step.do = "existing"
  /\ LET out == Linked(View, Root) \ ask.set
     IN IF out = {} \/ schema.nullable
        THEN /\ leaving' = out
             /\ Advance /\ UNCHANGED <<tx, dirty, quiet, events>> /\ Quietly
        ELSE Fail("invalid")

\* One queryset update detaches those still linked; it sends no post_save.
Detach ==
  /\ Running /\ Step.do = "detach"
  /\ LET out == {i \in leaving : View[i] = Root}
     IN /\ tx' = [o \in Objects |-> IF o \in out THEN Nobody ELSE tx[o]]
        /\ dirty' = dirty \cup out /\ quiet' = quiet \cup out
  /\ leaving' = {}
  /\ Advance /\ UNCHANGED events /\ Quietly

\* instance.delete() with the on_delete of the items.  Django clears the primary
\* keys of the instances it deletes, and only the pipeline restores that of its
\* own, so the other events tell no record (obj is Nobody).
Delete ==
  /\ Ready /\ Step.do \in {"delete", "remove"}
  /\ LET o == Step.obj
         deps == Linked(View, o)
         gone == {o} \cup IF schema.on_delete = "cascade" THEN deps ELSE {}
         known == ask.kind = "delete"
     IN IF schema.on_delete = "protect" /\ deps # {} THEN Fail("error")
        ELSE /\ tx' = [x \in Objects |-> IF x \in gone THEN Gone
                                         ELSE IF x \in deps THEN Nobody ELSE tx[x]]
             /\ dirty' = dirty \cup gone \cup deps
             /\ quiet' = (quiet \cup gone \cup deps) \ IF known THEN {o} ELSE {}
             /\ events' = Append(events, [obj |-> IF known THEN o ELSE Nobody,
                                          value |-> Gone])
             /\ Advance /\ UNCHANGED leaving /\ Quietly
-----------------------------------------------------------------------------
(* Around it *)

\* The on_commit callback of the first event: webhooks and subscriptions.
Dispatch ==
  /\ outbox # <<>> /\ outbox' = Tail(outbox)
  /\ LET e == Head(outbox)
     IN mirror' = IF e.obj = Nobody THEN mirror ELSE [mirror EXCEPT ![e.obj] = e.value]
  /\ UNCHANGED <<db, phase, todo, copy, leaving, tx, dirty, quiet, events, answer,
                 raced, silent>> /\ UNCHANGED work

\* The process dies: an open transaction rolls back, unsent events are lost.
Crash ==
  /\ phase # "idle" \/ outbox # <<>>
  /\ outbox' = <<>>
  /\ silent' = silent \cup ({outbox[n].obj : n \in DOMAIN outbox} \ {Nobody})
  /\ answer' = IF phase = "idle" THEN answer
               ELSE [ok |-> FALSE, cause |-> "crash", wrote |-> {}]
  /\ UNCHANGED db /\ Leave

\* The primary keys the mutation's inserts will be given.
New == IF phase = "idle" THEN {}
       ELSE ask.create \cup IF ask.kind \in {"create", "bulk_create"} THEN ask.roots ELSE {}

\* Another transaction commits a change of a record that ours has not written
\* and does not refer to, and that leaves the database consistent.
Elsewhere ==
  /\ raced < MaxRaces /\ raced' = raced + 1
  /\ \E o \in Objects, v \in Value, w \in {Nobody, Gone} :
       LET deps == IF v = Gone THEN Linked(db, o) ELSE {}
           d == [x \in Objects |-> IF x = o THEN v ELSE IF x \in deps THEN w ELSE db[x]]
       IN /\ v # db[o] /\ Consistent(d) /\ o \notin New
          /\ ({o} \cup deps) \cap dirty = {}
          /\ v = Gone => \A x \in dirty : tx[x] # o
          /\ v \in dirty => tx[v] # Gone
          /\ db' = d
          /\ silent' = silent \cup {o} \cup deps
  /\ UNCHANGED <<phase, todo, copy, leaving, tx, dirty, quiet, events, outbox, mirror,
                 answer>> /\ UNCHANGED work
-----------------------------------------------------------------------------
MutationNext ==
  \/ Begin \/ Finish
  \/ LookUp \/ Find \/ Save \/ Refused \/ AssertNullable \/ ReadExisting \/ Detach
  \/ Delete
  \/ Dispatch \/ Crash \/ Elsewhere

MutationSpec == MutationInit /\ [][MutationNext]_mutationVars
-----------------------------------------------------------------------------
(* Properties *)

Answered == phase = "idle" /\ served > 0 /\ raced = 0

\* What mutations.md promises of the operators: set makes the linked items
\* exactly the given ones, connect adds, disconnect removes, and what is created
\* is linked, in whatever combination, if nothing else was committed meanwhile.
LinksAsAsked ==
  Answered /\ answer.ok /\ ask.kind \in {"create", "update"} =>
    Linked(db, Root) = IF ask.replace THEN ask.set
                       ELSE (had \ ask.disconnect) \cup ask.connect \cup ask.create

\* Whatever the database refuses, and every failing delete, bulk_delete and
\* method (unless it fails with a DoesNotExist), leaves the committed records
\* alone although some were already written, and announces nothing.
FailureRollsBack ==
  [][phase # "idle" /\ phase' = "idle" /\ ~answer'.ok
     /\ \/ ask.kind = "delete" \/ answer'.cause \in {"database", "crash"}
        \/ ask.kind \in {"bulk_delete", "method"} /\ answer'.cause # "not found"
     => db' = db /\ outbox' = <<>>]_mutationVars

\* A subscriber knows the committed state of every record whose latest change
\* was announced: no event is sent for a write that was rolled back, none is
\* lost without a crash, and they arrive in the order of the writes.
MirrorFollows ==
  outbox = <<>> => \A o \in Objects \ silent : mirror[o] = db[o]

\* What mutations.md says of nested input, that an order and all its items are one
\* atomic request: a create or update that answers ok: false has written nothing.
FailedMutationWritesNothing ==
  phase = "idle" /\ ~answer.ok /\ ask.kind \in {"create", "update"} => answer.wrote = {}
=============================================================================
