-------------------------- MODULE SchemaRegistry --------------------------
(***************************************************************************)
(* core/registry and core/schema: the registry entry of one schema name,   *)
(* the builder that makes its GraphQL schema, and the two caches in        *)
(* between (the models of the entry, the schema instance by version).      *)
(*                                                                         *)
(* Threads ask for the schema or rebuild it (refresh_schema, register_app, *)
(* register_model, register_mutation and the post_migrate and model        *)
(* signals all end in rebuild_schema), while an administrator edits,       *)
(* disables or removes the entry through the REST API.  A build holds the  *)
(* builder's lock; every access to the registry is a step that holds the   *)
(* registry's lock at most for itself, so this lock is no variable.        *)
(*                                                                         *)
(* A GraphQL request first looks for the entry (a survey), which may have  *)
(* the whole registry cleared and discovered again, then gets the builder  *)
(* for its middleware and then the schema: three calls of the same thread  *)
(* here, as nothing is handed from one to the next.                        *)
(*                                                                         *)
(* What a schema contains is the set of models it was generated from; all  *)
(* that is generated per model is left out.  Entries discover models       *)
(* automatically (the default) and list no models when they are edited.    *)
(***************************************************************************)
EXTENDS Naturals

CONSTANTS Threads,       \* threads that serve requests
          Models,        \* the models of the project
          Apps,          \* per choice of apps an entry may be given: their models
          NoThread,      \* holder of a lock that is free
          MaxCalls,      \* bound: calls of all threads
          MaxDecisions   \* bound: what the administrator does

ASSUME BoundsAssumption == MaxCalls \in Nat /\ MaxDecisions \in Nat
ASSUME AppsAssumption == Apps \subseteq SUBSET Models
ASSUME NoThreadAssumption == NoThread \notin Threads

VARIABLES
  origin,      \* what discovery registers under the name, if anything
  listed,      \* that comes from the settings, not from an app or the database
  initialized, \* _initialized: the schemas have been discovered
  others,      \* the other schemas of the settings are all registered
  entry,       \* the SchemaInfo under the name in _schemas
  settled,     \* history: how the administrator or discovery left it last, if
               \*   no other call was in progress then
  decisions,   \* how often the administrator acted
  modelCache,  \* _schema_model_cache: models found for the entry
  cache,       \* _schema_instance_cache: a version and the schema stored under it
  current,     \* _schema_builders: the number of the builder, 0 for none
  builder,     \* per builder created: its schema, version, models and lock
  made,        \* number of builders created
  calls,       \* number of calls begun
  thread       \* per thread: position, call, and what it holds in variables

survey == <<origin, listed, initialized, others>>
vars == <<entry, settled, decisions, modelCache, cache, current, builder, made,
          calls, thread, survey>>

Builders == 1 .. MaxCalls
Version == 0 .. MaxCalls
\* A schema is told apart by its builder and by the build that made it.
Schema == [by : 0 .. MaxCalls, n : Version]
NoSchema == [by |-> 0, n |-> 0]
Entry == [present : BOOLEAN, enabled : BOOLEAN, apps : SUBSET Models, models : SUBSET Models]
NoEntry == [present |-> FALSE, enabled |-> FALSE, apps |-> {}, models |-> {}]

\* The models of the entry's apps, without and with its list of models; a
\* builder that is given none takes those of the whole project.
Selected(e) == IF e.models = {} THEN e.apps ELSE e.apps \cap e.models
Discovered(found) == IF found = {} THEN Models ELSE found

Unsettled == [known |-> FALSE, entry |-> NoEntry]
NoModels == [known |-> FALSE, list |-> {}]
NoInstance == [known |-> FALSE, version |-> 0, schema |-> NoSchema, sound |-> TRUE]
Unbuilt == [schema |-> NoSchema, version |-> 0, models |-> {}, lock |-> NoThread]
Asking == {"lock", "take", "stamp", "store"}
Building == {"discover", "memo", "generate", "count", "look", "record"}
Surveying == {"arrive", "scan", "enter", "mark", "lookup", "clear"}
Positions == {"idle", "create", "fetch", "check", "peek"}
               \cup Surveying \cup Asking \cup Building
\* Calls of get_schema_builder, get_schema_instance, rebuild_schema; surveys of
\* requests for the schema, for another one, and after the registry was cleared.
Calls == {"builder", "serve", "rebuild"}
Asked == {"mine", "other", "again"}

Builder == [schema : Schema, version : Version, models : SUBSET Models,
            lock : Threads \cup {NoThread}]
Thread == [pc : Positions, call : Calls \cup Asked, builder : 0 .. MaxCalls,
           version : Version, schema : Schema, list : SUBSET Models, seen : Entry,
           attached : BOOLEAN, overlap : BOOLEAN]
Idle == [pc |-> "idle", call |-> "serve", builder |-> 0, version |-> 0, schema |-> NoSchema,
         list |-> {}, seen |-> NoEntry, attached |-> TRUE, overlap |-> FALSE]

\* A lock is held by a thread that is in a build, and by no other: an error of
\* the generation lets it go.
LocksHeld ==
  /\ \A b \in Builders : builder[b].lock # NoThread =>
       LET t == builder[b].lock IN thread[t].pc \in Building /\ thread[t].builder = b
  /\ \A t \in Threads : thread[t].pc \in Building => builder[thread[t].builder].lock = t

TypeOK ==
  /\ origin \in {e \in Entry : e.models = {}}
  /\ listed \in BOOLEAN /\ initialized \in BOOLEAN /\ others \in BOOLEAN
  /\ entry \in Entry /\ settled \in [known : BOOLEAN, entry : Entry]
  /\ decisions \in 0 .. MaxDecisions
  /\ modelCache \in [known : BOOLEAN, list : SUBSET Models]
  /\ cache \in [known : BOOLEAN, version : Version, schema : Schema, sound : BOOLEAN]
  /\ made \in 0 .. MaxCalls /\ calls \in 0 .. MaxCalls /\ current \in 0 .. made
  /\ builder \in [Builders -> Builder]
  /\ thread \in [Threads -> Thread]
  /\ LocksHeld

\* The entry as it is registered at start-up, before any request: by discovery,
\* from one of its sources, or by code of the project (register_schema).
Init ==
  /\ \E apps \in Apps :
       entry = [present |-> TRUE, enabled |-> TRUE, apps |-> apps, models |-> {}]
  /\ origin \in {entry, NoEntry} /\ listed \in BOOLEAN /\ (listed => origin = entry)
  /\ initialized = TRUE /\ others = TRUE
  /\ settled = [known |-> TRUE, entry |-> entry] /\ decisions = 0
  /\ modelCache = NoModels /\ cache = NoInstance
  /\ current = 0 /\ made = 0 /\ calls = 0
  /\ builder = [b \in Builders |-> Unbuilt]
  /\ thread = [t \in Threads |-> Idle]
-----------------------------------------------------------------------------
At(t, pc) == thread[t].pc = pc
InFlight == \E t \in Threads : ~At(t, "idle")

\* History: calls that are getting the schema of b, and have looked for it
\* already, overlap with a change of b by t or by the administrator.
Disturbed(b, t) ==
  [u \in Threads |->
     IF u # t /\ thread[u].builder = b /\ thread[u].pc \in Asking \cup Building
     THEN [thread[u] EXCEPT !.overlap = TRUE] ELSE thread[u]]
\* register_schema puts a new SchemaInfo in place of the one others hold.
Detached ==
  [u \in Threads |-> IF At(u, "record") THEN [thread[u] EXCEPT !.attached = FALSE]
                     ELSE thread[u]]
\* The entry and its builder are removed.
Removed ==
  [u \in Threads |->
     [Disturbed(current, NoThread)[u] EXCEPT !.attached = Detached[u].attached]]

\* Mutant of Disposed: the instances of a builder outlive it.
DisposedKeepingCache == current' = 0 /\ UNCHANGED cache
\* The builder is forgotten, and the instance that was made by it.
Disposed == current' = 0 /\ cache' = NoInstance

Moves(t, new) == thread' = [thread EXCEPT ![t] = new]
Goes(t, pc) == Moves(t, [thread[t] EXCEPT !.pc = pc])
-----------------------------------------------------------------------------
(* MultiSchemaGraphQLView._get_schema_info, discover_schemas *)

Arrival == IF initialized THEN "lookup" ELSE "scan"

\* A request comes in; discover_schemas returns if the schemas are known.
Survey(t, call) ==
  /\ At(t, "idle") /\ Moves(t, [Idle EXCEPT !.pc = Arrival, !.call = call])
  /\ UNCHANGED <<entry, settled, decisions, modelCache, cache, current, builder, made,
                 calls, survey>>

\* The settings register a schema only if it is not there,
Scan(t) ==
  /\ At(t, "scan")
  /\ Goes(t, IF listed /\ entry.present THEN "mark" ELSE "enter")
  /\ UNCHANGED <<entry, settled, decisions, modelCache, cache, current, builder, made,
                 calls, survey>>

\* History: discovery left the entry like this, and nobody else has anything in
\* hand but a survey.
Leaves(t, e) ==
  /\ entry' = e
  /\ settled' = IF \A u \in Threads \ {t} : thread[u].pc \in {"idle"} \cup Surveying
                THEN [known |-> TRUE, entry |-> e] ELSE Unsettled

\* then as any register_schema.
Enter(t) ==
  /\ At(t, "enter") /\ origin.present
  /\ Leaves(t, origin) /\ modelCache' = NoModels /\ cache' = NoInstance
  /\ thread' = [Detached EXCEPT ![t].pc = "mark"]
  /\ UNCHANGED <<decisions, current, builder, made, calls, origin, listed, initialized, others>>

\* So are the other schemas, before or after this one, which may have no source.
Mark(t) ==
  /\ At(t, "mark") \/ (At(t, "enter") /\ ~origin.present)
  /\ initialized' = TRUE /\ others' = TRUE /\ Goes(t, "lookup")
  /\ UNCHANGED <<entry, settled, decisions, modelCache, cache, current, builder, made,
                 calls, origin, listed>>

\* If a schema of the settings is missing, this one or another, the request has
\* the registry cleared, but once; a request for one that stays missing or is
\* disabled ends here.
Lookup(t) ==
  LET missing == \/ thread[t].call = "mine" /\ listed /\ ~entry.present
                 \/ thread[t].call = "other" /\ ~others
  IN /\ At(t, "lookup")
     /\ IF missing THEN Goes(t, "clear") ELSE Moves(t, Idle)
     /\ UNCHANGED <<entry, settled, decisions, modelCache, cache, current, builder, made,
                    calls, survey>>

Clear(t) ==
  /\ At(t, "clear")
  /\ Leaves(t, NoEntry) /\ Disposed /\ modelCache' = NoModels
  /\ initialized' = FALSE /\ others' = FALSE
  /\ thread' = [Removed EXCEPT ![t] = [Idle EXCEPT !.pc = "arrive", !.call = "again"]]
  /\ UNCHANGED <<decisions, builder, made, calls, origin, listed>>

Arrive(t) ==
  /\ At(t, "arrive") /\ Goes(t, Arrival)
  /\ UNCHANGED <<entry, settled, decisions, modelCache, cache, current, builder, made,
                 calls, survey>>
-----------------------------------------------------------------------------
(* get_schema_builder *)

\* A builder is there, or the entry is read to create one; without an enabled
\* entry the call fails.
Begin(t, call) ==
  /\ At(t, "idle") /\ calls < MaxCalls
  /\ current # 0 \/ (entry.present /\ entry.enabled)
  /\ Moves(t, [Idle EXCEPT !.pc = IF current # 0 THEN "fetch" ELSE "create", !.call = call])
  /\ calls' = calls + 1
  /\ UNCHANGED <<entry, settled, decisions, modelCache, cache, current, builder, made,
                 survey>>

\* Nothing keeps two threads from creating a builder each.  (No call creates
\* two: made < MaxCalls is no restriction, nor is the like guard of Generate.)
Create(t) ==
  /\ At(t, "create") /\ made < MaxCalls
  /\ made' = made + 1 /\ current' = made'
  /\ thread' = [Disturbed(current, t) EXCEPT ![t].pc = "fetch"]
  \* History: a builder that was not disposed of is replaced.
  /\ cache' = [cache EXCEPT !.sound = @ /\ current = 0]
  /\ UNCHANGED <<entry, settled, decisions, modelCache, builder, calls, survey>>

\* The builder may have been disposed of meanwhile: KeyError.
Fetch(t) ==
  /\ At(t, "fetch")
  /\ Moves(t, IF current = 0 \/ thread[t].call = "builder" THEN Idle
              ELSE [thread[t] EXCEPT !.builder = current,
                      !.pc = IF thread[t].call = "serve" THEN "check" ELSE "lock"])
  /\ UNCHANGED <<entry, settled, decisions, modelCache, cache, current, builder, made,
                 calls, survey>>
-----------------------------------------------------------------------------
(* get_schema_instance, SchemaBuilder.get_schema *)

Hit(b) == cache.known /\ cache.version = builder[b].version /\ builder[b].schema # NoSchema

\* The three values are read one after the other without a lock; what is
\* answered was the cached schema when the call began.
Check(t) ==
  /\ At(t, "check")
  /\ Moves(t, IF Hit(thread[t].builder) THEN Idle ELSE [thread[t] EXCEPT !.pc = "peek"])
  /\ UNCHANGED <<entry, settled, decisions, modelCache, cache, current, builder, made,
                 calls, survey>>

\* The settings of a builder made by the registry are locked: no refresh.
Peek(t) ==
  /\ At(t, "peek")
  /\ LET b == thread[t].builder
     IN Moves(t, [thread[t] EXCEPT
                    !.pc = IF builder[b].schema = NoSchema THEN "lock" ELSE "take",
                    !.overlap = builder[b].lock # NoThread \/ b # current])
  /\ UNCHANGED <<entry, settled, decisions, modelCache, cache, current, builder, made,
                 calls, survey>>

\* return self._schema: another build may have reset it to None.
Take(t) ==
  /\ At(t, "take")
  /\ Moves(t, [thread[t] EXCEPT !.pc = "stamp", !.schema = builder[thread[t].builder].schema])
  /\ UNCHANGED <<entry, settled, decisions, modelCache, cache, current, builder, made,
                 calls, survey>>

\* The version is read after the schema.
Stamp(t) ==
  /\ At(t, "stamp")
  /\ Moves(t, [thread[t] EXCEPT !.pc = "store", !.version = builder[thread[t].builder].version])
  /\ UNCHANGED <<entry, settled, decisions, modelCache, cache, current, builder, made,
                 calls, survey>>

Store(t) ==
  /\ At(t, "store")
  /\ cache' = [known |-> TRUE, version |-> thread[t].version, schema |-> thread[t].schema,
               sound |-> ~thread[t].overlap]
  /\ Moves(t, Idle)
  /\ UNCHANGED <<entry, settled, decisions, modelCache, current, builder, made, calls, survey>>
-----------------------------------------------------------------------------
(* SchemaBuilder.rebuild_schema *)

Mine(t) == thread[t].builder

\* The lock is taken and the schema dropped.  For the caller itself the build
\* starts over: only a builder that is no longer the current one overlaps.
Lock(t) ==
  LET b == Mine(t)
  IN /\ At(t, "lock") /\ builder[b].lock = NoThread
     /\ builder' = [builder EXCEPT ![b].lock = t, ![b].schema = NoSchema]
     /\ thread' = [Disturbed(b, t) EXCEPT ![t].pc = "discover", ![t].overlap = b # current]
     /\ UNCHANGED <<entry, settled, decisions, modelCache, cache, current, made, calls, survey>>

\* get_models_for_schema reads its cache, else the entry, without a lock,
Discover(t) ==
  /\ At(t, "discover")
  /\ Moves(t, [thread[t] EXCEPT
                 !.pc = IF modelCache.known \/ ~entry.present THEN "generate" ELSE "memo",
                 !.list = IF modelCache.known THEN modelCache.list
                          ELSE IF entry.present THEN Selected(entry) ELSE {}])
  /\ UNCHANGED <<entry, settled, decisions, modelCache, cache, current, builder, made,
                 calls, survey>>
\* and stores what it found, also when the entry was edited in between.
Memo(t) ==
  /\ At(t, "memo")
  /\ modelCache' = [known |-> TRUE, list |-> thread[t].list]
  /\ Goes(t, "generate")
  /\ UNCHANGED <<entry, settled, decisions, cache, current, builder, made, calls, survey>>

\* Types, queries, mutations and the schema are generated.
Generate(t) ==
  LET b == Mine(t)
      models == Discovered(thread[t].list)
  IN /\ At(t, "generate") /\ builder[b].version < MaxCalls
     /\ builder' = [builder EXCEPT ![b].models = models,
                      ![b].schema = [by |-> b, n |-> builder[b].version + 1]]
     /\ thread' = [Disturbed(b, t) EXCEPT ![t].pc = "count", ![t].list = {}]
     /\ UNCHANGED <<entry, settled, decisions, modelCache, cache, current, made, calls, survey>>

\* Mutant of GenerateFails: the lock is not let go.
GenerateFailsLocked(t) ==
  /\ At(t, "generate") /\ Moves(t, Idle)
  /\ UNCHANGED <<entry, settled, decisions, modelCache, cache, current, builder, made,
                 calls, survey>>
\* Or one of these steps raises: the schema stays None, the call fails.
GenerateFails(t) ==
  LET b == Mine(t)
  IN /\ At(t, "generate")
     /\ builder' = [builder EXCEPT ![b].models = Discovered(thread[t].list), ![b].lock = NoThread]
     /\ Moves(t, Idle)
     /\ UNCHANGED <<entry, settled, decisions, modelCache, cache, current, made, calls, survey>>

Count(t) ==
  LET b == Mine(t)
  IN /\ At(t, "count")
     /\ builder' = [builder EXCEPT ![b].version = @ + 1]
     /\ thread' = [Disturbed(b, t) EXCEPT ![t].pc = "look"]
     /\ UNCHANGED <<entry, settled, decisions, modelCache, cache, current, made, calls, survey>>

\* _register_schema_in_registry reads the entry,
Look(t) ==
  /\ At(t, "look")
  /\ Moves(t, [thread[t] EXCEPT !.pc = "record", !.seen = entry, !.attached = TRUE])
  /\ UNCHANGED <<entry, settled, decisions, modelCache, cache, current, builder, made,
                 calls, survey>>

\* Mutant of Kept: enabled is not among the values kept.
KeptEnabled(e, models) ==
  IF e.present THEN [e EXCEPT !.models = models, !.enabled = TRUE]
  ELSE [present |-> TRUE, enabled |-> TRUE, apps |-> {}, models |-> models]
\* makes of it what is to be there: the entry with the models of the build, if
\* it has none; an entry that is not there (any more) is registered,
Kept(e, models) ==
  IF e.present THEN [e EXCEPT !.models = models]
  ELSE [present |-> TRUE, enabled |-> TRUE, apps |-> {}, models |-> models]

\* compares what it read with the SchemaInfo, as it was then or is now, and
\* registers it if they differ, or else writes it into this SchemaInfo, which
\* may have been replaced.  The lock is let go, and get_schema goes on.
Record(t) ==
  LET b == Mine(t)
      seen == thread[t].seen
      models == IF seen.present /\ seen.models # {} THEN seen.models ELSE builder[b].models
      after == IF thread[t].call = "serve"
               THEN [Idle EXCEPT !.pc = "take", !.builder = b, !.overlap = thread[t].overlap]
               ELSE Idle
  IN /\ At(t, "record")
     /\ \E compared \in IF thread[t].attached THEN {seen, entry} ELSE {seen} :
          LET changed == ~seen.present \/ Kept(seen, models) # compared
          IN /\ entry' = IF changed \/ thread[t].attached THEN Kept(seen, models) ELSE entry
             /\ cache' = IF changed THEN NoInstance ELSE cache
             /\ thread' = [(IF changed THEN Detached ELSE thread) EXCEPT ![t] = after]
     /\ modelCache' = NoModels
     /\ builder' = [builder EXCEPT ![b].lock = NoThread]
     /\ UNCHANGED <<settled, decisions, current, made, calls, survey>>
-----------------------------------------------------------------------------
(* The administrator *)

\* History: the administrator acted; what he left is known to be undisturbed
\* if no call was in progress.
Decides(e, undisturbed) ==
  /\ decisions < MaxDecisions /\ decisions' = decisions + 1
  /\ entry' = e /\ UNCHANGED <<origin, listed>>
  /\ settled' = IF undisturbed /\ ~InFlight
                THEN [known |-> TRUE, entry |-> [e EXCEPT !.models = {}]] ELSE Unsettled

\* register_schema: the caches are emptied, the builder and its schema stay.
Register(apps, enabled) ==
  /\ Decides([present |-> TRUE, enabled |-> enabled, apps |-> apps, models |-> {}], TRUE)
  /\ modelCache' = NoModels /\ cache' = NoInstance /\ thread' = Detached
  /\ UNCHANGED <<current, builder, made, calls, initialized, others>>

\* enable_schema, disable_schema: in place.
Switch ==
  /\ entry.present /\ Decides([entry EXCEPT !.enabled = ~@], settled.known)
  /\ UNCHANGED <<modelCache, cache, current, builder, made, calls, thread, initialized,
                 others>>

Unregister ==
  /\ entry.present /\ Decides(NoEntry, TRUE)
  /\ Disposed /\ modelCache' = NoModels /\ thread' = Removed
  /\ UNCHANGED <<builder, made, calls, initialized, others>>

\* clear: the next request discovers the schemas again.
ClearAll ==
  /\ Decides(NoEntry, TRUE)
  /\ Disposed /\ modelCache' = NoModels /\ thread' = Removed
  /\ initialized' = FALSE /\ others' = FALSE
  /\ UNCHANGED <<builder, made, calls>>

\* Another schema of the settings is removed.
UnregisterOther ==
  /\ decisions < MaxDecisions /\ decisions' = decisions + 1
  /\ others' = FALSE
  /\ UNCHANGED <<entry, settled, modelCache, cache, current, builder, made, calls, thread,
                 origin, listed, initialized>>

\* clear_builders
ClearBuilders ==
  /\ decisions < MaxDecisions /\ decisions' = decisions + 1
  /\ Disposed
  /\ thread' = Disturbed(current, NoThread)
  /\ UNCHANGED <<entry, settled, modelCache, builder, made, calls, survey>>

Surveys(t) ==
  \/ \E call \in {"mine", "other"} : Survey(t, call)
  \/ Scan(t) \/ Enter(t) \/ Mark(t) \/ Lookup(t) \/ Clear(t) \/ Arrive(t)
Step(t) ==
  \/ \E call \in Calls : Begin(t, call)
  \/ Create(t) \/ Fetch(t) \/ Check(t) \/ Peek(t) \/ Take(t) \/ Stamp(t) \/ Store(t)
  \/ Lock(t) \/ Discover(t) \/ Memo(t) \/ Generate(t) \/ GenerateFails(t) \/ Count(t)
  \/ Look(t) \/ Record(t)
Administer ==
  \/ \E apps \in Apps, enabled \in BOOLEAN : Register(apps, enabled)
  \/ Switch \/ Unregister \/ UnregisterOther \/ ClearAll \/ ClearBuilders

Next == Administer \/ \E t \in Threads : Surveys(t) \/ Step(t)
Spec == Init /\ [][Next]_vars
-----------------------------------------------------------------------------
(* Properties *)

\* When no build is going on, a request that finds the current version in the
\* instance cache is answered with the schema the current builder has, unless
\* the call that stored it overlapped with a build or a removal, or two threads
\* created builders.
CacheIsSound ==
  LET b == current
  IN b # 0 /\ Hit(b) /\ cache.sound /\ builder[b].lock = NoThread =>
       cache.schema = builder[b].schema

\* An entry stays as the administrator, or the discovery of all schemas, has
\* left it while no call was in progress, however many calls follow.  Without a
\* discovery in between a removed schema does not come back, a disabled one
\* stays disabled, an edited one keeps its apps, and its models, once they are
\* listed, are theirs; a discovery leaves it as its source has it.
DecisionsStand ==
  settled.known =>
    LET last == settled.entry
    IN /\ entry.present = last.present
       /\ entry.present =>
            /\ entry.enabled = last.enabled /\ entry.apps = last.apps
            /\ entry.models \in {{}, Discovered(last.apps)}
       /\ ~entry.present => current = 0
=============================================================================
