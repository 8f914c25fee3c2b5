------------------------ MODULE SchemaRegistryProofs ------------------------
(***************************************************************************)
(* Theorems about SchemaRegistry, for any number of threads, models, apps, *)
(* calls and decisions.                                                    *)
(***************************************************************************)
EXTENDS SchemaRegistry, TLAPS

USE BoundsAssumption, AppsAssumption, NoThreadAssumption

\* A thread that is in no call; and one that has not looked for a builder.
Out == {"idle"} \cup Surveying
Free == {"create", "fetch"} \cup Out

USE DEF survey, Surveying, Out, Free, Calls, Asked

\* Where a thread is tells what it holds.
Placed(x) ==
  /\ x.pc \notin Free => x.builder # 0
  /\ x.pc \in {"discover", "memo", "generate"} => builder[x.builder].schema = NoSchema
  /\ x.pc = "count" => builder[x.builder].version < MaxCalls
PlaceInv == \A t \in Threads : Placed(thread[t])

TypeInv == TypeOK /\ PlaceInv

\* TypeOK but for the locks.
VarTypes ==
  /\ origin \in {e \in Entry : e.models = {}}
  /\ listed \in BOOLEAN /\ initialized \in BOOLEAN /\ others \in BOOLEAN
  /\ entry \in Entry /\ settled \in [known : BOOLEAN, entry : Entry]
  /\ decisions \in 0 .. MaxDecisions
  /\ modelCache \in [known : BOOLEAN, list : SUBSET Models]
  /\ cache \in [known : BOOLEAN, version : Version, schema : Schema, sound : BOOLEAN]
  /\ made \in 0 .. MaxCalls /\ calls \in 0 .. MaxCalls /\ current \in 0 .. made
  /\ builder \in [Builders -> Builder]
  /\ thread \in [Threads -> Thread]

LEMMA TypeParts ==
  (TypeOK <=> VarTypes /\ LocksHeld) /\ (TypeOK' <=> VarTypes' /\ LocksHeld')
BY DEF TypeOK, VarTypes
-----------------------------------------------------------------------------
(* What a step does to the threads that do not take it *)

\* A thread goes on as before, except that an overlap may be noted, or that its
\* entry was replaced.
Same(x, y) ==
  /\ y.pc = x.pc /\ y.builder = x.builder /\ y.schema = x.schema
  /\ y.version = x.version /\ y.list = x.list /\ y.seen = x.seen
  /\ x.overlap => y.overlap
GoesOn(u) == Same(thread[u], thread'[u])
Others(t) == \A u \in Threads \ {t} : GoesOn(u)

LEMMA Noted ==
  ASSUME NEW x \in Thread
  PROVE  /\ [x EXCEPT !.overlap = TRUE] \in Thread
         /\ [x EXCEPT !.attached = FALSE] \in Thread
         /\ [x EXCEPT !.overlap = TRUE].overlap
         /\ Same(x, [x EXCEPT !.overlap = TRUE])
         /\ Same(x, [x EXCEPT !.attached = FALSE])
         /\ Same(x, x)
BY DEF Thread, Same

LEMMA DisturbedKeeps ==
  ASSUME TypeOK, NEW b, NEW t
  PROVE  /\ Disturbed(b, t) \in [Threads -> Thread]
         /\ \A u \in Threads :
              /\ \/ Disturbed(b, t)[u] = thread[u]
                 \/ Disturbed(b, t)[u] = [thread[u] EXCEPT !.overlap = TRUE]
              /\ u # t /\ thread[u].builder = b /\ thread[u].pc \in Asking \cup Building =>
                   Disturbed(b, t)[u].overlap
              /\ u = t => Disturbed(b, t)[u] = thread[u]
<1> DEFINE D(u) == IF u # t /\ thread[u].builder = b /\ thread[u].pc \in Asking \cup Building
                   THEN [thread[u] EXCEPT !.overlap = TRUE] ELSE thread[u]
<1>1. thread \in [Threads -> Thread]
  BY DEF TypeOK
<1>2. Disturbed(b, t) = [u \in Threads |-> D(u)]
  BY DEF Disturbed
<1>3. ASSUME NEW u \in Threads
      PROVE  D(u) \in Thread /\ [thread[u] EXCEPT !.overlap = TRUE].overlap
  BY <1>1, Noted
<1> QED BY <1>2, <1>3

LEMMA DetachedKeeps ==
  ASSUME TypeOK
  PROVE  /\ Detached \in [Threads -> Thread]
         /\ \A u \in Threads : \/ Detached[u] = thread[u]
                               \/ Detached[u] = [thread[u] EXCEPT !.attached = FALSE]
<1> DEFINE D(u) == IF thread[u].pc = "record" THEN [thread[u] EXCEPT !.attached = FALSE]
                   ELSE thread[u]
<1>1. thread \in [Threads -> Thread]
  BY DEF TypeOK
<1>2. Detached = [u \in Threads |-> D(u)]
  BY DEF Detached, At
<1>3. ASSUME NEW u \in Threads PROVE D(u) \in Thread
  BY <1>1, Noted
<1> QED BY <1>2, <1>3

LEMMA MovesKeeps ==
  ASSUME TypeOK, NEW t \in Threads, NEW new, Moves(t, new)
  PROVE  thread'[t] = new /\ Others(t) /\ \A u \in Threads \ {t} : thread'[u] = thread[u]
<1>1. thread \in [Threads -> Thread] /\ thread' = [thread EXCEPT ![t] = new]
  BY DEF TypeOK, Moves
<1> QED BY <1>1, Noted DEF Others, GoesOn

\* The steps that note an overlap before they move on.
LEMMA DisturbsKeeps ==
  ASSUME TypeOK, NEW t \in Threads, NEW b, NEW new,
         thread' = [Disturbed(b, t) EXCEPT ![t] = new]
  PROVE  /\ thread'[t] = new /\ Others(t)
         /\ \A u \in Threads \ {t} :
              thread[u].builder = b /\ thread[u].pc \in Asking \cup Building =>
                thread'[u].overlap
<1>1. thread \in [Threads -> Thread]
  BY DEF TypeOK
<1>2. \A u \in Threads \ {t} : thread'[u] = Disturbed(b, t)[u]
  BY <1>1, DisturbedKeeps
<1>3. ASSUME NEW u \in Threads \ {t} PROVE GoesOn(u)
  <2>1. thread[u] \in Thread
    BY <1>1
  <2>2. CASE Disturbed(b, t)[u] = thread[u]
    BY <1>2, <2>1, <2>2, Noted DEF GoesOn
  <2>3. CASE Disturbed(b, t)[u] = [thread[u] EXCEPT !.overlap = TRUE]
    BY <1>2, <2>1, <2>3, Noted DEF GoesOn
  <2> QED BY <2>2, <2>3, DisturbedKeeps
<1> QED BY <1>1, <1>2, <1>3, DisturbedKeeps DEF Others

\* register_schema, before the thread that called it moves on.
LEMMA DetachesKeeps ==
  ASSUME TypeOK
  PROVE  /\ thread' = Detached => \A u \in Threads : GoesOn(u)
         /\ \A t \in Threads : \A new :
              thread' = [Detached EXCEPT ![t] = new] => thread'[t] = new /\ Others(t)
<1>1. thread \in [Threads -> Thread]
  BY DEF TypeOK
<1>2. ASSUME NEW u \in Threads PROVE Same(thread[u], Detached[u])
  <2>1. thread[u] \in Thread
    BY <1>1
  <2>2. CASE Detached[u] = thread[u]
    BY <2>1, <2>2, Noted
  <2>3. CASE Detached[u] = [thread[u] EXCEPT !.attached = FALSE]
    BY <2>1, <2>3, Noted
  <2> QED BY <2>2, <2>3, DetachedKeeps
<1> QED BY <1>2, DetachedKeeps DEF Others, GoesOn

\* unregister_schema and clear, before the thread that called it moves on.
LEMMA RemovedKeeps ==
  ASSUME TypeOK
  PROVE  /\ Removed \in [Threads -> Thread]
         /\ \A u \in Threads :
              /\ Same(thread[u], Removed[u])
              /\ thread[u].builder = current /\ thread[u].pc \in Asking \cup Building =>
                   Removed[u].overlap
         /\ Disturbed(current, NoThread) \in [Threads -> Thread]
         /\ \A u \in Threads :
              /\ Same(thread[u], Disturbed(current, NoThread)[u])
              /\ thread[u].builder = current /\ thread[u].pc \in Asking \cup Building =>
                   Disturbed(current, NoThread)[u].overlap
<1>1. thread \in [Threads -> Thread]
  BY DEF TypeOK
<1> DEFINE D == Disturbed(current, NoThread)
<1>2. ASSUME NEW u \in Threads
      PROVE  /\ D[u] \in Thread /\ Same(thread[u], D[u])
             /\ thread[u].builder = current /\ thread[u].pc \in Asking \cup Building => D[u].overlap
  <2>1. thread[u] \in Thread
    BY <1>1
  <2>2. CASE D[u] = thread[u]
    BY <2>1, <2>2, Noted, DisturbedKeeps
  <2>3. CASE D[u] = [thread[u] EXCEPT !.overlap = TRUE]
    BY <2>1, <2>3, Noted
  <2> QED BY <2>2, <2>3, DisturbedKeeps
<1>3. ASSUME NEW x \in Thread, NEW a \in BOOLEAN
      PROVE  /\ [x EXCEPT !.attached = a] \in Thread /\ Same(x, [x EXCEPT !.attached = a])
             /\ [x EXCEPT !.attached = a].overlap = x.overlap
  BY DEF Thread, Same
<1>4. ASSUME NEW u \in Threads PROVE Detached[u].attached \in BOOLEAN
  <2>1. Detached[u] \in Thread
    BY DetachedKeeps
  <2> QED BY <2>1 DEF Thread
<1> DEFINE R(u) == [D[u] EXCEPT !.attached = Detached[u].attached]
<1>5. ASSUME NEW u \in Threads
      PROVE  R(u) \in Thread /\ Same(D[u], R(u)) /\ R(u).overlap = D[u].overlap
  <2> DEFINE a == Detached[u].attached
  <2>1. D[u] \in Thread /\ a \in BOOLEAN
    BY <1>2, <1>4
  <2> HIDE DEF a, D
  <2> QED BY <1>3, <2>1 DEF a
<1>6. Removed = [u \in Threads |-> R(u)]
  BY DEF Removed
<1>7. ASSUME NEW u \in Threads PROVE Same(thread[u], R(u))
  <2> HIDE DEF R, D
  <2> QED BY <1>2, <1>5 DEF Same
<1>8. D \in [Threads -> Thread]
  BY DisturbedKeeps
<1> HIDE DEF R, D
<1>9. \A u \in Threads : Removed[u] = R(u)
  BY <1>6
<1>10. Removed \in [Threads -> Thread]
  BY <1>5, <1>6
<1> QED BY <1>2, <1>5, <1>7, <1>8, <1>9, <1>10 DEF D

\* The administrator's: no thread takes the step.
LEMMA RemovalKeeps ==
  ASSUME TypeOK, thread' = Disturbed(current, NoThread) \/ thread' = Removed
  PROVE  /\ thread' \in [Threads -> Thread]
         /\ \A u \in Threads :
              /\ GoesOn(u)
              /\ thread[u].builder = current /\ thread[u].pc \in Asking \cup Building =>
                   thread'[u].overlap
BY RemovedKeeps DEF GoesOn
-----------------------------------------------------------------------------
(* Types, locks, and where a thread is *)

\* Ids in use are of builders.
LEMMA Numbers ==
  ASSUME TypeInv
  PROVE  /\ MaxCalls \in Nat /\ Builders \subseteq Nat /\ 0 \notin Builders
         /\ current # 0 => current \in Builders
         /\ \A t \in Threads : thread[t] \in Thread /\ thread[t].builder \in 0 .. MaxCalls
         /\ \A t \in Threads : thread[t].pc \notin Free =>
              thread[t].builder \in Builders
         /\ \A b \in Builders : builder[b] \in Builder
<1>1. thread \in [Threads -> Thread] /\ builder \in [Builders -> Builder]
      /\ made \in 0 .. MaxCalls /\ current \in 0 .. made
  BY DEF TypeInv, TypeOK
<1>2. \A t \in Threads : thread[t].builder \in 0 .. MaxCalls
  BY <1>1 DEF Thread
<1> QED BY <1>1, <1>2 DEF TypeInv, PlaceInv, Placed, Builders

\* A step of a thread outside the lock, or within it but of no concern to the
\* builder.
LEMMA PureMove ==
  ASSUME TypeInv, NEW t \in Threads, NEW new \in Thread, Moves(t, new), UNCHANGED builder,
         Placed(new),
         new.pc \in Building <=> thread[t].pc \in Building,
         new.pc \in Building => new.builder = thread[t].builder
  PROVE  thread' \in [Threads -> Thread] /\ LocksHeld' /\ PlaceInv'
<1>1. thread'[t] = new /\ \A u \in Threads \ {t} : thread'[u] = thread[u]
  BY MovesKeeps DEF TypeInv
<1>2. thread' \in [Threads -> Thread]
  BY DEF TypeInv, TypeOK, Moves
<1>3. LocksHeld'
  <2>1. ASSUME NEW b \in Builders, builder[b].lock # NoThread
        PROVE  LET u == builder[b].lock IN thread'[u].pc \in Building /\ thread'[u].builder = b
    <3>1. builder[b].lock \in Threads
      BY <2>1, Numbers DEF Builder
    <3> QED BY <1>1, <2>1, <3>1 DEF TypeInv, TypeOK, LocksHeld
  <2>2. ASSUME NEW u \in Threads, thread'[u].pc \in Building
        PROVE  builder[thread'[u].builder].lock = u
    BY <1>1, <2>2 DEF TypeInv, TypeOK, LocksHeld
  <2> QED BY <2>1, <2>2 DEF LocksHeld
<1>4. PlaceInv'
  BY <1>1 DEF TypeInv, PlaceInv, Placed
<1> QED BY <1>2, <1>3, <1>4

\* A step of the thread that builds with b; it may let the lock go.
LEMMA BuildMove ==
  ASSUME TypeInv, NEW t \in Threads, thread[t].pc \in Building, Others(t),
         NEW new \in Thread, thread' \in [Threads -> Thread], thread'[t] = new,
         NEW after \in Builder, builder' = [builder EXCEPT ![thread[t].builder] = after],
         new.pc = "idle" \/ new.builder = thread[t].builder,
         IF new.pc \in Building THEN after.lock = t ELSE after.lock = NoThread,
         new.pc \in {"discover", "memo", "generate"} => after.schema = NoSchema,
         new.pc = "count" => after.version < MaxCalls
  PROVE  builder' \in [Builders -> Builder] /\ LocksHeld' /\ PlaceInv'
<1> DEFINE b == thread[t].builder
<1>1. b \in Builders /\ builder \in [Builders -> Builder]
  BY Numbers DEF Building, TypeInv, TypeOK
<1>2. builder' \in [Builders -> Builder] /\ builder'[b] = after
      /\ \A a \in Builders \ {b} : builder'[a] = builder[a]
  BY <1>1
<1>3. \A u \in Threads \ {t} : thread'[u].pc = thread[u].pc /\ thread'[u].builder = thread[u].builder
  BY DEF Others, GoesOn, Same
<1>4. \A u \in Threads \ {t} : thread[u].pc \in Building =>
        thread[u].builder # b /\ thread[u].builder \in Builders
  BY Numbers DEF TypeInv, TypeOK, LocksHeld, Building
<1>5. LocksHeld'
  <2>1. ASSUME NEW a \in Builders, builder'[a].lock # NoThread
        PROVE  LET u == builder'[a].lock IN thread'[u].pc \in Building /\ thread'[u].builder = a
    <3>1. CASE a = b
      BY <1>2, <2>1, <3>1 DEF Building
    <3>2. CASE a # b
      <4>1. builder[a].lock \in Threads \ {t}
        BY <1>2, <2>1, <3>2, Numbers DEF Builder, TypeInv, TypeOK, LocksHeld
      <4> QED BY <1>2, <1>3, <2>1, <3>2, <4>1 DEF TypeInv, TypeOK, LocksHeld
    <3> QED BY <3>1, <3>2
  <2>2. ASSUME NEW u \in Threads, thread'[u].pc \in Building
        PROVE  builder'[thread'[u].builder].lock = u
    <3>1. CASE u = t
      BY <1>2, <2>2, <3>1 DEF Building
    <3>2. CASE u # t
      BY <1>2, <1>3, <1>4, <2>2, <3>2 DEF TypeInv, TypeOK, LocksHeld
    <3> QED BY <3>1, <3>2
  <2> QED BY <2>1, <2>2 DEF LocksHeld
<1>6. PlaceInv'
  <2>1. ASSUME NEW u \in Threads \ {t} PROVE Placed(thread[u])'
    BY <1>2, <1>3, <1>4 DEF TypeInv, PlaceInv, Placed, Building
  <2>2. Placed(thread[t])'
    BY <1>1, <1>2, Numbers DEF Placed
  <2> QED BY <2>1, <2>2 DEF PlaceInv
<1> QED BY <1>2, <1>5, <1>6

\* TYPES
LEMMA Values ==
  /\ Idle \in Thread /\ NoSchema \in Schema /\ NoEntry \in Entry /\ Unbuilt \in Builder
  /\ NoModels \in [known : BOOLEAN, list : SUBSET Models]
  /\ NoInstance \in [known : BOOLEAN, version : Version, schema : Schema, sound : BOOLEAN]
  /\ \A found \in SUBSET Models : Discovered(found) \in SUBSET Models
<1>1. NoSchema \in Schema
  BY DEF NoSchema, Schema, Version
<1>2. NoEntry \in Entry
  BY DEF NoEntry, Entry
<1>3. Idle \in Thread
  BY <1>1, <1>2 DEF Idle, Thread, Positions, Version
<1> QED BY <1>1, <1>2, <1>3
      DEF Unbuilt, Builder, Version, NoModels, NoInstance, Discovered

LEMMA UnsettledType == Unsettled \in [known : BOOLEAN, entry : Entry]
BY Values DEF Unsettled

LEMMA TypeInit == Init => TypeInv
<1> SUFFICES ASSUME Init PROVE TypeInv
  OBVIOUS
<1>1. entry \in Entry
  <2> PICK apps \in Apps :
        entry = [present |-> TRUE, enabled |-> TRUE, apps |-> apps, models |-> {}]
    BY DEF Init
  <2> QED BY DEF Entry
<1>2. LocksHeld
  BY DEF Init, LocksHeld, Unbuilt, Idle, Building
<1>3. PlaceInv
  BY DEF Init, PlaceInv, Placed, Idle
<1>4. origin \in {e \in Entry : e.models = {}}
  <2>1. entry.models = {} /\ NoEntry.models = {}
    BY DEF Init, NoEntry
  <2>2. origin \in {entry, NoEntry}
    BY DEF Init
  <2> QED BY <1>1, <2>1, <2>2, Values
<1>6. listed \in BOOLEAN /\ initialized \in BOOLEAN /\ others \in BOOLEAN
  BY DEF Init
<1>5. settled \in [known : BOOLEAN, entry : Entry]
  BY <1>1 DEF Init
<1> QED BY <1>1, <1>2, <1>3, <1>4, <1>5, <1>6, Values DEF Init, TypeInv, TypeOK

LEMMA TypeThread ==
  ASSUME TypeInv, NEW t \in Threads, Step(t) PROVE TypeInv'
<1> USE DEF TypeInv
<1>0. /\ VarTypes /\ LocksHeld /\ PlaceInv /\ thread[t] \in Thread /\ Placed(thread[t])
      /\ thread[t].builder \in 0 .. MaxCalls
  BY TypeParts, Numbers DEF PlaceInv
<1>1. ASSUME NEW call \in Calls, Begin(t, call) PROVE TypeInv'
  <2> DEFINE new == [Idle EXCEPT !.pc = IF current # 0 THEN "fetch" ELSE "create", !.call = call]
  <2>1. new \in Thread /\ new.pc \in {"fetch", "create"}
    BY Values DEF Thread, Positions, Idle
  <2>2. thread' \in [Threads -> Thread] /\ LocksHeld' /\ PlaceInv'
    <3> HIDE DEF new
    <3> QED BY <1>1, <2>1, PureMove DEF Begin, Placed, Building, At, new
  <2> QED BY <1>0, <1>1, <2>2, TypeParts DEF Begin, VarTypes
<1>2. ASSUME Create(t) PROVE TypeInv'
  <2> DEFINE new == [Disturbed(current, t)[t] EXCEPT !.pc = "fetch"]
  <2>0. Disturbed(current, t)[t] = thread[t]
    BY DEF Disturbed
  <2>1. thread' = [Disturbed(current, t) EXCEPT ![t] = new]
    BY <1>2 DEF Create
  <2>2. new \in Thread /\ new.pc = "fetch"
    BY <1>0, <2>0 DEF Thread, Positions
  <2>3. thread'[t] = new /\ Others(t)
    BY <2>1, DisturbsKeeps
  <2>4. thread' \in [Threads -> Thread]
    <3> HIDE DEF new
    <3> QED BY <2>1, <2>2, DisturbedKeeps
  <2>5. PlaceInv'
    <3>1. ASSUME NEW u \in Threads PROVE Placed(thread[u])'
      <4>1. CASE u = t
        BY <2>2, <2>3, <4>1 DEF Placed
      <4>2. CASE u # t
        BY <1>0, <1>2, <2>3, <4>2 DEF PlaceInv, Placed, Others, GoesOn, Same, Create
      <4> QED BY <4>1, <4>2
    <3> QED BY <3>1 DEF PlaceInv
  <2>6. ASSUME NEW u \in Threads
        PROVE  /\ thread'[u].pc \in Building <=> thread[u].pc \in Building
               /\ thread'[u].pc \in Building => thread'[u].builder = thread[u].builder
    BY <1>2, <2>2, <2>3 DEF Others, GoesOn, Same, Create, At, Building
  <2>7. LocksHeld'
    BY <1>0, <1>2, <2>6, Numbers DEF LocksHeld, Create, Builder
  <2>8. made' \in 0 .. MaxCalls /\ current' \in 0 .. made'
    BY <1>0, <1>2 DEF Create, VarTypes
  <2>9. cache' \in [known : BOOLEAN, version : Version, schema : Schema, sound : BOOLEAN]
    <3> DEFINE sound == cache.sound /\ current = 0
    <3>1. cache' = [cache EXCEPT !.sound = sound]
      BY <1>2 DEF Create
    <3>2. sound \in BOOLEAN
      BY <1>0 DEF VarTypes
    <3> HIDE DEF sound
    <3> QED BY <1>0, <3>1, <3>2 DEF VarTypes
  <2> QED BY <1>0, <1>2, <2>4, <2>5, <2>7, <2>8, <2>9, TypeParts DEF Create, VarTypes
<1>3. ASSUME Fetch(t) PROVE TypeInv'
  <2> DEFINE position == IF thread[t].call = "serve" THEN "check" ELSE "lock"
             new == IF current = 0 \/ thread[t].call = "builder" THEN Idle
                    ELSE [thread[t] EXCEPT !.builder = current, !.pc = position]
  <2>0. Moves(t, new) /\ UNCHANGED builder /\ thread[t].pc = "fetch"
    BY <1>3 DEF Fetch, At
  <2>1. current \in 0 .. MaxCalls /\ position \in {"check", "lock"} /\ Idle.pc = "idle"
    BY <1>0 DEF VarTypes, Idle
  <2>2. /\ new \in Thread /\ new.pc \in {"idle", "check", "lock"}
        /\ new.pc # "idle" => new.builder # 0
    <3> HIDE DEF position
    <3>1. CASE current = 0 \/ thread[t].call = "builder"
      BY <2>1, <3>1, Values
    <3>2. CASE current # 0 /\ thread[t].call # "builder"
      BY <1>0, <2>1, <3>2 DEF Thread, Positions, Asking
    <3> QED BY <3>1, <3>2
  <2>3. thread' \in [Threads -> Thread] /\ LocksHeld' /\ PlaceInv'
    <3> HIDE DEF new
    <3> QED BY <1>0, <2>0, <2>2, PureMove DEF Placed, Building
  <2> QED BY <1>0, <1>3, <2>3, TypeParts DEF Fetch, VarTypes
<1>4. ASSUME Check(t) PROVE TypeInv'
  <2> DEFINE new == IF Hit(thread[t].builder) THEN Idle ELSE [thread[t] EXCEPT !.pc = "peek"]
  <2>0. Moves(t, new) /\ UNCHANGED builder /\ thread[t].pc = "check"
    BY <1>4 DEF Check, At
  <2>1. new \in Thread /\ new.pc \in {"idle", "peek"}
       /\ (new.pc # "idle" => new.builder = thread[t].builder)
    BY <1>0, <1>4, Numbers, Values DEF Check, At, Thread, Positions, Building, Asking, Idle
  <2>2. thread' \in [Threads -> Thread] /\ LocksHeld' /\ PlaceInv'
    <3> HIDE DEF new
    <3> QED BY <1>0, <2>0, <2>1, PureMove DEF Placed, Building
  <2> QED BY <1>0, <1>4, <2>2, TypeParts DEF Check, VarTypes
<1>5. ASSUME Peek(t) PROVE TypeInv'
  <2> DEFINE b == thread[t].builder
             overlap == builder[b].lock # NoThread \/ b # current
             position == IF builder[b].schema = NoSchema THEN "lock" ELSE "take"
             new == [thread[t] EXCEPT !.pc = position, !.overlap = overlap]
  <2>0. Moves(t, new) /\ UNCHANGED builder /\ thread[t].pc = "peek"
    BY <1>5 DEF Peek, At
  <2>1. overlap \in BOOLEAN /\ position \in {"lock", "take"}
    OBVIOUS
  <2>2. new \in Thread /\ new.pc = position /\ new.builder = b
    <3> HIDE DEF overlap, position
    <3> QED BY <1>0, <2>1 DEF Thread, Positions, Asking
  <2>3. thread' \in [Threads -> Thread] /\ LocksHeld' /\ PlaceInv'
    <3> HIDE DEF new, position
    <3> QED BY <1>0, <2>0, <2>1, <2>2, PureMove DEF Placed, Building
  <2> QED BY <1>0, <1>5, <2>3, TypeParts DEF Peek, VarTypes
<1>6. ASSUME Take(t) PROVE TypeInv'
  <2> DEFINE new == [thread[t] EXCEPT !.pc = "stamp", !.schema = builder[thread[t].builder].schema]
  <2>0. Moves(t, new) /\ UNCHANGED builder /\ thread[t].pc = "take"
    BY <1>6 DEF Take, At
  <2>1. new \in Thread /\ new.pc = "stamp" /\ new.builder = thread[t].builder
    BY <1>0, <1>6, Numbers, Values DEF Take, At, Thread, Positions, Building, Asking, Builder
  <2>2. thread' \in [Threads -> Thread] /\ LocksHeld' /\ PlaceInv'
    <3> HIDE DEF new
    <3> QED BY <1>0, <2>0, <2>1, PureMove DEF Placed, Building
  <2> QED BY <1>0, <1>6, <2>2, TypeParts DEF Take, VarTypes
<1>7. ASSUME Stamp(t) PROVE TypeInv'
  <2> DEFINE new == [thread[t] EXCEPT !.pc = "store", !.version = builder[thread[t].builder].version]
  <2>0. Moves(t, new) /\ UNCHANGED builder /\ thread[t].pc = "stamp"
    BY <1>7 DEF Stamp, At
  <2>1. new \in Thread /\ new.pc = "store" /\ new.builder = thread[t].builder
    BY <1>0, <1>7, Numbers, Values DEF Stamp, At, Thread, Positions, Building, Asking, Builder
  <2>2. thread' \in [Threads -> Thread] /\ LocksHeld' /\ PlaceInv'
    <3> HIDE DEF new
    <3> QED BY <1>0, <2>0, <2>1, PureMove DEF Placed, Building
  <2> QED BY <1>0, <1>7, <2>2, TypeParts DEF Stamp, VarTypes
<1>8. ASSUME Store(t) PROVE TypeInv'
  <2>1. thread' \in [Threads -> Thread] /\ LocksHeld' /\ PlaceInv'
    BY <1>8, Values, PureMove DEF Store, At, Placed, Building, Idle
  <2>2. cache' \in [known : BOOLEAN, version : Version, schema : Schema, sound : BOOLEAN]
    BY <1>0, <1>8 DEF Store, Thread
  <2> QED BY <1>0, <1>8, <2>1, <2>2, TypeParts DEF Store, VarTypes
<1>9. ASSUME Discover(t) PROVE TypeInv'
  <2> DEFINE new == [thread[t] EXCEPT
                     !.pc = IF modelCache.known \/ ~entry.present THEN "generate" ELSE "memo",
                     !.list = IF modelCache.known THEN modelCache.list
                              ELSE IF entry.present THEN Selected(entry) ELSE {}]
  <2>0. Moves(t, new) /\ UNCHANGED builder /\ thread[t].pc = "discover"
    BY <1>9 DEF Discover, At
  <2>00. Selected(entry) \in SUBSET Models /\ modelCache.list \in SUBSET Models
    BY <1>0 DEF VarTypes, Entry, Selected
  <2>1. new \in Thread /\ new.pc \in {"generate", "memo"} /\ new.builder = thread[t].builder
    BY <1>0, <1>9, <2>00, Numbers, Values DEF Discover, At, Thread, Positions, Building, Asking
  <2>2. thread' \in [Threads -> Thread] /\ LocksHeld' /\ PlaceInv'
    <3> HIDE DEF new
    <3> QED BY <1>0, <2>0, <2>1, PureMove DEF Placed, Building
  <2> QED BY <1>0, <1>9, <2>2, TypeParts DEF Discover, VarTypes
<1>10. ASSUME Memo(t) PROVE TypeInv'
  <2> DEFINE new == [thread[t] EXCEPT !.pc = "generate"]
  <2>0. Moves(t, new) /\ UNCHANGED builder /\ thread[t].pc = "memo"
    BY <1>10 DEF Memo, At, Goes
  <2>00. thread[t].list \in SUBSET Models
    BY <1>0 DEF Thread
  <2>1. new \in Thread /\ new.pc = "generate" /\ new.builder = thread[t].builder
    BY <1>0, <1>10, <2>00, Numbers, Values DEF Memo, At, Thread, Positions, Building, Asking
  <2>2. thread' \in [Threads -> Thread] /\ LocksHeld' /\ PlaceInv'
    <3> HIDE DEF new
    <3> QED BY <1>0, <2>0, <2>1, PureMove DEF Placed, Building
  <2>3. modelCache' \in [known : BOOLEAN, list : SUBSET Models]
    BY <1>10, <2>00 DEF Memo
  <2> QED BY <1>0, <1>10, <2>2, <2>3, TypeParts DEF Memo, VarTypes
<1>11. ASSUME Look(t) PROVE TypeInv'
  <2> DEFINE new == [thread[t] EXCEPT !.pc = "record", !.seen = entry, !.attached = TRUE]
  <2>0. Moves(t, new) /\ UNCHANGED builder /\ thread[t].pc = "look"
    BY <1>11 DEF Look, At
  <2>00. entry \in Entry
    BY <1>0 DEF VarTypes
  <2>1. new \in Thread /\ new.pc = "record" /\ new.builder = thread[t].builder
    BY <1>0, <1>11, <2>00, Numbers, Values DEF Look, At, Thread, Positions, Building, Asking
  <2>2. thread' \in [Threads -> Thread] /\ LocksHeld' /\ PlaceInv'
    <3> HIDE DEF new
    <3> QED BY <1>0, <2>0, <2>1, PureMove DEF Placed, Building
  <2> QED BY <1>0, <1>11, <2>2, TypeParts DEF Look, VarTypes
<1>12. ASSUME Lock(t) PROVE TypeInv'
  <2> DEFINE b == thread[t].builder
             overlap == b # current
             new == [thread[t] EXCEPT !.pc = "discover", !.overlap = overlap]
  <2>0. thread[t].pc = "lock" /\ b \in Builders /\ builder[b].lock = NoThread
    BY <1>12, Numbers DEF Lock, At, Mine
  <2>1. Disturbed(b, t)[t] = thread[t]
    BY DEF Disturbed
  <2>2. thread' = [Disturbed(b, t) EXCEPT ![t] = new]
    BY <1>12, <2>1, DisturbedKeeps DEF Lock, Mine
  <2>3. new \in Thread /\ new.pc = "discover" /\ new.builder = b
    <3>1. overlap \in BOOLEAN
      OBVIOUS
    <3> HIDE DEF overlap
    <3> QED BY <1>0, <3>1 DEF Thread, Positions, Building
  <2>4. thread'[t] = new /\ Others(t)
    BY <2>2, DisturbsKeeps
  <2>5. thread' \in [Threads -> Thread]
    <3> HIDE DEF new
    <3> QED BY <2>2, <2>3, DisturbedKeeps
  <2>6. /\ builder' \in [Builders -> Builder] /\ builder'[b].lock = t
        /\ builder'[b].schema = NoSchema
        /\ \A a \in Builders \ {b} : builder'[a] = builder[a]
    BY <1>0, <1>12, <2>0, Values DEF Lock, Mine, VarTypes, Builder
  <2>7. ASSUME NEW u \in Threads \ {t}
        PROVE  /\ thread'[u].pc = thread[u].pc /\ thread'[u].builder = thread[u].builder
               /\ thread[u].pc \in Building =>
                    thread[u].builder # b /\ thread[u].builder \in Builders
    BY <1>0, <2>0, <2>4, Numbers DEF Others, GoesOn, Same, LocksHeld, Building
  <2>8. LocksHeld'
    <3>1. ASSUME NEW a \in Builders, builder'[a].lock # NoThread
          PROVE  LET u == builder'[a].lock IN thread'[u].pc \in Building /\ thread'[u].builder = a
      <4>1. CASE a = b
        BY <2>3, <2>4, <2>6, <4>1 DEF Building
      <4>2. CASE a # b
        <5>1. builder[a].lock \in Threads \ {t}
          BY <1>0, <2>0, <2>6, <3>1, <4>2, Numbers DEF Builder, LocksHeld, Building
        <5> QED BY <1>0, <2>6, <2>7, <3>1, <4>2, <5>1 DEF LocksHeld
      <4> QED BY <4>1, <4>2
    <3>2. ASSUME NEW u \in Threads, thread'[u].pc \in Building
          PROVE  builder'[thread'[u].builder].lock = u
      <4>1. CASE u = t
        BY <2>3, <2>4, <2>6, <4>1
      <4>2. CASE u # t
        BY <1>0, <2>6, <2>7, <3>2, <4>2 DEF LocksHeld
      <4> QED BY <4>1, <4>2
    <3> QED BY <3>1, <3>2 DEF LocksHeld
  <2>9. PlaceInv'
    <3>1. Placed(thread[t])'
      BY <2>0, <2>3, <2>4, <2>6, Numbers DEF Placed
    <3>2. ASSUME NEW u \in Threads \ {t} PROVE Placed(thread[u])'
      BY <1>0, <2>6, <2>7 DEF PlaceInv, Placed, Building
    <3> QED BY <3>1, <3>2 DEF PlaceInv
  <2> QED BY <1>0, <1>12, <2>5, <2>6, <2>8, <2>9, TypeParts DEF Lock, VarTypes
<1>13. ASSUME Generate(t) PROVE TypeInv'
  <2> DEFINE b == thread[t].builder
             models == Discovered(thread[t].list)
             after == [builder[b] EXCEPT !.models = models,
                         !.schema = [by |-> b, n |-> builder[b].version + 1]]
             new == [thread[t] EXCEPT !.pc = "count", !.list = {}]
  <2>0. /\ thread[t].pc = "generate" /\ b \in Builders /\ builder[b] \in Builder
        /\ builder[b].lock = t /\ builder[b].version < MaxCalls
    BY <1>0, <1>13, Numbers DEF Generate, At, Mine, LocksHeld, Building
  <2>1. Disturbed(b, t)[t] = thread[t]
    BY DEF Disturbed
  <2>2. thread' = [Disturbed(b, t) EXCEPT ![t] = new]
    BY <1>13, <2>1, DisturbedKeeps DEF Generate, Mine
  <2>3. new \in Thread /\ new.pc = "count" /\ new.builder = b
    BY <1>0 DEF Thread, Positions, Building
  <2>4. thread'[t] = new /\ Others(t)
    BY <2>2, DisturbsKeeps
  <2>5. thread' \in [Threads -> Thread]
    <3> HIDE DEF new
    <3> QED BY <2>2, <2>3, DisturbedKeeps
  <2>6. after \in Builder /\ after.lock = t /\ after.version = builder[b].version
    <3>1. models \in SUBSET Models
      BY <1>0, Values DEF Thread
    <3>2. [by |-> b, n |-> builder[b].version + 1] \in Schema
      BY <1>0, <2>0 DEF Schema, Version, Builder, Builders
    <3> HIDE DEF models
    <3> QED BY <2>0, <3>1, <3>2 DEF Builder
  <2>7. builder' = [builder EXCEPT ![b] = after]
    BY <1>0, <1>13, <2>0 DEF Generate, Mine, VarTypes, Builder
  <2>9. builder' \in [Builders -> Builder] /\ LocksHeld' /\ PlaceInv'
    <3> HIDE DEF after, new
    <3> QED BY <2>0, <2>3, <2>4, <2>5, <2>6, <2>7, BuildMove DEF Building
  <2> QED BY <1>0, <1>13, <2>5, <2>9, TypeParts DEF Generate, VarTypes
<1>14. ASSUME GenerateFails(t) PROVE TypeInv'
  <2> DEFINE b == thread[t].builder
             models == Discovered(thread[t].list)
             after == [builder[b] EXCEPT !.models = models, !.lock = NoThread]
  <2>0. thread[t].pc = "generate" /\ b \in Builders /\ builder[b] \in Builder
    BY <1>14, Numbers DEF GenerateFails, At, Mine
  <2>1. thread'[t] = Idle /\ Others(t) /\ thread' \in [Threads -> Thread] /\ Idle.pc = "idle"
    BY <1>0, <1>14, Values, MovesKeeps DEF GenerateFails, Moves, VarTypes, Idle
  <2>2. after \in Builder /\ after.lock = NoThread
    <3>1. models \in SUBSET Models
      BY <1>0, Values DEF Thread
    <3> HIDE DEF models
    <3> QED BY <2>0, <3>1 DEF Builder
  <2>3. builder' = [builder EXCEPT ![b] = after]
    BY <1>0, <1>14, <2>0 DEF GenerateFails, Mine, VarTypes, Builder
  <2>4. builder' \in [Builders -> Builder] /\ LocksHeld' /\ PlaceInv'
    <3> HIDE DEF after
    <3> QED BY <2>0, <2>1, <2>2, <2>3, Values, BuildMove DEF Building
  <2> QED BY <1>0, <1>14, <2>1, <2>4, TypeParts DEF GenerateFails, VarTypes
<1>15. ASSUME Count(t) PROVE TypeInv'
  <2> DEFINE b == thread[t].builder
             after == [builder[b] EXCEPT !.version = @ + 1]
             new == [thread[t] EXCEPT !.pc = "look"]
  <2>0. /\ thread[t].pc = "count" /\ b \in Builders /\ builder[b] \in Builder
        /\ builder[b].lock = t /\ builder[b].version < MaxCalls
    BY <1>0, <1>15, Numbers DEF Count, At, Mine, LocksHeld, Building, Placed
  <2>1. Disturbed(b, t)[t] = thread[t]
    BY DEF Disturbed
  <2>2. thread' = [Disturbed(b, t) EXCEPT ![t] = new]
    BY <1>15, <2>1, DisturbedKeeps DEF Count, Mine
  <2>3. new \in Thread /\ new.pc = "look" /\ new.builder = b
    BY <1>0 DEF Thread, Positions, Building
  <2>4. thread'[t] = new /\ Others(t)
    BY <2>2, DisturbsKeeps
  <2>5. thread' \in [Threads -> Thread]
    <3> HIDE DEF new
    <3> QED BY <2>2, <2>3, DisturbedKeeps
  <2>6. after \in Builder /\ after.lock = t
    BY <2>0 DEF Builder, Version
  <2>7. builder' = [builder EXCEPT ![b] = after]
    BY <1>0, <1>15, <2>0 DEF Count, Mine, VarTypes, Builder
  <2>8. builder' \in [Builders -> Builder] /\ LocksHeld' /\ PlaceInv'
    <3> HIDE DEF after, new
    <3> QED BY <2>0, <2>3, <2>4, <2>5, <2>6, <2>7, BuildMove DEF Building
  <2> QED BY <1>0, <1>15, <2>5, <2>8, TypeParts DEF Count, VarTypes
<1>16. ASSUME Record(t) PROVE TypeInv'
  <2> DEFINE b == thread[t].builder
             seen == thread[t].seen
             models == IF seen.present /\ seen.models # {} THEN seen.models ELSE builder[b].models
             loose == thread[t].overlap
             new == IF thread[t].call = "serve"
                    THEN [Idle EXCEPT !.pc = "take", !.builder = b, !.overlap = loose]
                    ELSE Idle
             after == [builder[b] EXCEPT !.lock = NoThread]
  <2>0. thread[t].pc = "record" /\ b \in Builders /\ builder[b] \in Builder
    BY <1>16, Numbers DEF Record, At, Mine
  <2>1. PICK compared \in Entry :
          LET changed == ~seen.present \/ Kept(seen, models) # compared
          IN /\ entry' = IF changed \/ thread[t].attached THEN Kept(seen, models) ELSE entry
             /\ cache' = IF changed THEN NoInstance ELSE cache
             /\ thread' = [(IF changed THEN Detached ELSE thread) EXCEPT ![t] = new]
    BY <1>0, <1>16 DEF Record, Mine, VarTypes, Thread
  <2>2. Kept(seen, models) \in Entry
    <3>1. models \in SUBSET Models /\ seen \in Entry
      BY <1>0, <2>0 DEF Thread, Entry, Builder
    <3> HIDE DEF models, seen
    <3> QED BY <3>1 DEF Kept, Entry
  <2>3. new \in Thread /\ new.pc \in {"take", "idle"} /\ (new.pc = "take" => new.builder = b)
    <3>1. loose \in BOOLEAN /\ Idle.pc = "idle"
      BY <1>0 DEF Thread, Idle
    <3>2. [Idle EXCEPT !.pc = "take", !.builder = b, !.overlap = loose] \in Thread
          /\ [Idle EXCEPT !.pc = "take", !.builder = b, !.overlap = loose].pc = "take"
          /\ [Idle EXCEPT !.pc = "take", !.builder = b, !.overlap = loose].builder = b
      <4> HIDE DEF loose
      <4> QED BY <1>0, <3>1, Values DEF Thread, Positions, Asking
    <3> QED BY <3>1, <3>2, Values
  <2>4. thread'[t] = new /\ Others(t) /\ thread' \in [Threads -> Thread]
    <3> HIDE DEF new
    <3> QED BY <1>0, <2>1, <2>3, DetachesKeeps, DetachedKeeps, MovesKeeps DEF Moves, VarTypes
  <2>5. after \in Builder /\ after.lock = NoThread
    BY <2>0 DEF Builder
  <2>6. builder' = [builder EXCEPT ![b] = after]
    BY <1>0, <1>16, <2>0 DEF Record, Mine, VarTypes, Builder
  <2>7. builder' \in [Builders -> Builder] /\ LocksHeld' /\ PlaceInv'
    <3> HIDE DEF after, new
    <3> QED BY <2>0, <2>3, <2>4, <2>5, <2>6, BuildMove DEF Building
  <2>8. entry' \in Entry
    <3> HIDE DEF models, seen, new
    <3> QED BY <1>0, <2>1, <2>2 DEF VarTypes
  <2>9. cache' \in [known : BOOLEAN, version : Version, schema : Schema, sound : BOOLEAN]
    <3> HIDE DEF models, seen, new
    <3> QED BY <1>0, <2>1, Values DEF VarTypes
  <2> HIDE DEF new, after, models, seen
  <2> QED BY <1>0, <1>16, <2>4, <2>7, <2>8, <2>9, Values, TypeParts DEF Record, VarTypes
<1> QED
  BY <1>1, <1>2, <1>3, <1>4, <1>5, <1>6, <1>7, <1>8, <1>9, <1>10, <1>11, <1>12, <1>13,
     <1>14, <1>15, <1>16
  DEF Step

\* A survey leaves builders and locks alone, and what the others hold, too; the
\* calls that have something of the current builder notice that it is removed.
LEMMA SurveyKeeps ==
  ASSUME TypeInv, NEW t \in Threads, Surveys(t)
  PROVE  /\ thread' \in [Threads -> Thread] /\ Others(t)
         /\ thread[t].pc \in Out /\ thread'[t].pc \in Out
         /\ UNCHANGED builder
         /\ \/ UNCHANGED <<current, cache>>
            \/ UNCHANGED current /\ cache' = NoInstance
            \/ /\ current' = 0 /\ cache' = NoInstance
               /\ \A u \in Threads \ {t} :
                    thread[u].builder = current /\ thread[u].pc \in Asking \cup Building =>
                      thread'[u].overlap
<1> USE DEF TypeInv, At
<1>0. thread \in [Threads -> Thread] /\ thread[t] \in Thread
  BY DEF TypeOK
<1>1. ASSUME NEW pc \in Out, NEW call \in Calls \cup Asked
      PROVE  /\ [thread[t] EXCEPT !.pc = pc] \in Thread
             /\ [thread[t] EXCEPT !.pc = pc].pc = pc
             /\ [Idle EXCEPT !.pc = pc, !.call = call] \in Thread
             /\ [Idle EXCEPT !.pc = pc, !.call = call].pc = pc
  <2>1. pc \in Positions
    BY DEF Positions
  <2>2. Idle \in Thread
    BY Values
  <2>3. [thread[t] EXCEPT !.pc = pc] \in Thread /\ [thread[t] EXCEPT !.pc = pc].pc = pc
    BY <1>0, <2>1 DEF Thread
  <2>4. ASSUME NEW x \in Thread
        PROVE  /\ [x EXCEPT !.pc = pc, !.call = call] \in Thread
               /\ [x EXCEPT !.pc = pc, !.call = call].pc = pc
    BY <2>1 DEF Thread
  <2> QED BY <2>2, <2>3, <2>4
<1>2. ASSUME NEW new \in Thread, new.pc \in Out, Moves(t, new)
      PROVE  thread' \in [Threads -> Thread] /\ Others(t) /\ thread'[t].pc \in Out
  BY <1>0, <1>2, MovesKeeps DEF Moves
<1>3. Idle \in Thread /\ Idle.pc = "idle" /\ Arrival \in Out
  BY Values DEF Idle, Arrival
<1> DEFINE Silent == UNCHANGED <<builder, current, cache>> /\ thread[t].pc \in Out
<1>4. ASSUME NEW call \in {"mine", "other"}, Survey(t, call)
      PROVE  \E new \in Thread : new.pc \in Out /\ Moves(t, new) /\ Silent
  <2> DEFINE new == [Idle EXCEPT !.pc = Arrival, !.call = call]
  <2>1. new \in Thread /\ new.pc \in Out
    BY <1>1, <1>3
  <2>2. Moves(t, new) /\ Silent
    BY <1>4 DEF Survey
  <2> HIDE DEF new, Silent
  <2> QED BY <2>1, <2>2
<1>5. ASSUME NEW pc \in Out, Goes(t, pc), Silent
      PROVE  \E new \in Thread : new.pc \in Out /\ Moves(t, new) /\ Silent
  BY <1>1, <1>5 DEF Goes
<1>6. ASSUME Scan(t) \/ Mark(t) \/ Lookup(t) \/ Arrive(t)
      PROVE  \E new \in Thread : new.pc \in Out /\ Moves(t, new) /\ Silent
  <2>1. Silent
    BY <1>6 DEF Scan, Mark, Lookup, Arrive
  <2>2. (\E pc \in Out : Goes(t, pc)) \/ Moves(t, Idle)
    BY <1>3, <1>6 DEF Scan, Mark, Lookup, Arrive
  <2> HIDE DEF Silent
  <2> QED BY <1>3, <1>5, <2>1, <2>2
<1>7. CASE Enter(t)
  <2> DEFINE new == [thread[t] EXCEPT !.pc = "mark"]
  <2>1. thread[t].pc = "enter" /\ cache' = NoInstance /\ UNCHANGED <<builder, current>>
        /\ thread' = [Detached EXCEPT ![t].pc = "mark"]
    BY <1>7 DEF Enter
  <2>2. Detached[t] = thread[t]
    BY <2>1 DEF Detached
  <2>3. thread' = [Detached EXCEPT ![t] = new] /\ Detached \in [Threads -> Thread]
    BY <2>1, <2>2, DetachedKeeps
  <2>4. new \in Thread /\ new.pc = "mark"
    BY <1>1
  <2> HIDE DEF new
  <2>5. thread' \in [Threads -> Thread] /\ thread'[t] = new /\ Others(t)
    BY <2>3, <2>4, DetachesKeeps
  <2> QED BY <2>1, <2>4, <2>5
<1>8. CASE Clear(t)
  <2> DEFINE new == [Idle EXCEPT !.pc = "arrive", !.call = "again"]
  <2>1. /\ thread[t].pc = "clear" /\ cache' = NoInstance /\ current' = 0 /\ UNCHANGED builder
        /\ thread' = [Removed EXCEPT ![t] = new]
    BY <1>8 DEF Clear, Disposed
  <2>2. new \in Thread /\ new.pc = "arrive"
    BY <1>1
  <2> HIDE DEF new
  <2>3. /\ Removed \in [Threads -> Thread]
        /\ \A u \in Threads :
             /\ Same(thread[u], Removed[u])
             /\ thread[u].builder = current /\ thread[u].pc \in Asking \cup Building =>
                  Removed[u].overlap
    BY RemovedKeeps
  <2>4. thread' \in [Threads -> Thread] /\ thread'[t] = new
        /\ \A u \in Threads \ {t} : thread'[u] = Removed[u]
    BY <2>1, <2>2, <2>3
  <2> QED BY <2>1, <2>2, <2>3, <2>4 DEF Others, GoesOn
<1>9. CASE \E new \in Thread : new.pc \in Out /\ Moves(t, new) /\ Silent
  BY <1>2, <1>9
<1> HIDE DEF Silent
<1> QED BY <1>4, <1>6, <1>7, <1>8, <1>9 DEF Surveys

LEMMA TypeSurvey ==
  ASSUME TypeInv, NEW t \in Threads, Surveys(t) PROVE TypeInv'
<1>0. /\ VarTypes /\ LocksHeld /\ PlaceInv
      /\ thread' \in [Threads -> Thread] /\ UNCHANGED builder
      /\ \A u \in Threads : \/ thread[u].pc \in Out /\ thread'[u].pc \in Out
                            \/ /\ thread'[u].pc = thread[u].pc
                               /\ thread'[u].builder = thread[u].builder
  BY TypeParts, SurveyKeeps DEF TypeInv, Others, GoesOn, Same
<1>1. LocksHeld'
  BY <1>0, Numbers DEF LocksHeld, Builder, Building
<1>2. PlaceInv'
  BY <1>0 DEF PlaceInv, Placed
<1>3. VarTypes'
  <2>0. /\ UNCHANGED <<made, calls>> /\ current' \in {0, current}
        /\ cache' \in {cache, NoInstance}
    <3>1. UNCHANGED <<made, calls>>
      BY DEF Surveys, Survey, Scan, Enter, Mark, Lookup, Clear, Arrive
    <3> QED BY <3>1, SurveyKeeps
  <2>1. ASSUME NEW e \in Entry, Leaves(t, e)
        PROVE  entry' \in Entry /\ settled' \in [known : BOOLEAN, entry : Entry]
    <3> HIDE DEF Out, Surveying
    <3> QED BY <2>1, UnsettledType DEF Leaves
  <2>2. ASSUME Survey(t, "mine") \/ Survey(t, "other") \/ Scan(t) \/ Lookup(t) \/ Arrive(t)
        PROVE  UNCHANGED <<origin, listed, initialized, others, entry, settled, decisions,
                           modelCache>>
    BY <2>2 DEF Survey, Scan, Lookup, Arrive
  <2>3. ASSUME Mark(t)
        PROVE  /\ UNCHANGED <<origin, listed, entry, settled, decisions, modelCache>>
               /\ initialized' = TRUE /\ others' = TRUE
    BY <2>3 DEF Mark
  <2>4. ASSUME Enter(t)
        PROVE  /\ UNCHANGED <<origin, listed, initialized, others, decisions>>
               /\ modelCache' = NoModels /\ Leaves(t, origin)
    BY <2>4 DEF Enter
  <2>5. ASSUME Clear(t)
        PROVE  /\ UNCHANGED <<origin, listed, decisions>> /\ initialized' = FALSE
               /\ others' = FALSE /\ modelCache' = NoModels /\ Leaves(t, NoEntry)
    BY <2>5 DEF Clear
  <2>6. CASE Survey(t, "mine") \/ Survey(t, "other") \/ Scan(t) \/ Lookup(t) \/ Arrive(t)
    BY <1>0, <2>0, <2>2, <2>6, Values DEF VarTypes
  <2>7. CASE Mark(t)
    BY <1>0, <2>0, <2>3, <2>7, Values DEF VarTypes
  <2>8. CASE Enter(t)
    BY <1>0, <2>0, <2>1, <2>4, <2>8, Values DEF VarTypes
  <2>9. CASE Clear(t)
    BY <1>0, <2>0, <2>1, <2>5, <2>9, Values DEF VarTypes
  <2> QED BY <2>6, <2>7, <2>8, <2>9 DEF Surveys
<1> QED BY <1>0, <1>1, <1>2, <1>3, TypeParts DEF TypeInv, VarTypes

\* What the administrator does to the threads.
LEMMA AdminKeeps ==
  ASSUME TypeInv, Administer
  PROVE  /\ thread' \in [Threads -> Thread] /\ UNCHANGED builder
         /\ \A u \in Threads : GoesOn(u)
<1> USE DEF TypeInv
<1>1. ASSUME NEW apps \in Apps, NEW enabled \in BOOLEAN, Register(apps, enabled)
      PROVE  thread' = Detached /\ UNCHANGED builder
  BY <1>1 DEF Register
<1>2. CASE Switch \/ UnregisterOther
  BY <1>2, Noted DEF Switch, UnregisterOther, GoesOn, TypeOK
<1>3. ASSUME Unregister \/ ClearAll \/ ClearBuilders
      PROVE  /\ UNCHANGED builder
             /\ \/ thread' = Disturbed(current, NoThread)
                \/ thread' = Removed
  BY <1>3 DEF Unregister, ClearAll, ClearBuilders
<1>4. CASE \E apps \in Apps, enabled \in BOOLEAN : Register(apps, enabled)
  BY <1>1, <1>4, DetachedKeeps, DetachesKeeps
<1>5. CASE Unregister \/ ClearAll \/ ClearBuilders
  BY <1>3, <1>5, RemovalKeeps
<1> QED BY <1>2, <1>4, <1>5 DEF Administer

LEMMA TypeAdmin ==
  ASSUME TypeInv, Administer PROVE TypeInv'
<1>0. /\ VarTypes /\ LocksHeld /\ PlaceInv
      /\ thread' \in [Threads -> Thread] /\ UNCHANGED builder
      /\ \A u \in Threads : thread'[u].pc = thread[u].pc /\ thread'[u].builder = thread[u].builder
  BY TypeParts, AdminKeeps DEF TypeInv, GoesOn, Same
<1>1. LocksHeld'
  BY <1>0, Numbers DEF LocksHeld, Builder
<1>2. PlaceInv'
  BY <1>0 DEF PlaceInv, Placed
<1>3. /\ entry' \in Entry /\ settled' \in [known : BOOLEAN, entry : Entry]
      /\ UNCHANGED <<origin, listed>> /\ initialized' \in BOOLEAN /\ others' \in BOOLEAN
      /\ decisions' \in 0 .. MaxDecisions
      /\ modelCache' \in [known : BOOLEAN, list : SUBSET Models]
      /\ cache' \in [known : BOOLEAN, version : Version, schema : Schema, sound : BOOLEAN]
      /\ UNCHANGED <<made, calls>> /\ current' \in {0, current}
  <2>0. ASSUME NEW e \in Entry, NEW undisturbed, Decides(e, undisturbed)
        PROVE  /\ entry' \in Entry /\ settled' \in [known : BOOLEAN, entry : Entry]
               /\ UNCHANGED <<origin, listed>> /\ decisions' \in 0 .. MaxDecisions
    <3> DEFINE left == [e EXCEPT !.models = {}]
    <3>1. left \in Entry
      BY DEF Entry
    <3> DEFINE noted == undisturbed /\ ~InFlight
    <3>2. settled' = IF noted THEN [known |-> TRUE, entry |-> left] ELSE Unsettled
      BY <2>0 DEF Decides
    <3> HIDE DEF left, noted
    <3>3. settled' \in [known : BOOLEAN, entry : Entry]
      <4>1. [known |-> TRUE, entry |-> left] \in [known : BOOLEAN, entry : Entry]
        BY <3>1
      <4> QED BY <3>2, <4>1, UnsettledType
    <3>4. /\ entry' \in Entry /\ UNCHANGED <<origin, listed>>
          /\ decisions' \in 0 .. MaxDecisions
      BY <1>0, <2>0 DEF Decides, VarTypes
    <3> QED BY <3>3, <3>4
  <2>1. ASSUME NEW apps \in Apps, NEW enabled \in BOOLEAN, Register(apps, enabled)
        PROVE  <1>3
    <3>1. [present |-> TRUE, enabled |-> enabled, apps |-> apps, models |-> {}] \in Entry
      BY DEF Entry
    <3> QED BY <1>0, <2>0, <2>1, <3>1, Values DEF Register, VarTypes
  <2>2. CASE Switch
    <3> DEFINE enabled == ~entry.enabled
    <3>1. [entry EXCEPT !.enabled = enabled] \in Entry
      <4>1. enabled \in BOOLEAN
        OBVIOUS
      <4> HIDE DEF enabled
      <4> QED BY <1>0, <4>1 DEF VarTypes, Entry
    <3>2. Decides([entry EXCEPT !.enabled = enabled], settled.known)
      BY <2>2 DEF Switch
    <3> HIDE DEF enabled
    <3> QED BY <1>0, <2>0, <2>2, <3>1, <3>2 DEF Switch, VarTypes
  <2>3. CASE Unregister
    <3>1. Decides(NoEntry, TRUE) /\ NoEntry \in Entry
      BY <2>3, Values DEF Unregister
    <3> QED BY <1>0, <2>0, <2>3, <3>1, Values DEF Unregister, Disposed, VarTypes
  <2>4. CASE ClearBuilders
    BY <1>0, <2>4, Values DEF ClearBuilders, Disposed, VarTypes
  <2>5. CASE UnregisterOther
    <3>1. decisions' \in 0 .. MaxDecisions
      BY <1>0, <2>5 DEF UnregisterOther, VarTypes
    <3>2. UNCHANGED <<entry, settled, modelCache, cache, current, made, calls, origin, listed,
                      initialized>> /\ others' = FALSE
      BY <2>5 DEF UnregisterOther
    <3> QED BY <1>0, <3>1, <3>2 DEF VarTypes
  <2>6. CASE ClearAll
    <3>1. Decides(NoEntry, TRUE) /\ NoEntry \in Entry
      BY <2>6, Values DEF ClearAll
    <3> QED BY <1>0, <2>0, <2>6, <3>1, Values DEF ClearAll, Disposed, VarTypes
  <2> QED BY <2>1, <2>2, <2>3, <2>4, <2>5, <2>6 DEF Administer
<1> QED BY <1>0, <1>1, <1>2, <1>3, TypeParts DEF TypeInv, VarTypes

LEMMA TypeStep == TypeInv /\ [Next]_vars => TypeInv'
<1>1. CASE UNCHANGED vars
  BY <1>1 DEF vars, TypeInv, TypeOK, LocksHeld, PlaceInv, Placed
<1> QED BY <1>1, TypeThread, TypeSurvey, TypeAdmin DEF Next

\* Whatever threads, administrators and failing builds do, the entry, the caches
\* and the builders keep their types, and the lock of a builder is held by the
\* thread that builds with it and by no other.
THEOREM TypeCorrect == Spec => []TypeOK
<1>1. TypeInv => TypeOK
  BY DEF TypeInv
<1> QED BY <1>1, TypeInit, TypeStep, PTL DEF Spec
-----------------------------------------------------------------------------
(* The cached schema *)

\* A call that overlapped with nothing builds with the current builder, or
\* holds what this builder has.
Standing(x) ==
  /\ x.pc \in Building /\ ~x.overlap => x.builder = current
  /\ x.pc \in {"take", "stamp", "store"} /\ ~x.overlap =>
       /\ x.builder = current /\ builder[current].lock = NoThread
       /\ x.pc \in {"stamp", "store"} => x.schema = builder[current].schema
       /\ x.pc = "store" => x.version = builder[current].version
StandingInv == \A t \in Threads : Standing(thread[t])

\* What such a call stored is of a version of the current builder, which a build
\* leaves behind before it lets the lock go.
CacheInv ==
  cache.known /\ cache.sound =>
    /\ current # 0
    /\ cache.version <= builder[current].version
    /\ builder[current].lock = NoThread /\ builder[current].schema # NoSchema
         /\ cache.version = builder[current].version => cache.schema = builder[current].schema
    /\ builder[current].lock # NoThread
         /\ thread[builder[current].lock].pc \in {"look", "record"} =>
           cache.version < builder[current].version

SoundInv == TypeInv /\ StandingInv /\ CacheInv

LEMMA SoundInit == Init => SoundInv
<1> SUFFICES ASSUME Init PROVE SoundInv
  OBVIOUS
<1>1. \A t \in Threads : thread[t] = Idle
  BY DEF Init
<1>2. Idle.pc = "idle" /\ ~NoInstance.known
  BY DEF Idle, NoInstance
<1>3. StandingInv
  BY <1>1, <1>2 DEF StandingInv, Standing, Building
<1> QED BY <1>2, <1>3, TypeInit DEF Init, SoundInv, CacheInv

\* Versions are numbers, and the lock of the current builder is held in a build.
LEMMA Holders ==
  ASSUME TypeInv
  PROVE  /\ cache.version \in Nat /\ cache.known \in BOOLEAN /\ cache.sound \in BOOLEAN
         /\ \A b \in Builders : builder[b].version \in Nat
         /\ \A b \in Builders : builder[b].lock # NoThread =>
              /\ builder[b].lock \in Threads
              /\ thread[builder[b].lock].pc \in Building
              /\ thread[builder[b].lock].builder = b
         /\ \A t \in Threads : thread[t].pc \in Building =>
              thread[t].builder \in Builders /\ builder[thread[t].builder].lock = t
BY Numbers DEF TypeInv, TypeOK, LocksHeld, Builder, Version, Building

\* A step of a thread that leaves builders alone and is of no concern to the
\* lock.
LEMMA SoundMove ==
  ASSUME SoundInv, NEW t \in Threads, NEW new, Moves(t, new),
         UNCHANGED <<current, cache, builder>>, Standing(new),
         thread[t].pc \in Building /\ new.pc \in {"look", "record"} => thread[t].pc = "look"
  PROVE  StandingInv' /\ CacheInv'
<1>1. thread'[t] = new /\ \A u \in Threads \ {t} : thread'[u] = thread[u]
  BY MovesKeeps DEF SoundInv, TypeInv
<1>2. StandingInv'
  BY <1>1 DEF SoundInv, StandingInv, Standing
<1>3. CacheInv'
  <2>1. \A b \in Builders :
          builder[b].lock # NoThread /\ thread'[builder[b].lock].pc \in {"look", "record"} =>
            thread[builder[b].lock].pc \in {"look", "record"}
    BY <1>1, Holders DEF SoundInv
  <2>2. current # 0 => current \in Builders
    BY Numbers DEF SoundInv
  <2> QED BY <2>1, <2>2 DEF SoundInv, CacheInv
<1> QED BY <1>2, <1>3

\* What a step that changes the builder b means to the others.
LEMMA OthersStand ==
  ASSUME SoundInv, NEW t \in Threads, Others(t), NEW b \in Builders, UNCHANGED current,
         \A a \in Builders \ {b} : builder'[a] = builder[a],
         \/ builder[b].lock # NoThread
         \/ \A u \in Threads \ {t} :
              thread[u].builder = b /\ thread[u].pc \in Asking \cup Building => thread'[u].overlap
  PROVE  \A u \in Threads \ {t} : Standing(thread[u])'
<1> SUFFICES ASSUME NEW u \in Threads \ {t} PROVE Standing(thread[u])'
  OBVIOUS
<1>1. Standing(thread[u]) /\ GoesOn(u) /\ thread[u].builder \in 0 .. MaxCalls
      /\ (thread[u].pc \in {"take", "stamp", "store"} => thread[u].builder \in Builders)
  BY Numbers DEF SoundInv, StandingInv, Others
<1>2. CASE thread[u].builder = b
  BY <1>1, <1>2 DEF Standing, GoesOn, Same, Asking
<1>3. CASE thread[u].builder # b
  BY <1>1, <1>3 DEF Standing, GoesOn, Same
<1> QED BY <1>2, <1>3

\* And to the cache, when it is not the current one.
LEMMA OtherBuilder ==
  ASSUME SoundInv, NEW t \in Threads, Others(t), NEW b \in Builders, UNCHANGED <<current, cache>>,
         \A a \in Builders \ {b} : builder'[a] = builder[a],
         b # current, thread[t].builder = b
  PROVE  CacheInv'
<1>1. CASE current = 0
  BY <1>1 DEF SoundInv, CacheInv
<1>2. CASE current # 0
  <2>1. current \in Builders /\ builder'[current] = builder[current]
    BY <1>2, Numbers DEF SoundInv
  <2>2. builder[current].lock # NoThread =>
          thread'[builder[current].lock].pc = thread[builder[current].lock].pc
    BY <2>1, Holders DEF SoundInv, Others, GoesOn, Same
  <2> QED BY <1>2, <2>1, <2>2 DEF SoundInv, CacheInv
<1> QED BY <1>1, <1>2

LEMMA SoundThread ==
  ASSUME SoundInv, NEW t \in Threads, Step(t) PROVE StandingInv' /\ CacheInv'
<1> DEFINE b == thread[t].builder
<1>0. /\ TypeInv /\ TypeOK /\ StandingInv /\ CacheInv /\ Standing(thread[t])
      /\ thread[t] \in Thread /\ thread \in [Threads -> Thread]
  BY Numbers DEF SoundInv, TypeInv, TypeOK, StandingInv
<1> USE DEF At
<1>1. ASSUME NEW call \in Calls, Begin(t, call) PROVE StandingInv' /\ CacheInv'
  <2> DEFINE new == [Idle EXCEPT !.pc = IF current # 0 THEN "fetch" ELSE "create", !.call = call]
  <2>1. new.pc \in {"fetch", "create"}
    BY DEF Idle
  <2>2. Standing(new)
    BY <2>1 DEF Standing, Building
  <2>3. Moves(t, new) /\ thread[t].pc = "idle" /\ UNCHANGED <<current, cache, builder>>
    BY <1>1 DEF Begin
  <2> HIDE DEF new
  <2> QED BY <2>1, <2>2, <2>3, SoundMove DEF Building
<1>2. CASE Create(t)
  <2>1. Disturbed(current, t)[t] = thread[t]
    BY DEF Disturbed
  <2> DEFINE new == [thread[t] EXCEPT !.pc = "fetch"]
  <2>2. thread' = [Disturbed(current, t) EXCEPT ![t] = new] /\ new.pc = "fetch"
    BY <1>0, <1>2, <2>1, DisturbedKeeps DEF Create, Thread
  <2>3. /\ thread'[t].pc = "fetch"
        /\ \A u \in Threads \ {t} :
             /\ GoesOn(u)
             /\ thread[u].builder = current /\ thread[u].pc \in Asking \cup Building =>
                  thread'[u].overlap
    <3> HIDE DEF new
    <3> QED BY <1>0, <2>2, DisturbsKeeps DEF Others
  <2>4. StandingInv'
    <3>1. Standing(thread[t])'
      BY <2>3 DEF Standing, Building
    <3>2. ASSUME NEW u \in Threads \ {t} PROVE Standing(thread[u])'
      BY <1>0, <2>3 DEF StandingInv, Standing, GoesOn, Same, Asking
    <3> QED BY <3>1, <3>2 DEF StandingInv
  <2>5. ~(cache'.known /\ cache'.sound)
    BY <1>0, <1>2 DEF Create, CacheInv, TypeOK
  <2> QED BY <2>4, <2>5 DEF CacheInv
<1>3. CASE Fetch(t)
  <2> DEFINE new == IF current = 0 \/ thread[t].call = "builder" THEN Idle
                    ELSE [thread[t] EXCEPT !.builder = current,
                            !.pc = IF thread[t].call = "serve" THEN "check" ELSE "lock"]
  <2>1. new.pc \in {"idle", "check", "lock"}
    BY <1>0 DEF Idle, Thread
  <2>2. Standing(new)
    BY <2>1 DEF Standing, Building
  <2>3. Moves(t, new) /\ thread[t].pc = "fetch" /\ UNCHANGED <<current, cache, builder>>
    BY <1>3 DEF Fetch
  <2> HIDE DEF new
  <2> QED BY <2>1, <2>2, <2>3, SoundMove DEF Building
<1>4. CASE Check(t)
  <2> DEFINE new == IF Hit(b) THEN Idle ELSE [thread[t] EXCEPT !.pc = "peek"]
  <2>1. new.pc \in {"idle", "peek"}
    BY <1>0 DEF Idle, Thread
  <2>2. Standing(new)
    BY <2>1 DEF Standing, Building
  <2>3. Moves(t, new) /\ thread[t].pc = "check" /\ UNCHANGED <<current, cache, builder>>
    BY <1>4 DEF Check
  <2> HIDE DEF new
  <2> QED BY <2>1, <2>2, <2>3, SoundMove DEF Building
<1>5. CASE Peek(t)
  <2> DEFINE overlap == builder[b].lock # NoThread \/ b # current
             position == IF builder[b].schema = NoSchema THEN "lock" ELSE "take"
             new == [thread[t] EXCEPT !.pc = position, !.overlap = overlap]
  <2>1. Moves(t, new) /\ thread[t].pc = "peek" /\ UNCHANGED <<current, cache, builder>>
    BY <1>5 DEF Peek
  <2>2. position \in {"lock", "take"} /\ new.pc = position /\ new.overlap = overlap
        /\ new.builder = b
    <3>1. position \in {"lock", "take"}
      OBVIOUS
    <3> HIDE DEF position, overlap
    <3> QED BY <1>0, <3>1 DEF Thread
  <2>3. Standing(new)
    <3> HIDE DEF new, position
    <3> QED BY <2>2 DEF Standing, Building
  <2> HIDE DEF new, position
  <2> QED BY <2>1, <2>2, <2>3, SoundMove DEF Building
<1>6. CASE Take(t)
  <2> DEFINE new == [thread[t] EXCEPT !.pc = "stamp", !.schema = builder[b].schema]
  <2>1. Moves(t, new) /\ thread[t].pc = "take" /\ UNCHANGED <<current, cache, builder>>
    BY <1>6 DEF Take
  <2>2. new.pc = "stamp" /\ new.schema = builder[b].schema /\ new.builder = b
        /\ new.overlap = thread[t].overlap
    BY <1>0 DEF Thread
  <2>3. Standing(new)
    <3> HIDE DEF new
    <3> QED BY <1>0, <2>1, <2>2 DEF Standing, Building
  <2> HIDE DEF new
  <2> QED BY <2>1, <2>2, <2>3, SoundMove DEF Building
<1>7. CASE Stamp(t)
  <2> DEFINE new == [thread[t] EXCEPT !.pc = "store", !.version = builder[b].version]
  <2>1. Moves(t, new) /\ thread[t].pc = "stamp" /\ UNCHANGED <<current, cache, builder>>
    BY <1>7 DEF Stamp
  <2>2. new.pc = "store" /\ new.version = builder[b].version /\ new.builder = b
        /\ new.overlap = thread[t].overlap /\ new.schema = thread[t].schema
    BY <1>0 DEF Thread
  <2>3. Standing(new)
    <3> HIDE DEF new
    <3> QED BY <1>0, <2>1, <2>2 DEF Standing, Building
  <2> HIDE DEF new
  <2> QED BY <2>1, <2>2, <2>3, SoundMove DEF Building
<1>8. CASE Store(t)
  <2>1. thread'[t] = Idle /\ (\A u \in Threads \ {t} : thread'[u] = thread[u])
        /\ Idle.pc = "idle"
    BY <1>0, <1>8, MovesKeeps DEF Store, Idle
  <2>2. StandingInv'
    BY <1>0, <1>8, <2>1 DEF Store, StandingInv, Standing, Building
  <2>3. CASE thread[t].overlap
    BY <1>8, <2>2, <2>3 DEF Store, CacheInv
  <2>4. CASE ~thread[t].overlap
    <3>1. /\ b = current /\ b \in Builders /\ current # 0 /\ builder[current].lock = NoThread
          /\ thread[t].schema = builder[current].schema
          /\ thread[t].version = builder[current].version
      BY <1>0, <1>8, <2>4, Numbers DEF Store, Standing
    <3>2. cache'.version = thread[t].version /\ cache'.schema = thread[t].schema
      BY <1>8 DEF Store
    <3>3. builder[current].version \in Nat
      BY <1>0, <3>1, Holders
    <3> QED BY <1>8, <2>2, <3>1, <3>2, <3>3 DEF Store, CacheInv
  <2> QED BY <2>3, <2>4
<1>9. CASE Discover(t)
  <2> DEFINE position == IF modelCache.known \/ ~entry.present THEN "generate" ELSE "memo"
             list == IF modelCache.known THEN modelCache.list
                     ELSE IF entry.present THEN Selected(entry) ELSE {}
             new == [thread[t] EXCEPT !.pc = position, !.list = list]
  <2>1. Moves(t, new) /\ thread[t].pc = "discover" /\ UNCHANGED <<current, cache, builder>>
    BY <1>9 DEF Discover
  <2>2. position \in {"generate", "memo"} /\ new.pc = position /\ new.builder = b
        /\ new.overlap = thread[t].overlap
    <3>1. position \in {"generate", "memo"}
      OBVIOUS
    <3> HIDE DEF position, list
    <3> QED BY <1>0, <3>1 DEF Thread
  <2>3. Standing(new)
    <3> HIDE DEF new, position
    <3> QED BY <1>0, <2>1, <2>2 DEF Standing, Building
  <2> HIDE DEF new, position
  <2> QED BY <2>1, <2>2, <2>3, SoundMove DEF Building
<1>10. CASE Memo(t)
  <2> DEFINE new == [thread[t] EXCEPT !.pc = "generate"]
  <2>1. Moves(t, new) /\ thread[t].pc = "memo" /\ UNCHANGED <<current, cache, builder>>
    BY <1>10 DEF Memo, Goes
  <2>2. new.pc = "generate" /\ new.builder = b /\ new.overlap = thread[t].overlap
    BY <1>0 DEF Thread
  <2>3. Standing(new)
    <3> HIDE DEF new
    <3> QED BY <1>0, <2>1, <2>2 DEF Standing, Building
  <2> HIDE DEF new
  <2> QED BY <2>1, <2>2, <2>3, SoundMove DEF Building
<1>11. CASE Look(t)
  <2> DEFINE new == [thread[t] EXCEPT !.pc = "record", !.seen = entry, !.attached = TRUE]
  <2>1. Moves(t, new) /\ thread[t].pc = "look" /\ UNCHANGED <<current, cache, builder>>
    BY <1>11 DEF Look
  <2>2. new.pc = "record" /\ new.builder = b /\ new.overlap = thread[t].overlap
    BY <1>0 DEF Thread
  <2>3. Standing(new)
    <3> HIDE DEF new
    <3> QED BY <1>0, <2>1, <2>2 DEF Standing, Building
  <2> HIDE DEF new
  <2> QED BY <2>1, <2>2, <2>3, SoundMove DEF Building
<1>12. CASE Lock(t)
  <2> DEFINE overlap == b # current
             new == [thread[t] EXCEPT !.pc = "discover", !.overlap = overlap]
  <2>0. thread[t].pc = "lock" /\ b \in Builders /\ UNCHANGED <<current, cache>>
    BY <1>0, <1>12, Numbers DEF Lock
  <2>1. Disturbed(b, t)[t] = thread[t]
    BY DEF Disturbed
  <2>2. thread' = [Disturbed(b, t) EXCEPT ![t] = new]
    BY <1>0, <1>12, <2>1, DisturbedKeeps DEF Lock, Mine
  <2>3. new.pc = "discover" /\ new.builder = b /\ new.overlap = overlap
    <3> HIDE DEF overlap
    <3> QED BY <1>0 DEF Thread
  <2>4. /\ thread'[t] = new /\ Others(t)
        /\ \A u \in Threads \ {t} :
             thread[u].builder = b /\ thread[u].pc \in Asking \cup Building => thread'[u].overlap
    <3> HIDE DEF new
    <3> QED BY <1>0, <2>2, DisturbsKeeps
  <2>5. /\ builder'[b].lock = t /\ builder'[b].schema = NoSchema
        /\ builder'[b].version = builder[b].version
        /\ \A a \in Builders \ {b} : builder'[a] = builder[a]
    BY <1>0, <1>12, <2>0 DEF Lock, Mine, TypeOK, Builder
  <2>6. StandingInv'
    <3>1. Standing(thread[t])'
      <4> HIDE DEF new
      <4> QED BY <2>0, <2>3, <2>4 DEF Standing
    <3>2. \A u \in Threads \ {t} : Standing(thread[u])'
      BY <2>0, <2>4, <2>5, OthersStand
    <3> QED BY <3>1, <3>2 DEF StandingInv
  <2>7. CASE b # current
    BY <2>0, <2>4, <2>5, <2>6, <2>7, OtherBuilder
  <2>8. CASE b = current
    <3> HIDE DEF new
    <3> QED BY <1>0, <2>0, <2>3, <2>4, <2>5, <2>6, <2>8 DEF CacheInv
  <2> QED BY <2>7, <2>8
<1>13. CASE Generate(t)
  <2> DEFINE new == [thread[t] EXCEPT !.pc = "count", !.list = {}]
  <2>0. /\ thread[t].pc = "generate" /\ b \in Builders /\ builder[b].lock = t
        /\ UNCHANGED <<current, cache>>
    BY <1>0, <1>13, Holders DEF Generate, Building
  <2>1. Disturbed(b, t)[t] = thread[t]
    BY DEF Disturbed
  <2>2. thread' = [Disturbed(b, t) EXCEPT ![t] = new]
    BY <1>0, <1>13, <2>1, DisturbedKeeps DEF Generate, Mine
  <2>3. new.pc = "count" /\ new.builder = b /\ new.overlap = thread[t].overlap
    BY <1>0 DEF Thread
  <2>4. thread'[t] = new /\ Others(t)
    <3> HIDE DEF new
    <3> QED BY <1>0, <2>2, DisturbsKeeps
  <2>5. /\ builder'[b].lock = t /\ builder'[b].version = builder[b].version
        /\ \A a \in Builders \ {b} : builder'[a] = builder[a]
    BY <1>0, <1>13, <2>0 DEF Generate, Mine, TypeOK, Builder
  <2>6. StandingInv'
    <3>1. Standing(thread[t])'
      <4> HIDE DEF new
      <4> QED BY <1>0, <2>0, <2>3, <2>4 DEF Standing, Building
    <3>2. \A u \in Threads \ {t} : Standing(thread[u])'
      BY <2>0, <2>4, <2>5, OthersStand
    <3> QED BY <3>1, <3>2 DEF StandingInv
  <2>7. CASE b # current
    BY <2>0, <2>4, <2>5, <2>6, <2>7, OtherBuilder
  <2>8. CASE b = current
    <3> HIDE DEF new
    <3> QED BY <1>0, <2>0, <2>3, <2>4, <2>5, <2>6, <2>8 DEF CacheInv
  <2> QED BY <2>7, <2>8
<1>14. CASE GenerateFails(t)
  <2>0. /\ thread[t].pc = "generate" /\ b \in Builders /\ builder[b].lock = t
        /\ builder[b].schema = NoSchema /\ UNCHANGED <<current, cache>>
    BY <1>0, <1>14, Holders DEF GenerateFails, Building, TypeInv, PlaceInv, Placed
  <2>1. thread'[t] = Idle /\ Others(t) /\ Idle.pc = "idle"
    BY <1>0, <1>14, MovesKeeps DEF GenerateFails, Idle
  <2>2. /\ builder'[b].schema = NoSchema /\ builder'[b].version = builder[b].version
        /\ builder'[b].lock = NoThread
        /\ \A a \in Builders \ {b} : builder'[a] = builder[a]
    BY <1>0, <1>14, <2>0 DEF GenerateFails, Mine, TypeOK, Builder
  <2>3. StandingInv'
    <3>1. Standing(thread[t])'
      BY <2>1 DEF Standing, Building
    <3>2. \A u \in Threads \ {t} : Standing(thread[u])'
      BY <2>0, <2>1, <2>2, OthersStand
    <3> QED BY <3>1, <3>2 DEF StandingInv
  <2>4. CASE b # current
    BY <2>0, <2>1, <2>2, <2>3, <2>4, OtherBuilder
  <2>5. CASE b = current
    BY <1>0, <2>0, <2>2, <2>3, <2>5 DEF CacheInv
  <2> QED BY <2>4, <2>5
<1>15. CASE Count(t)
  <2> DEFINE new == [thread[t] EXCEPT !.pc = "look"]
  <2>0. /\ thread[t].pc = "count" /\ b \in Builders /\ builder[b].lock = t
        /\ builder[b].version \in Nat /\ cache.version \in Nat /\ UNCHANGED <<current, cache>>
    BY <1>0, <1>15, Holders DEF Count, Building
  <2>1. Disturbed(b, t)[t] = thread[t]
    BY DEF Disturbed
  <2>2. thread' = [Disturbed(b, t) EXCEPT ![t] = new]
    BY <1>0, <1>15, <2>1, DisturbedKeeps DEF Count, Mine
  <2>3. new.pc = "look" /\ new.builder = b /\ new.overlap = thread[t].overlap
    BY <1>0 DEF Thread
  <2>4. thread'[t] = new /\ Others(t)
    <3> HIDE DEF new
    <3> QED BY <1>0, <2>2, DisturbsKeeps
  <2>5. /\ builder'[b].lock = t /\ builder'[b].version = builder[b].version + 1
        /\ \A a \in Builders \ {b} : builder'[a] = builder[a]
    BY <1>0, <1>15, <2>0 DEF Count, Mine, TypeOK, Builder
  <2>6. StandingInv'
    <3>1. Standing(thread[t])'
      <4> HIDE DEF new
      <4> QED BY <1>0, <2>0, <2>3, <2>4 DEF Standing, Building
    <3>2. \A u \in Threads \ {t} : Standing(thread[u])'
      BY <2>0, <2>4, <2>5, OthersStand
    <3> QED BY <3>1, <3>2 DEF StandingInv
  <2>7. CASE b # current
    BY <2>0, <2>4, <2>5, <2>6, <2>7, OtherBuilder
  <2>8. CASE b = current
    <3> HIDE DEF new
    <3> QED BY <1>0, <2>0, <2>5, <2>6, <2>8 DEF CacheInv
  <2> QED BY <2>7, <2>8
<1>16. CASE Record(t)
  <2> DEFINE loose == thread[t].overlap
             new == IF thread[t].call = "serve"
                    THEN [Idle EXCEPT !.pc = "take", !.builder = b, !.overlap = loose]
                    ELSE Idle
  <2>0. /\ thread[t].pc = "record" /\ b \in Builders /\ builder[b].lock = t
        /\ builder[b].version \in Nat /\ cache.version \in Nat /\ UNCHANGED current
    BY <1>0, <1>16, Holders DEF Record, Building
  <2>1. /\ \/ thread' = [Detached EXCEPT ![t] = new] /\ cache' = NoInstance
           \/ thread' = [thread EXCEPT ![t] = new] /\ cache' = cache
    BY <1>16 DEF Record, Mine
  <2>2. new.pc \in {"idle", "take"} /\ (new.pc = "take" => new.builder = b /\ new.overlap = loose)
    <3> HIDE DEF loose
    <3> QED BY DEF Idle
  <2>3. thread'[t] = new /\ Others(t)
    <3> HIDE DEF new
    <3> QED BY <1>0, <2>1, DetachesKeeps, MovesKeeps DEF Moves
  <2>4. /\ builder'[b].schema = builder[b].schema /\ builder'[b].version = builder[b].version
        /\ builder'[b].lock = NoThread
        /\ \A a \in Builders \ {b} : builder'[a] = builder[a]
    BY <1>0, <1>16, <2>0 DEF Record, Mine, TypeOK, Builder
  <2>5. StandingInv'
    <3>1. Standing(thread[t])'
      <4> HIDE DEF new
      <4> QED BY <1>0, <2>0, <2>2, <2>3, <2>4 DEF Standing, Building
    <3>2. \A u \in Threads \ {t} : Standing(thread[u])'
      BY <2>0, <2>3, <2>4, OthersStand
    <3> QED BY <3>1, <3>2 DEF StandingInv
  <2>6. CASE cache' = NoInstance
    BY <2>5, <2>6 DEF CacheInv, NoInstance
  <2>7. CASE cache' = cache /\ b # current
    BY <2>0, <2>3, <2>4, <2>5, <2>7, OtherBuilder
  <2>8. CASE cache' = cache /\ b = current
    BY <1>0, <2>0, <2>4, <2>5, <2>8 DEF CacheInv
  <2> QED BY <2>1, <2>6, <2>7, <2>8
<1> QED
  BY <1>1, <1>2, <1>3, <1>4, <1>5, <1>6, <1>7, <1>8, <1>9, <1>10, <1>11, <1>12, <1>13,
     <1>14, <1>15, <1>16
  DEF Step

LEMMA SoundSurvey ==
  ASSUME SoundInv, NEW t \in Threads, Surveys(t) PROVE StandingInv' /\ CacheInv'
<1>0. /\ TypeInv /\ StandingInv /\ CacheInv /\ UNCHANGED builder
      /\ Others(t) /\ thread[t].pc \in Out /\ thread'[t].pc \in Out
  BY SurveyKeeps DEF SoundInv
<1>1. Standing(thread[t])'
  BY <1>0 DEF Standing, Building
<1>2. CASE UNCHANGED current
  <2>1. ASSUME NEW u \in Threads \ {t} PROVE Standing(thread[u])'
    BY <1>0, <1>2 DEF StandingInv, Standing, Others, GoesOn, Same
  <2>0. StandingInv'
    BY <1>1, <2>1 DEF StandingInv
  <2>2. CASE UNCHANGED cache
    <3>1. CASE current = 0
      BY <1>0, <1>2, <2>0, <2>2, <3>1 DEF CacheInv
    <3>2. CASE current # 0
      <4>1. current \in Builders
        BY <1>0, <3>2, Numbers
      <4>2. builder[current].lock # NoThread =>
              thread'[builder[current].lock].pc = thread[builder[current].lock].pc
        BY <1>0, <4>1, Holders DEF Others, GoesOn, Same, Building
      <4> QED BY <1>0, <1>2, <2>0, <2>2, <4>2 DEF CacheInv
    <3> QED BY <3>1, <3>2
  <2>3. CASE cache' = NoInstance
    BY <2>0, <2>3 DEF CacheInv, NoInstance
  <2>4. UNCHANGED cache \/ cache' = NoInstance
    BY <1>0, SurveyKeeps
  <2> QED BY <2>2, <2>3, <2>4
<1>3. CASE current' = 0 /\ cache' = NoInstance
           /\ \A u \in Threads \ {t} :
                thread[u].builder = current /\ thread[u].pc \in Asking \cup Building =>
                  thread'[u].overlap
  <2>1. ASSUME NEW u \in Threads \ {t} PROVE Standing(thread[u])'
    BY <1>0, <1>3 DEF StandingInv, Standing, Others, GoesOn, Same, Asking
  <2> QED BY <1>1, <1>3, <2>1 DEF StandingInv, CacheInv, NoInstance
<1> QED BY <1>0, <1>2, <1>3, SurveyKeeps

LEMMA SoundAdmin ==
  ASSUME SoundInv, Administer PROVE StandingInv' /\ CacheInv'
<1>0. /\ TypeInv /\ TypeOK /\ StandingInv /\ CacheInv /\ UNCHANGED builder
      /\ \A u \in Threads : GoesOn(u)
  BY AdminKeeps DEF SoundInv, TypeInv
<1>1. CASE \E apps \in Apps, enabled \in BOOLEAN : Register(apps, enabled)
  <2>1. UNCHANGED current /\ cache' = NoInstance
    BY <1>1 DEF Register
  <2> QED BY <1>0, <2>1 DEF StandingInv, Standing, GoesOn, Same, CacheInv, NoInstance
<1>2. CASE Switch \/ UnregisterOther
  <2>1. UNCHANGED <<current, cache, thread>>
    BY <1>2 DEF Switch, UnregisterOther
  <2> QED BY <1>0, <2>1 DEF StandingInv, Standing, CacheInv
<1>3. CASE Unregister \/ ClearAll \/ ClearBuilders
  <2>1. /\ cache' = NoInstance
        /\ \/ thread' = Disturbed(current, NoThread)
           \/ thread' = Removed
    BY <1>3 DEF Unregister, ClearAll, ClearBuilders, Disposed
  <2>2. \A u \in Threads :
          thread[u].builder = current /\ thread[u].pc \in Asking \cup Building =>
            thread'[u].overlap
    BY <1>0, <2>1, RemovalKeeps
  <2>3. StandingInv'
    BY <1>0, <2>2 DEF StandingInv, Standing, GoesOn, Same, Asking
  <2> QED BY <2>1, <2>3 DEF CacheInv, NoInstance
<1> QED BY <1>1, <1>2, <1>3 DEF Administer

LEMMA SoundStep == SoundInv /\ [Next]_vars => SoundInv'
<1>1. CASE UNCHANGED vars
  BY <1>1, TypeStep DEF vars, SoundInv, StandingInv, Standing, CacheInv
<1> QED BY <1>1, TypeStep, SoundThread, SoundSurvey, SoundAdmin DEF Next, SoundInv

\* What a request finds in the instance cache under the current version is the
\* schema of the current builder, unless the call that stored it overlapped with
\* a build or a removal, or two threads created builders.
THEOREM CachedSchemasAreCurrent == Spec => []CacheIsSound
<1>1. SoundInv => CacheIsSound
  BY DEF SoundInv, CacheInv, CacheIsSound, Hit
<1> QED BY <1>1, SoundInit, SoundStep, PTL DEF Spec
-----------------------------------------------------------------------------
(* What the administrator decided, or discovery found *)

\* The entry e is as it was left, but that its models may be listed.
Agrees(e) ==
  /\ e.present = settled.entry.present
  /\ e.present =>
       /\ e.enabled = settled.entry.enabled /\ e.apps = settled.entry.apps
       /\ e.models \in {{}, Discovered(settled.entry.apps)}

\* A thread that builds does so with the models of the entry.
Faithful(x) ==
  /\ x.pc \in {"memo", "generate"} => Discovered(x.list) = Discovered(settled.entry.apps)
  /\ x.pc \in {"count", "look", "record"} =>
       builder[x.builder].models = Discovered(settled.entry.apps)
  /\ x.pc = "record" => Agrees(x.seen)

SettledInv ==
  settled.known =>
    /\ Agrees(entry)
    /\ ~settled.entry.present => current = 0 /\ \A t \in Threads : thread[t].pc \in Out
    /\ modelCache.known => Discovered(modelCache.list) = Discovered(settled.entry.apps)
    /\ \A t \in Threads : Faithful(thread[t])

IInv == TypeInv /\ SettledInv

LEMMA SettledInit == Init => IInv
<1> SUFFICES ASSUME Init PROVE IInv
  OBVIOUS
<1>1. \A t \in Threads : thread[t] = Idle
  BY DEF Init
<1>2. Idle.pc = "idle" /\ ~NoModels.known
  BY DEF Idle, NoModels
<1>3. \A t \in Threads : Faithful(thread[t])
  BY <1>1, <1>2 DEF Faithful
<1>4. entry = settled.entry /\ entry.present /\ entry.models = {} /\ modelCache = NoModels
  BY DEF Init
<1> QED BY <1>2, <1>3, <1>4, TypeInit DEF IInv, SettledInv, Agrees

\* The models found for an entry that agrees are those of its apps.
LEMMA FoundModels ==
  ASSUME NEW e, Agrees(e), e.present
  PROVE  Discovered(Selected(e)) = Discovered(settled.entry.apps)
<1>1. e.apps = settled.entry.apps /\ e.models \in {{}, Discovered(settled.entry.apps)}
  BY DEF Agrees
<1>2. CASE e.models = {}
  BY <1>1, <1>2 DEF Selected
<1>3. CASE e.models = Discovered(settled.entry.apps) /\ settled.entry.apps = {}
  BY <1>1, <1>3 DEF Selected, Discovered
<1>4. CASE e.models = Discovered(settled.entry.apps) /\ settled.entry.apps # {}
  BY <1>1, <1>4 DEF Selected, Discovered
<1> QED BY <1>1, <1>2, <1>3, <1>4

\* A step of a thread that leaves the entry, the cached models and the models of
\* other threads' builders alone.
LEMMA SettledMove ==
  ASSUME IInv, NEW t \in Threads, thread[t].pc \notin Out, Others(t),
         UNCHANGED <<entry, settled, modelCache>>, Faithful(thread[t])',
         \A u \in Threads \ {t} : thread[u].pc \in Building =>
           builder'[thread[u].builder].models = builder[thread[u].builder].models
  PROVE  SettledInv'
<1> SUFFICES ASSUME settled.known PROVE SettledInv'
  BY DEF SettledInv
<1>1. /\ Agrees(entry) /\ settled.entry.present
      /\ modelCache.known => Discovered(modelCache.list) = Discovered(settled.entry.apps)
      /\ \A u \in Threads : Faithful(thread[u])
  BY DEF IInv, SettledInv
<1>2. ASSUME NEW u \in Threads \ {t} PROVE Faithful(thread[u])'
  <2>1. /\ thread'[u].pc = thread[u].pc /\ thread'[u].builder = thread[u].builder
        /\ thread'[u].list = thread[u].list /\ thread'[u].seen = thread[u].seen
    BY DEF Others, GoesOn, Same
  <2>2. Agrees(thread[u].seen) => Agrees(thread[u].seen)'
    BY <2>1 DEF Agrees
  <2> QED BY <1>1, <2>1, <2>2 DEF Faithful, Building
<1> QED BY <1>1, <1>2 DEF SettledInv, Agrees

LEMMA SettledThread ==
  ASSUME IInv, NEW t \in Threads, Step(t) PROVE SettledInv'
<1> SUFFICES ASSUME settled.known, settled'.known PROVE SettledInv'
  BY DEF SettledInv, Step, Begin, Create, Fetch, Check, Peek, Take, Stamp, Store, Lock,
         Discover, Memo, Generate, GenerateFails, Count, Look, Record
<1> DEFINE b == thread[t].builder
<1> USE DEF At
<1>0. /\ TypeInv /\ TypeOK /\ Agrees(entry) /\ Faithful(thread[t]) /\ thread[t] \in Thread
      /\ thread \in [Threads -> Thread]
      /\ modelCache.known => Discovered(modelCache.list) = Discovered(settled.entry.apps)
      /\ thread[t].pc \notin Out => settled.entry.present
      /\ \A u \in Threads : Faithful(thread[u])
  BY Numbers DEF IInv, SettledInv, TypeInv, TypeOK
<1>1. ASSUME NEW call \in Calls, Begin(t, call) PROVE SettledInv'
  <2> DEFINE new == [Idle EXCEPT !.pc = IF current # 0 THEN "fetch" ELSE "create", !.call = call]
  <2>1. new.pc \in {"fetch", "create"}
    BY DEF Idle
  <2>2. settled.entry.present
    BY <1>0, <1>1 DEF IInv, SettledInv, Agrees, Begin
  <2>3. thread'[t] = new /\ (\A u \in Threads \ {t} : thread'[u] = thread[u])
        /\ UNCHANGED <<entry, settled, modelCache, builder>>
    <3>1. Moves(t, new) /\ UNCHANGED <<entry, settled, modelCache, builder>>
      BY <1>1 DEF Begin
    <3> HIDE DEF new
    <3> QED BY <1>0, <3>1, MovesKeeps
  <2> HIDE DEF new
  <2>4. \A u \in Threads : Faithful(thread[u])'
    BY <1>0, <2>1, <2>3 DEF Faithful, Agrees
  <2> QED BY <1>0, <2>2, <2>3, <2>4 DEF SettledInv, Agrees
<1>2. CASE Create(t)
  <2> DEFINE new == [thread[t] EXCEPT !.pc = "fetch"]
  <2>1. Disturbed(current, t)[t] = thread[t]
    BY DEF Disturbed
  <2>2. thread' = [Disturbed(current, t) EXCEPT ![t] = new] /\ new.pc = "fetch"
        /\ thread[t].pc = "create" /\ UNCHANGED <<entry, settled, modelCache, builder>>
    BY <1>0, <1>2, <2>1, DisturbedKeeps DEF Create, Thread
  <2> HIDE DEF new
  <2>3. thread'[t] = new /\ Others(t)
    BY <1>0, <2>2, DisturbsKeeps
  <2> QED BY <2>2, <2>3, SettledMove DEF Faithful
<1>3. CASE Fetch(t)
  <2> DEFINE new == IF current = 0 \/ thread[t].call = "builder" THEN Idle
                    ELSE [thread[t] EXCEPT !.builder = current,
                            !.pc = IF thread[t].call = "serve" THEN "check" ELSE "lock"]
  <2>1. Moves(t, new) /\ UNCHANGED <<entry, settled, modelCache, builder>>
        /\ thread[t].pc = "fetch"
    BY <1>3 DEF Fetch
  <2>2. new.pc \notin {"memo", "generate", "count", "look", "record"}
    BY <1>0 DEF Thread, Idle
  <2> HIDE DEF new
  <2>3. thread'[t] = new /\ Others(t)
    BY <1>0, <2>1, MovesKeeps
  <2> QED BY <2>1, <2>2, <2>3, SettledMove DEF Faithful
<1>4. CASE Check(t)
  <2> DEFINE new == IF Hit(b) THEN Idle ELSE [thread[t] EXCEPT !.pc = "peek"]
  <2>1. Moves(t, new) /\ UNCHANGED <<entry, settled, modelCache, builder>>
        /\ thread[t].pc = "check"
    BY <1>4 DEF Check
  <2>2. new.pc \notin {"memo", "generate", "count", "look", "record"}
    BY <1>0 DEF Thread, Idle
  <2> HIDE DEF new
  <2>3. thread'[t] = new /\ Others(t)
    BY <1>0, <2>1, MovesKeeps
  <2> QED BY <2>1, <2>2, <2>3, SettledMove DEF Faithful
<1>5. CASE Peek(t)
  <2> DEFINE overlap == builder[b].lock # NoThread \/ b # current
             position == IF builder[b].schema = NoSchema THEN "lock" ELSE "take"
             new == [thread[t] EXCEPT !.pc = position, !.overlap = overlap]
  <2>1. Moves(t, new) /\ UNCHANGED <<entry, settled, modelCache, builder>>
        /\ thread[t].pc = "peek"
    BY <1>5 DEF Peek
  <2>2. new.pc \in {"lock", "take"}
    <3>1. position \in {"lock", "take"}
      OBVIOUS
    <3> HIDE DEF position, overlap
    <3> QED BY <1>0, <3>1 DEF Thread
  <2> HIDE DEF new
  <2>3. thread'[t] = new /\ Others(t)
    BY <1>0, <2>1, MovesKeeps
  <2> QED BY <2>1, <2>2, <2>3, SettledMove DEF Faithful
<1>6. CASE Take(t)
  <2> DEFINE new == [thread[t] EXCEPT !.pc = "stamp", !.schema = builder[b].schema]
  <2>1. Moves(t, new) /\ UNCHANGED <<entry, settled, modelCache, builder>>
        /\ thread[t].pc = "take"
    BY <1>6 DEF Take
  <2>2. new.pc \notin {"memo", "generate", "count", "look", "record"}
    BY <1>0 DEF Thread, Idle
  <2> HIDE DEF new
  <2>3. thread'[t] = new /\ Others(t)
    BY <1>0, <2>1, MovesKeeps
  <2> QED BY <2>1, <2>2, <2>3, SettledMove DEF Faithful
<1>7. CASE Stamp(t)
  <2> DEFINE new == [thread[t] EXCEPT !.pc = "store", !.version = builder[b].version]
  <2>1. Moves(t, new) /\ UNCHANGED <<entry, settled, modelCache, builder>>
        /\ thread[t].pc = "stamp"
    BY <1>7 DEF Stamp
  <2>2. new.pc \notin {"memo", "generate", "count", "look", "record"}
    BY <1>0 DEF Thread, Idle
  <2> HIDE DEF new
  <2>3. thread'[t] = new /\ Others(t)
    BY <1>0, <2>1, MovesKeeps
  <2> QED BY <2>1, <2>2, <2>3, SettledMove DEF Faithful
<1>8. CASE Store(t)
  <2> DEFINE new == Idle
  <2>1. Moves(t, new) /\ UNCHANGED <<entry, settled, modelCache, builder>>
        /\ thread[t].pc = "store"
    BY <1>8 DEF Store
  <2>2. new.pc \notin {"memo", "generate", "count", "look", "record"}
    BY <1>0 DEF Thread, Idle
  <2> HIDE DEF new
  <2>3. thread'[t] = new /\ Others(t)
    BY <1>0, <2>1, MovesKeeps
  <2> QED BY <2>1, <2>2, <2>3, SettledMove DEF Faithful
<1>9. CASE Lock(t)
  <2> DEFINE overlap == b # current
             new == [thread[t] EXCEPT !.pc = "discover", !.overlap = overlap]
  <2>1. Disturbed(b, t)[t] = thread[t]
    BY DEF Disturbed
  <2>2. thread' = [Disturbed(b, t) EXCEPT ![t] = new] /\ thread[t].pc = "lock"
        /\ UNCHANGED <<entry, settled, modelCache>>
    BY <1>0, <1>9, <2>1, DisturbedKeeps DEF Lock, Mine
  <2>3. new.pc = "discover"
    <3> HIDE DEF overlap
    <3> QED BY <1>0 DEF Thread
  <2> HIDE DEF new
  <2>4. thread'[t] = new /\ Others(t)
    BY <1>0, <2>2, DisturbsKeeps
  <2>5. \A a \in Builders : builder'[a].models = builder[a].models
    BY <1>0, <1>9 DEF Lock, Mine, TypeOK, Builder
  <2>6. \A u \in Threads : thread[u].pc \in Building => thread[u].builder \in Builders
    BY <1>0, Holders
  <2> QED BY <2>2, <2>3, <2>4, <2>5, <2>6, SettledMove DEF Faithful
<1>10. CASE Discover(t)
  <2> DEFINE position == IF modelCache.known \/ ~entry.present THEN "generate" ELSE "memo"
             list == IF modelCache.known THEN modelCache.list
                     ELSE IF entry.present THEN Selected(entry) ELSE {}
             new == [thread[t] EXCEPT !.pc = position, !.list = list]
  <2>1. Moves(t, new) /\ UNCHANGED <<entry, settled, modelCache, builder>>
        /\ thread[t].pc = "discover"
    BY <1>10 DEF Discover
  <2>2. entry.present
    BY <1>0, <2>1 DEF Agrees
  <2>3. Discovered(list) = Discovered(settled.entry.apps)
    BY <1>0, <2>2, FoundModels
  <2>4. new.pc \in {"generate", "memo"} /\ new.list = list
    <3>1. position \in {"generate", "memo"}
      OBVIOUS
    <3> HIDE DEF position, list
    <3> QED BY <1>0, <3>1 DEF Thread
  <2> HIDE DEF new, list
  <2>5. thread'[t] = new /\ Others(t)
    BY <1>0, <2>1, MovesKeeps
  <2>6. Faithful(thread[t])'
    BY <2>1, <2>3, <2>4, <2>5 DEF Faithful
  <2> QED BY <2>1, <2>5, <2>6, SettledMove
<1>11. CASE Memo(t)
  <2> DEFINE new == [thread[t] EXCEPT !.pc = "generate"]
  <2>1. /\ Moves(t, new) /\ UNCHANGED <<entry, settled, current, builder>>
        /\ modelCache'.list = thread[t].list /\ thread[t].pc = "memo"
    BY <1>11 DEF Memo, Goes
  <2>2. new.pc = "generate" /\ new.list = thread[t].list
    BY <1>0 DEF Thread
  <2> HIDE DEF new
  <2>3. thread'[t] = new /\ \A u \in Threads \ {t} : thread'[u] = thread[u]
    BY <1>0, <2>1, MovesKeeps
  <2>4. Discovered(thread[t].list) = Discovered(settled.entry.apps)
    BY <1>0, <2>1 DEF Faithful
  <2>5. \A u \in Threads : Faithful(thread[u])'
    BY <1>0, <2>1, <2>2, <2>3, <2>4 DEF Faithful, Agrees
  <2> QED BY <1>0, <2>1, <2>4, <2>5 DEF SettledInv, Agrees
<1>12. CASE Generate(t)
  <2> DEFINE new == [thread[t] EXCEPT !.pc = "count", !.list = {}]
  <2>0. /\ thread[t].pc = "generate" /\ b \in Builders /\ builder[b].lock = t
        /\ UNCHANGED <<entry, settled, modelCache>>
    BY <1>0, <1>12, Holders DEF Generate, Building
  <2>1. Disturbed(b, t)[t] = thread[t]
    BY DEF Disturbed
  <2>2. thread' = [Disturbed(b, t) EXCEPT ![t] = new] /\ new.pc = "count" /\ new.builder = b
    <3>1. new.pc = "count" /\ new.builder = b
      BY <1>0 DEF Thread
    <3>2. thread' = [Disturbed(b, t) EXCEPT ![t] = new]
      BY <1>0, <1>12, <2>1, DisturbedKeeps DEF Generate, Mine
    <3> QED BY <3>1, <3>2
  <2> HIDE DEF new
  <2>3. thread'[t] = new /\ Others(t)
    BY <1>0, <2>2, DisturbsKeeps
  <2>4. /\ builder'[b].models = Discovered(thread[t].list)
        /\ \A a \in Builders \ {b} : builder'[a] = builder[a]
    BY <1>0, <1>12, <2>0 DEF Generate, Mine, TypeOK, Builder
  <2>5. \A u \in Threads \ {t} : thread[u].pc \in Building => thread[u].builder \in Builders \ {b}
    BY <1>0, <2>0, Holders
  <2>6. Faithful(thread[t])'
    BY <1>0, <2>0, <2>2, <2>3, <2>4 DEF Faithful
  <2> QED BY <2>0, <2>3, <2>4, <2>5, <2>6, SettledMove
<1>13. CASE GenerateFails(t)
  <2>0. /\ thread[t].pc = "generate" /\ b \in Builders /\ builder[b].lock = t
        /\ UNCHANGED <<entry, settled, modelCache>>
    BY <1>0, <1>13, Holders DEF GenerateFails, Building
  <2>1. thread'[t] = Idle /\ Others(t) /\ Idle.pc = "idle"
    BY <1>0, <1>13, MovesKeeps DEF GenerateFails, Idle
  <2>2. \A a \in Builders \ {b} : builder'[a] = builder[a]
    BY <1>0, <1>13, <2>0 DEF GenerateFails, Mine, TypeOK
  <2>3. \A u \in Threads \ {t} : thread[u].pc \in Building => thread[u].builder \in Builders \ {b}
    BY <1>0, <2>0, Holders
  <2> QED BY <2>0, <2>1, <2>2, <2>3, SettledMove DEF Faithful
<1>14. CASE Count(t)
  <2> DEFINE new == [thread[t] EXCEPT !.pc = "look"]
  <2>0. /\ thread[t].pc = "count" /\ b \in Builders
        /\ UNCHANGED <<entry, settled, modelCache>>
    BY <1>0, <1>14, Holders DEF Count, Building
  <2>1. Disturbed(b, t)[t] = thread[t]
    BY DEF Disturbed
  <2>2. thread' = [Disturbed(b, t) EXCEPT ![t] = new] /\ new.pc = "look" /\ new.builder = b
    BY <1>0, <1>14, <2>1, DisturbedKeeps DEF Count, Mine, Thread
  <2> HIDE DEF new
  <2>3. thread'[t] = new /\ Others(t)
    BY <1>0, <2>2, DisturbsKeeps
  <2>4. \A a \in Builders : builder'[a].models = builder[a].models
    BY <1>0, <1>14, <2>0 DEF Count, Mine, TypeOK, Builder
  <2>5. \A u \in Threads : thread[u].pc \in Building => thread[u].builder \in Builders
    BY <1>0, Holders
  <2>6. Faithful(thread[t])'
    BY <1>0, <2>0, <2>2, <2>3, <2>4 DEF Faithful
  <2> QED BY <2>0, <2>3, <2>4, <2>5, <2>6, SettledMove
<1>15. CASE Look(t)
  <2> DEFINE new == [thread[t] EXCEPT !.pc = "record", !.seen = entry, !.attached = TRUE]
  <2>1. Moves(t, new) /\ UNCHANGED <<entry, settled, modelCache, builder>>
        /\ thread[t].pc = "look"
    BY <1>15 DEF Look
  <2>2. new.pc = "record" /\ new.builder = b /\ new.seen = entry
    BY <1>0 DEF Thread
  <2> HIDE DEF new
  <2>3. thread'[t] = new /\ Others(t)
    BY <1>0, <2>1, MovesKeeps
  <2>4. Faithful(thread[t])'
    BY <1>0, <2>1, <2>2, <2>3 DEF Faithful, Agrees
  <2> QED BY <2>1, <2>3, <2>4, SettledMove
<1>16. CASE Record(t)
  <2> DEFINE seen == thread[t].seen
             models == IF seen.present /\ seen.models # {} THEN seen.models ELSE builder[b].models
             loose == thread[t].overlap
             new == IF thread[t].call = "serve"
                    THEN [Idle EXCEPT !.pc = "take", !.builder = b, !.overlap = loose]
                    ELSE Idle
  <2>0. /\ thread[t].pc = "record" /\ b \in Builders /\ builder[b].lock = t /\ settled.entry.present
        /\ UNCHANGED <<settled, current>> /\ modelCache' = NoModels
    BY <1>0, <1>16, Holders DEF Record, Building
  <2>1. /\ entry' \in {Kept(seen, models), entry}
        /\ \/ thread' = [Detached EXCEPT ![t] = new]
           \/ thread' = [thread EXCEPT ![t] = new]
    BY <1>16 DEF Record, Mine
  <2>2. new.pc \in {"idle", "take"}
    <3> HIDE DEF loose
    <3> QED BY DEF Idle
  <2>3. thread'[t] = new /\ Others(t)
    <3> HIDE DEF new
    <3> QED BY <1>0, <2>1, DetachesKeeps, MovesKeeps DEF Moves
  <2>4. \A a \in Builders : builder'[a].models = builder[a].models
    BY <1>0, <1>16, <2>0 DEF Record, Mine, TypeOK, Builder
  <2>5. Agrees(seen) /\ seen.present /\ models = Discovered(settled.entry.apps)
    BY <1>0, <2>0 DEF Faithful, Agrees
  <2>6. Agrees(Kept(seen, models))
    <3>1. seen \in Entry
      BY <1>0 DEF Thread
    <3> HIDE DEF seen, models
    <3> QED BY <2>5, <3>1 DEF Kept, Agrees, Entry
  <2> HIDE DEF new, models, seen
  <2>7. Agrees(entry)'
    <3>1. Agrees(entry')
      BY <1>0, <2>1, <2>6
    <3> QED BY <2>0, <3>1 DEF Agrees
  <2>8. ASSUME NEW u \in Threads PROVE Faithful(thread[u])'
    <3>1. CASE u = t
      BY <2>2, <2>3, <3>1 DEF Faithful
    <3>2. CASE u # t
      <4>1. Faithful(thread[u]) /\ GoesOn(u)
            /\ (thread[u].pc \in Building => thread[u].builder \in Builders)
        BY <1>0, <2>3, <3>2, Holders DEF Others
      <4> QED BY <2>0, <2>4, <4>1 DEF Faithful, GoesOn, Same, Agrees, Building
    <3> QED BY <3>1, <3>2
  <2> QED BY <2>0, <2>7, <2>8 DEF SettledInv, NoModels
<1> QED
  BY <1>1, <1>2, <1>3, <1>4, <1>5, <1>6, <1>7, <1>8, <1>9, <1>10, <1>11, <1>12, <1>13,
     <1>14, <1>15, <1>16
  DEF Step

LEMMA NotSettled == ~Unsettled.known
BY DEF Unsettled

LEMMA SettledSurvey ==
  ASSUME IInv, NEW t \in Threads, Surveys(t) PROVE SettledInv'
<1> SUFFICES ASSUME settled'.known PROVE SettledInv'
  BY DEF SettledInv
<1>0. /\ TypeInv /\ UNCHANGED builder /\ Others(t)
      /\ thread[t].pc \in Out /\ thread'[t].pc \in Out
  BY SurveyKeeps DEF IInv
<1>1. Faithful(thread[t])'
  BY <1>0 DEF Faithful
<1>2. ASSUME NEW e, Leaves(t, e), e.models = {}, modelCache' = NoModels,
             e.present \/ current' = 0
      PROVE  SettledInv'
  <2>1. /\ entry' = e /\ settled'.entry = e
        /\ \A u \in Threads \ {t} : thread[u].pc \in Out
    BY <1>2, NotSettled DEF Leaves
  <2>2. \A u \in Threads : thread'[u].pc \in Out
    BY <1>0, <2>1 DEF Others, GoesOn, Same
  <2>3. \A u \in Threads : Faithful(thread[u])'
    BY <2>2 DEF Faithful
  <2>4. Agrees(entry)' /\ ~modelCache'.known /\ (~settled'.entry.present => current' = 0)
    BY <1>2, <2>1 DEF Agrees, NoModels
  <2> HIDE DEF Out, Surveying, Agrees
  <2> QED BY <2>2, <2>3, <2>4 DEF SettledInv
<1>3. CASE Enter(t)
  <2>1. Leaves(t, origin) /\ origin.present /\ modelCache' = NoModels /\ origin.models = {}
    BY <1>0, <1>3 DEF Enter, TypeInv, TypeOK
  <2> QED BY <1>2, <2>1
<1>4. CASE Clear(t)
  <2>1. Leaves(t, NoEntry) /\ current' = 0 /\ modelCache' = NoModels /\ NoEntry.models = {}
    BY <1>4 DEF Clear, Disposed, NoEntry
  <2> HIDE DEF NoEntry
  <2> QED BY <1>2, <2>1
<1>5. CASE UNCHANGED <<entry, settled, modelCache, current>>
  <2>1. ASSUME NEW u \in Threads \ {t} PROVE Faithful(thread[u])'
    <3>1. Faithful(thread[u]) /\ GoesOn(u)
      BY <1>0, <1>5 DEF IInv, SettledInv, Others
    <3> QED BY <1>0, <1>5, <3>1 DEF Faithful, GoesOn, Same, Agrees
  <2>2. \A u \in Threads : thread[u].pc \in Out => thread'[u].pc \in Out
    BY <1>0 DEF Others, GoesOn, Same
  <2> HIDE DEF Out, Surveying
  <2> QED BY <1>1, <1>5, <2>1, <2>2 DEF IInv, SettledInv, Agrees
<1>6. Enter(t) \/ Clear(t) \/ UNCHANGED <<entry, settled, modelCache, current>>
  BY DEF Surveys, Survey, Scan, Mark, Lookup, Arrive
<1> QED BY <1>3, <1>4, <1>5, <1>6

LEMMA SettledAdmin ==
  ASSUME IInv, Administer PROVE SettledInv'
<1> SUFFICES ASSUME settled'.known PROVE SettledInv'
  BY DEF SettledInv
<1>0. /\ TypeInv /\ TypeOK /\ entry \in Entry /\ UNCHANGED builder
      /\ \A u \in Threads : GoesOn(u)
  BY AdminKeeps DEF IInv, TypeInv, TypeOK
<1>1. ASSUME ~InFlight
      PROVE  \A u \in Threads : thread'[u].pc = "idle" /\ Faithful(thread[u])'
  BY <1>0, <1>1 DEF InFlight, At, GoesOn, Same, Faithful
<1>2. ASSUME NEW apps \in Apps, NEW enabled \in BOOLEAN, Register(apps, enabled)
      PROVE  SettledInv'
  <2>1. /\ entry' = [present |-> TRUE, enabled |-> enabled, apps |-> apps, models |-> {}]
        /\ settled'.entry = [entry' EXCEPT !.models = {}] /\ modelCache' = NoModels /\ ~InFlight
    BY <1>2, NotSettled DEF Register, Decides
  <2> QED BY <1>1, <2>1 DEF SettledInv, Agrees, NoModels
<1>3. CASE Switch
  <2> DEFINE enabled == ~entry.enabled
  <2>1. /\ entry' = [entry EXCEPT !.enabled = enabled] /\ entry.present
        /\ settled'.entry = [entry' EXCEPT !.models = {}]
        /\ settled.known /\ ~InFlight /\ UNCHANGED <<modelCache, current>>
    BY <1>3, NotSettled DEF Switch, Decides
  <2>2. /\ entry'.present /\ entry'.apps = entry.apps /\ entry'.models = entry.models
        /\ settled'.entry.present /\ settled'.entry.apps = entry.apps
        /\ settled'.entry.enabled = entry'.enabled
    <3> HIDE DEF enabled
    <3> QED BY <1>0, <2>1 DEF Entry
  <2>3. /\ settled.entry.apps = entry.apps /\ entry.models \in {{}, Discovered(settled.entry.apps)}
        /\ modelCache.known => Discovered(modelCache.list) = Discovered(settled.entry.apps)
    BY <2>1 DEF IInv, SettledInv, Agrees
  <2> HIDE DEF enabled
  <2> QED BY <1>1, <2>1, <2>2, <2>3 DEF SettledInv, Agrees
<1>4. CASE Unregister \/ ClearAll
  <2>1. /\ entry' = NoEntry /\ settled'.entry = [NoEntry EXCEPT !.models = {}]
        /\ modelCache' = NoModels /\ ~InFlight /\ current' = 0
    <3>1. Decides(NoEntry, TRUE) /\ Disposed /\ modelCache' = NoModels
      BY <1>4 DEF Unregister, ClearAll
    <3> HIDE DEF NoEntry
    <3> QED BY <3>1, NotSettled DEF Decides, Disposed
  <2> QED BY <1>1, <2>1 DEF SettledInv, Agrees, NoModels, NoEntry, Out
<1>6. CASE UnregisterOther
  BY <1>6 DEF UnregisterOther, IInv, SettledInv, Agrees, Faithful
<1>5. CASE ClearBuilders
  <2>1. current' = 0 /\ UNCHANGED <<entry, settled, modelCache>>
    BY <1>5 DEF ClearBuilders, Disposed
  <2>2. /\ Agrees(entry) /\ (~settled.entry.present => \A u \in Threads : thread[u].pc \in Out)
        /\ modelCache.known => Discovered(modelCache.list) = Discovered(settled.entry.apps)
    BY <2>1 DEF IInv, SettledInv
  <2>3. ASSUME NEW u \in Threads PROVE Faithful(thread[u])'
    <3>1. Faithful(thread[u]) /\ GoesOn(u)
      BY <1>0, <2>1 DEF IInv, SettledInv
    <3> QED BY <1>0, <2>1, <3>1 DEF Faithful, GoesOn, Same, Agrees
  <2> QED BY <1>0, <2>1, <2>2, <2>3 DEF SettledInv, Agrees, GoesOn, Same
<1> QED BY <1>2, <1>3, <1>4, <1>5, <1>6 DEF Administer

LEMMA SettledStep == IInv /\ [Next]_vars => IInv'
<1>1. CASE UNCHANGED vars
  BY <1>1, TypeStep DEF vars, IInv, SettledInv, Faithful, Agrees
<1> QED BY <1>1, TypeStep, SettledThread, SettledSurvey, SettledAdmin DEF Next, IInv

\* What an administrator decided, or the discovery of all schemas has found,
\* while no call was in progress stands until the next decision or discovery,
\* however many requests and builds follow and whichever of them fail.
THEOREM AdministratorsDecide == Spec => []DecisionsStand
<1>1. IInv => DecisionsStand
  BY DEF IInv, SettledInv, DecisionsStand, Agrees
<1> QED BY <1>1, SettledInit, SettledStep, PTL DEF Spec
=============================================================================
