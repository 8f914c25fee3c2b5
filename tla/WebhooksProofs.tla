--------------------------- MODULE WebhooksProofs ---------------------------
(***************************************************************************)
(* Theorems about Webhooks, for any endpoints, retries, workers and saves. *)
(***************************************************************************)
EXTENDS Webhooks, TLAPS, SequenceTheorems, FiniteSetTheorems

\* The part of the types that the proof needs.
Types ==
  /\ memory \in 0 .. MaxSaves
  /\ hooks \in Seq(Saves)
  /\ savepoint \in Nat
  /\ tx \in Transactions
  /\ committed \subseteq Saves
  /\ target \in 0 .. Len(Endpoints)
  /\ target > 0 => payload \in Saves
  /\ pool \in Seq(Delivery)
  /\ active \subseteq Delivery
  /\ received \in [Saves \X Places -> [Saves -> Nat]]

\* The callbacks wait in the order of their saves, those being dispatched are
\* of a committed transaction.
HooksInv ==
  /\ \A i \in DOMAIN hooks : hooks[i] <= memory
  /\ \A i, j \in DOMAIN hooks : i < j => hooks[i] < hooks[j]
  /\ tx = "dispatching" => \A i \in DOMAIN hooks : hooks[i] \in committed
  /\ target > 0 => tx = "dispatching" /\ hooks # << >>
  /\ savepoint # NoSavepoint => tx = "open" /\ savepoint <= Len(hooks)

\* Event e with data d waits for a worker, is being delivered, or was received.
Waiting(e, d) == \E i \in DOMAIN pool : pool[i].event = e /\ pool[i].data = d
Active(e, d) == \E x \in active : x.event = e /\ x.data = d
Received(e, d) == \E p \in Places : received[<<e, p>>][d] > 0
Carried(e, d) == Waiting(e, d) \/ Active(e, d) \/ Received(e, d)

\* An event on its way is committed and dispatched before the callbacks that
\* still wait, and all its deliveries carry the payload built once.
CarriedInv ==
  \A e, d \in Saves : Carried(e, d) =>
    /\ tx # "open" /\ e \in committed
    /\ \A i \in DOMAIN hooks :
         e < hooks[i] \/ (i = 1 /\ e = hooks[1] /\ target > 0 /\ d = payload)
    /\ \A c \in Saves : Carried(e, c) => c = d

IInv == Types /\ HooksInv /\ CarriedInv
-----------------------------------------------------------------------------
LEMMA Numbers ==
  ASSUME Types
  PROVE  /\ MaxSaves \in Nat /\ MaxAttempts \in Nat \ {0} /\ Endpoints \in Seq(STRING)
         /\ NoSavepoint \in Nat
         /\ Len(Endpoints) > 0
         /\ Len(Endpoints) \in Nat /\ Places = 1 .. Len(Endpoints)
         /\ \A e \in Saves : e \in Nat /\ e > 0
         /\ Len(hooks) \in Nat /\ DOMAIN hooks = 1 .. Len(hooks)
         /\ \A i \in DOMAIN hooks : i \in Nat /\ hooks[i] \in Saves
         /\ Len(pool) \in Nat /\ DOMAIN pool = 1 .. Len(pool)
         /\ memory \in Nat
<1>1. MaxSaves \in Nat /\ MaxAttempts \in Nat \ {0} /\ Endpoints \in Seq(STRING)
  BY BoundsAssumption, EndpointsAssumption DEF MaxAttempts
<1>3. Len(Endpoints) > 0 /\ NoSavepoint \in Nat
  BY BoundsAssumption, EndpointsAssumption DEF NoSavepoint
<1>2. Len(Endpoints) \in Nat /\ Places = 1 .. Len(Endpoints)
  BY <1>1 DEF Places
<1> QED
  BY <1>1, <1>2, <1>3 DEF Types, Saves

LEMMA InitIInv == Init => IInv
<1> SUFFICES ASSUME Init PROVE IInv
  OBVIOUS
<1>1. Endpoints \in Seq(STRING) /\ MaxSaves \in Nat
  BY EndpointsAssumption, BoundsAssumption
<1>2. Types
  BY <1>1 DEF Init, Types, NoSavepoint, Transactions
<1>3. HooksInv
  BY DEF Init, HooksInv
<1>4. \A e, d \in Saves : ~Carried(e, d)
  <2>1. pool = << >> /\ active = {}
    BY DEF Init
  <2>2. \A e, d \in Saves : \A p \in Places : ~(received[<<e, p>>][d] > 0)
    <3> SUFFICES ASSUME NEW e \in Saves, NEW d \in Saves, NEW p \in Places
                 PROVE  ~(received[<<e, p>>][d] > 0)
      OBVIOUS
    <3>1. <<e, p>> \in Saves \X Places
      OBVIOUS
    <3>2. received[<<e, p>>] = [c \in Saves |-> 0]
      BY <3>1 DEF Init
    <3> QED
      BY <3>2
  <2>3. \A e, d \in Saves : ~Received(e, d)
    BY <2>2 DEF Received
  <2>4. \A e, d \in Saves : ~Waiting(e, d)
    BY <2>1 DEF Waiting
  <2>5. \A e, d \in Saves : ~Active(e, d)
    BY <2>1 DEF Active
  <2> QED
    BY <2>3, <2>4, <2>5 DEF Carried
<1> QED
  BY <1>2, <1>3, <1>4 DEF IInv, CarriedInv
-----------------------------------------------------------------------------
\* A queue of callbacks without its first one.
LEMMA Shorter ==
  ASSUME Types, HooksInv, hooks # << >>
  PROVE  /\ Tail(hooks) \in Seq(Saves) /\ 1 \in DOMAIN hooks /\ Event = hooks[1]
         /\ hooks[1] \in Saves
         /\ \A i \in DOMAIN Tail(hooks) : /\ i + 1 \in DOMAIN hooks /\ i \in Nat
                                          /\ Tail(hooks)[i] = hooks[i + 1]
                                          /\ hooks[1] < Tail(hooks)[i]
         /\ \A i, j \in DOMAIN Tail(hooks) : i < j => Tail(hooks)[i] < Tail(hooks)[j]
<1>1. /\ hooks \in Seq(Saves) /\ Len(hooks) \in Nat \ {0}
      /\ DOMAIN hooks = 1 .. Len(hooks)
  BY DEF Types
<1>2. /\ Tail(hooks) \in Seq(Saves) /\ 1 \in DOMAIN hooks /\ Head(hooks) = hooks[1]
      /\ DOMAIN Tail(hooks) = 1 .. Len(hooks) - 1
      /\ \A i \in DOMAIN Tail(hooks) : /\ i + 1 \in DOMAIN hooks /\ i \in Nat
                                       /\ Tail(hooks)[i] = hooks[i + 1]
  BY <1>1
<1>3. \A i \in DOMAIN Tail(hooks) : hooks[1] < Tail(hooks)[i]
  BY <1>1, <1>2 DEF HooksInv
<1>4. \A i, j \in DOMAIN Tail(hooks) : i < j => Tail(hooks)[i] < Tail(hooks)[j]
  BY <1>1, <1>2 DEF HooksInv
<1> QED
  BY <1>1, <1>2, <1>3, <1>4, Numbers DEF Event

\* The transaction: nothing is on its way before it ends.
LEMMA TransactionSteps ==
  ASSUME IInv, Save \/ BeginSavepoint \/ EndSavepoint \/ Commit \/ Rollback PROVE IInv'
<1>1. /\ tx = "open" /\ UNCHANGED <<target, payload, pool, active, received>>
      /\ ~(target > 0) /\ \A e, d \in Saves : ~Carried(e, d)
  BY DEF Save, BeginSavepoint, EndSavepoint, Commit, Rollback, Deliveries, IInv, HooksInv,
         CarriedInv
<1>2. CarriedInv'
  <2>1. \A e, d \in Saves : ~Carried(e, d)'
    BY <1>1 DEF Carried, Waiting, Active, Received
  <2> QED
    BY <2>1 DEF CarriedInv
<1>3. CASE Save
  <2>1. /\ hooks \in Seq(Saves) /\ memory + 1 \in Saves /\ memory \in Nat
        /\ Len(hooks) \in Nat /\ DOMAIN hooks = 1 .. Len(hooks)
        /\ \A i \in DOMAIN hooks : hooks[i] \in Nat
    BY <1>3, Numbers DEF Save, IInv, Types, Saves
  <2>2. /\ memory' = memory + 1 /\ hooks' = Append(hooks, memory + 1)
        /\ UNCHANGED <<savepoint, tx, committed>>
    BY <1>3 DEF Save
  <2>3. /\ hooks' \in Seq(Saves) /\ Len(hooks') = Len(hooks) + 1
        /\ \A i \in DOMAIN hooks' : i \in Nat /\
             \/ i \in DOMAIN hooks /\ hooks'[i] = hooks[i]
             \/ i = Len(hooks) + 1 /\ hooks'[i] = memory + 1
    BY <2>1, <2>2
  <2>4. Types'
    BY <1>1, <2>1, <2>2, <2>3 DEF IInv, Types, Saves
  <2>5. HooksInv'
    <3>1. savepoint' # NoSavepoint => savepoint' <= Len(hooks')
      BY <2>1, <2>2, <2>3 DEF IInv, Types, HooksInv
    <3> QED
      BY <1>1, <2>1, <2>2, <2>3, <3>1 DEF IInv, HooksInv
  <2> QED
    BY <1>2, <2>4, <2>5 DEF IInv
<1>4. CASE EndSavepoint
  <2>1. UNCHANGED <<memory, tx, committed>> /\ savepoint' = NoSavepoint /\ NoSavepoint \in Nat
    BY <1>4, BoundsAssumption DEF EndSavepoint, NoSavepoint
  <2>2. /\ hooks' \in Seq(Saves)
        /\ \A i \in DOMAIN hooks' : i \in DOMAIN hooks /\ hooks'[i] = hooks[i]
    <3>1. CASE hooks' = hooks
      BY <3>1 DEF IInv, Types
    <3>2. CASE hooks' = SubSeq(hooks, 1, savepoint)
      <4>1. savepoint <= Len(hooks)
        BY <1>4 DEF EndSavepoint, IInv, HooksInv
      <4>2. /\ hooks \in Seq(Saves) /\ Len(hooks) \in Nat /\ savepoint \in Nat
            /\ DOMAIN hooks = 1 .. Len(hooks)
        BY Numbers DEF IInv, Types
      <4>3. \A i \in 1 .. savepoint : hooks[i] \in Saves
        BY <4>1, <4>2
      <4> QED
        BY <3>2, <4>1, <4>2, <4>3, SubSeqProperties
    <3> QED
      BY <1>4, <3>1, <3>2 DEF EndSavepoint
  <2>3. Types'
    BY <1>1, <2>1, <2>2 DEF IInv, Types
  <2>4. HooksInv'
    BY <1>1, <2>1, <2>2 DEF IInv, HooksInv
  <2> QED
    BY <1>2, <2>3, <2>4 DEF IInv
<1>5. CASE BeginSavepoint \/ Commit
  <2>1. UNCHANGED <<memory, hooks>> /\ savepoint' \in Nat
    BY <1>5, Numbers DEF BeginSavepoint, Commit, IInv, Types
  <2>2. Types'
    BY <1>1, <1>5, <2>1, Numbers DEF BeginSavepoint, Commit, IInv, Types, Transactions
  <2>3. HooksInv'
    BY <1>1, <1>5, <2>1, Numbers DEF BeginSavepoint, Commit, IInv, HooksInv
  <2> QED
    BY <1>2, <2>2, <2>3 DEF IInv
<1>6. CASE Rollback
  <2>1. Types'
    BY <1>1, <1>6, BoundsAssumption DEF Rollback, IInv, Types, Transactions, NoSavepoint
  <2>2. HooksInv'
    BY <1>1, <1>6, Numbers DEF Rollback, IInv, HooksInv
  <2> QED
    BY <1>2, <2>1, <2>2 DEF IInv
<1> QED
  BY <1>3, <1>4, <1>5, <1>6
-----------------------------------------------------------------------------
\* Steps that carry nothing new and leave the dispatching thread where it is.
LEMMA NothingNew ==
  ASSUME IInv, UNCHANGED <<memory, hooks, savepoint, committed, target, payload>>,
         tx' \in Transactions, tx # "open" <=> tx' # "open",
         tx' = "dispatching" => tx = "dispatching",
         target > 0 => tx' = tx,
         pool' \in Seq(Delivery), active' \subseteq Delivery,
         received' \in [Saves \X Places -> [Saves -> Nat]],
         \A e, d \in Saves : Carried(e, d)' => Carried(e, d)
  PROVE  IInv'
<1>1. Types' /\ HooksInv'
  BY DEF IInv, Types, HooksInv
<1>2. CarriedInv'
  BY DEF IInv, CarriedInv
<1> QED
  BY <1>1, <1>2 DEF IInv

\* A worker takes a delivery from the pool.
LEMMA BeginStep == ASSUME IInv, Begin PROVE IInv'
<1>1. /\ pool \in Seq(Delivery) /\ pool # << >> /\ Len(pool) \in Nat \ {0}
      /\ DOMAIN pool = 1 .. Len(pool)
  BY DEF Begin, IInv, Types
<1>2. /\ Tail(pool) \in Seq(Delivery) /\ Head(pool) \in Delivery /\ Head(pool) = pool[1]
      /\ 1 \in DOMAIN pool
      /\ \A i \in DOMAIN Tail(pool) : i + 1 \in DOMAIN pool /\ Tail(pool)[i] = pool[i + 1]
  BY <1>1
<1>3. /\ UNCHANGED <<memory, hooks, savepoint, committed, target, payload, tx, received>>
      /\ active' = active \cup {pool[1]} /\ pool' = Tail(pool)
  BY <1>2 DEF Begin, Source
<1>4. \A e, d \in Saves : Carried(e, d)' => Carried(e, d)
  BY <1>2, <1>3 DEF Carried, Waiting, Active, Received
<1> QED
  BY <1>2, <1>3, <1>4, NothingNew DEF IInv, Types

\* An attempt: what the receiver gets was on its way.
LEMMA DeliverStep == ASSUME IInv, NEW x \in active, Deliver(x) PROVE IInv'
<1>1. /\ UNCHANGED <<memory, hooks, savepoint, committed, target, payload, tx, pool>>
      /\ Accepts(x) \/ UNCHANGED received
      /\ x.attempt < MaxAttempts
  BY DEF Deliver, Settle, Retry, Source
<1>2. x \in Delivery /\ x.event \in Saves /\ x.data \in Saves /\ x.place \in Places
  BY DEF IInv, Types, Delivery
<1>3. \/ active' = active \ {x}
      \/ active' = (active \ {x}) \cup {[x EXCEPT !.attempt = @ + 1]}
  BY DEF Deliver, Settle, Retry, End, Again
<1>4. /\ [x EXCEPT !.attempt = @ + 1] \in Delivery
      /\ [x EXCEPT !.attempt = @ + 1].event = x.event
      /\ [x EXCEPT !.attempt = @ + 1].data = x.data
  <2>1. x.attempt \in Nat /\ x.attempt + 1 \in 0 .. MaxAttempts
    BY <1>1, <1>2, Numbers DEF Delivery, IInv
  <2> QED
    BY <1>2, <2>1 DEF Delivery
<1>5. active' \subseteq Delivery /\ \A e, d \in Saves : Active(e, d)' => Active(e, d)
  BY <1>3, <1>4 DEF IInv, Types, Active
<1>6. /\ received' \in [Saves \X Places -> [Saves -> Nat]]
      /\ \A e, d \in Saves : Received(e, d)' => Received(e, d) \/ (e = x.event /\ d = x.data)
  <2>1. CASE UNCHANGED received
    BY <2>1 DEF IInv, Types, Received
  <2>2. CASE Accepts(x)
    <3> DEFINE k == Key(x)  new == [received[k] EXCEPT ![x.data] = received[k][x.data] + 1]
    <3>1. k \in Saves \X Places /\ received \in [Saves \X Places -> [Saves -> Nat]]
      BY <1>2 DEF Key, IInv, Types
    <3>2. new \in [Saves -> Nat] /\ \A d \in Saves : d # x.data => new[d] = received[k][d]
      BY <1>2, <3>1
    <3>3. received' = [received EXCEPT ![k] = new]
      BY <2>2 DEF Accepts
    <3>4. k = <<x.event, x.place>>
      BY DEF Key
    <3> HIDE DEF k, new
    <3>5. received' \in [Saves \X Places -> [Saves -> Nat]]
      BY <3>1, <3>2, <3>3
    <3>6. ASSUME NEW e \in Saves, NEW d \in Saves, NEW p \in Places, received'[<<e, p>>][d] > 0
          PROVE  received[<<e, p>>][d] > 0 \/ (e = x.event /\ d = x.data)
      <4>1. CASE <<e, p>> = k
        <5>1. received'[<<e, p>>] = new
          BY <3>1, <3>3, <4>1
        <5>2. e = x.event
          BY <3>4, <4>1
        <5> QED
          BY <3>2, <3>6, <4>1, <5>1, <5>2
      <4>2. CASE <<e, p>> # k
        BY <3>1, <3>3, <3>6, <4>2
      <4> QED
        BY <4>1, <4>2
    <3> QED
      BY <3>5, <3>6 DEF Received
  <2> QED
    BY <1>1, <2>1, <2>2
<1>7. \A e, d \in Saves : Carried(e, d)' => Carried(e, d)
  BY <1>1, <1>5, <1>6 DEF Carried, Waiting, Active
<1> QED
  BY <1>1, <1>5, <1>6, <1>7, NothingNew DEF IInv, Types

\* The process dies: what was received stays received.
LEMMA CrashStep == ASSUME IInv, Crash PROVE IInv'
<1>1. Types'
  BY Numbers DEF Crash, IInv, Types, Transactions, NoSavepoint
<1>2. HooksInv'
  BY DEF Crash, HooksInv
<1>3. \A e, d \in Saves : Carried(e, d)' => Carried(e, d)
  <2>1. pool' = << >> /\ active' = {} /\ UNCHANGED received
    BY DEF Crash
  <2>2. \A e, d \in Saves : ~Waiting(e, d)' /\ ~Active(e, d)'
    BY <2>1 DEF Waiting, Active
  <2>3. \A e, d \in Saves : Received(e, d)' => Received(e, d)
    BY <2>1 DEF Received
  <2> QED
    BY <2>2, <2>3 DEF Carried
<1>4. CarriedInv'
  BY <1>3 DEF Crash, IInv, CarriedInv
<1> QED
  BY <1>1, <1>2, <1>4 DEF IInv
-----------------------------------------------------------------------------
(* The dispatching thread *)

\* The loop goes on, to the next endpoint or the next event, after handing at
\* most the payload of the current event to somebody.
LEMMA TurnKeeps ==
  ASSUME IInv, tx = "dispatching", target > 0, UNCHANGED <<memory, savepoint, tx, committed>>,
         \/ hooks' = Tail(hooks) /\ target' = 0
         \/ UNCHANGED <<hooks, payload>> /\ target' = target + 1 /\ target < Len(Endpoints),
         pool' \in Seq(Delivery), active' \subseteq Delivery, UNCHANGED received,
         \A e, d \in Saves : Carried(e, d)' => Carried(e, d) \/ (e = Event /\ d = payload)
  PROVE  IInv'
<1>1. /\ hooks # << >> /\ payload \in Saves /\ target \in Nat /\ Len(Endpoints) \in Nat
  BY Numbers DEF IInv, Types, HooksInv
<1>2. /\ Tail(hooks) \in Seq(Saves) /\ 1 \in DOMAIN hooks /\ Event = hooks[1]
      /\ hooks[1] \in Saves
      /\ \A i \in DOMAIN Tail(hooks) : /\ i + 1 \in DOMAIN hooks /\ i \in Nat
                                       /\ Tail(hooks)[i] = hooks[i + 1]
                                       /\ hooks[1] < Tail(hooks)[i]
      /\ \A i, j \in DOMAIN Tail(hooks) : i < j => Tail(hooks)[i] < Tail(hooks)[j]
  BY <1>1, Shorter DEF IInv
<1>3. Types'
  <2>1. target' \in 0 .. Len(Endpoints) /\ (target' > 0 => payload' \in Saves)
    BY <1>1
  <2>2. hooks' \in Seq(Saves)
    BY <1>2 DEF IInv, Types
  <2> QED
    BY <2>1, <2>2 DEF IInv, Types
<1>4. HooksInv'
  <2>1. CASE hooks' = Tail(hooks) /\ target' = 0
    BY <1>2, <2>1 DEF IInv, HooksInv
  <2>2. CASE UNCHANGED hooks
    BY <1>1, <2>2 DEF IInv, HooksInv
  <2> QED
    BY <2>1, <2>2
<1>5. \A e, d \in Saves : Carried(e, d)' =>
        /\ e \in committed
        /\ \A i \in DOMAIN hooks : e < hooks[i] \/ (i = 1 /\ e = hooks[1] /\ d = payload)
  <2> SUFFICES ASSUME NEW e \in Saves, NEW d \in Saves, Carried(e, d)'
               PROVE  /\ e \in committed
                      /\ \A i \in DOMAIN hooks :
                           e < hooks[i] \/ (i = 1 /\ e = hooks[1] /\ d = payload)
    OBVIOUS
  <2>1. CASE Carried(e, d)
    BY <2>1 DEF IInv, CarriedInv
  <2>2. CASE e = hooks[1] /\ d = payload
    <3>1. \A i \in DOMAIN hooks : i = 1 \/ hooks[1] < hooks[i]
      <4> SUFFICES ASSUME NEW i \in DOMAIN hooks, i # 1 PROVE hooks[1] < hooks[i]
        OBVIOUS
      <4>1. 1 < i
        BY Numbers DEF IInv
      <4> QED
        BY <1>2, <4>1 DEF IInv, HooksInv
    <3> QED
      BY <1>2, <2>2, <3>1 DEF IInv, HooksInv
  <2> QED
    BY <1>2, <2>1, <2>2
<1>6. \A e, d, c \in Saves : Carried(e, d)' /\ Carried(e, c)' => c = d
  <2> SUFFICES ASSUME NEW e \in Saves, NEW d \in Saves, NEW c \in Saves,
                      Carried(e, d)', Carried(e, c)'
               PROVE  c = d
    OBVIOUS
  <2>1. CASE e = hooks[1]
    <3>1. ~(hooks[1] < hooks[1])
      BY <1>2, Numbers DEF IInv
    <3> QED
      BY <1>2, <1>5, <2>1, <3>1
  <2>2. CASE e # hooks[1]
    BY <1>2, <2>2 DEF IInv, CarriedInv
  <2> QED
    BY <2>1, <2>2
<1>7. CarriedInv'
  <2> SUFFICES ASSUME NEW e \in Saves, NEW d \in Saves, Carried(e, d)'
               PROVE  \A i \in DOMAIN hooks' :
                        \/ e < hooks'[i]
                        \/ i = 1 /\ e = hooks'[1] /\ target' > 0 /\ d = payload'
    BY <1>5, <1>6 DEF CarriedInv
  <2>1. CASE hooks' = Tail(hooks)
    <3> SUFFICES ASSUME NEW i \in DOMAIN Tail(hooks) PROVE e < Tail(hooks)[i]
      BY <2>1
    <3>1. i + 1 \in DOMAIN hooks /\ i + 1 # 1 /\ Tail(hooks)[i] = hooks[i + 1]
      BY <1>2, Numbers DEF IInv
    <3> QED
      BY <1>5, <3>1
  <2>2. CASE UNCHANGED <<hooks, payload>> /\ target' = target + 1
    BY <1>1, <1>5, <2>2
  <2> QED
    BY <2>1, <2>2
<1> QED
  BY <1>3, <1>4, <1>7 DEF IInv

\* Building the payload of the next event, or dropping it.
LEMMA BuildStep == ASSUME IInv, Build PROVE IInv'
<1>1. /\ tx = "dispatching" /\ hooks # << >> /\ target = 0
      /\ UNCHANGED <<memory, savepoint, tx, committed, pool, active, received>>
  BY DEF Build
<1>2. \A e, d \in Saves : Carried(e, d)' <=> Carried(e, d)
  BY <1>1 DEF Carried, Waiting, Active, Received
<1>3. \A e, d \in Saves : Carried(e, d) => \A i \in DOMAIN hooks : e < hooks[i]
  BY <1>1 DEF IInv, CarriedInv
<1>4. /\ Tail(hooks) \in Seq(Saves) /\ 1 \in DOMAIN hooks /\ hooks[1] \in Saves
      /\ \A i \in DOMAIN Tail(hooks) : /\ i + 1 \in DOMAIN hooks /\ i \in Nat
                                       /\ Tail(hooks)[i] = hooks[i + 1]
      /\ \A i, j \in DOMAIN Tail(hooks) : i < j => Tail(hooks)[i] < Tail(hooks)[j]
  BY <1>1, Shorter DEF IInv
<1>5. CASE target' = 1 /\ payload' = memory /\ UNCHANGED hooks
  <2>1. memory \in Saves
    BY <1>4, Numbers DEF IInv, HooksInv, Types, Saves
  <2>2. target' \in 0 .. Len(Endpoints)
    BY <1>5, Numbers DEF IInv
  <2> QED
    BY <1>1, <1>2, <1>3, <1>5, <2>1, <2>2 DEF IInv, Types, HooksInv, CarriedInv
<1>6. CASE UNCHANGED <<target, payload>> /\ hooks' = Tail(hooks)
  <2>1. Types' /\ HooksInv'
    BY <1>1, <1>4, <1>6 DEF IInv, Types, HooksInv
  <2>2. CarriedInv'
    BY <1>1, <1>2, <1>3, <1>4, <1>6 DEF IInv, CarriedInv
  <2> QED
    BY <2>1, <2>2 DEF IInv
<1> QED
  BY <1>5, <1>6 DEF Build

\* One turn of the loop over the endpoints, or the exception that ends it.
LEMMA TurnSteps == ASSUME IInv, Skip \/ Inline \/ Submit \/ Handle \/ Raise PROVE IInv'
<1>1. /\ tx = "dispatching" /\ target > 0
      /\ UNCHANGED <<memory, savepoint, tx, committed, received>>
      /\ \/ hooks' = Tail(hooks) /\ target' = 0
         \/ UNCHANGED <<hooks, payload>> /\ target' = target + 1 /\ target < Len(Endpoints)
  <2>1. target \in 0 .. Len(Endpoints) /\ Len(Endpoints) \in Nat
    BY Numbers DEF IInv, Types
  <2>2. CASE Turn
    BY <2>1, <2>2 DEF Turn, Onward
  <2>3. CASE Raise
    BY <2>3 DEF Raise
  <2> QED
    BY <2>2, <2>3 DEF Skip, Inline, Submit, Handle
<1> DEFINE Good(x) == x \in Delivery /\ x.event = Event /\ x.data = payload
<1>2. Good(New(TRUE, 1)) /\ Good(New(FALSE, 1)) /\ Good(New(FALSE, 2))
  <2>1. Event \in Saves
    BY <1>1, Shorter DEF IInv, HooksInv
  <2>2. target \in Places /\ payload \in Saves /\ 0 \in 0 .. MaxAttempts
    BY <1>1, Numbers DEF IInv, Types
  <2> QED
    BY <2>1, <2>2 DEF New, Delivery
<1>3. CASE UNCHANGED <<pool, active>>
  <2>1. \A e, d \in Saves : Carried(e, d)' => Carried(e, d)
    BY <1>1, <1>3 DEF Carried, Waiting, Active, Received
  <2> QED
    BY <1>1, <1>3, <2>1, TurnKeeps DEF IInv, Types
<1>4. CASE Inline
  <2> DEFINE x == New(TRUE, 1)
  <2>1. UNCHANGED pool /\ active' = active \cup {x} /\ Good(x)
    BY <1>2, <1>4 DEF Inline
  <2> HIDE DEF x
  <2>2. \A e, d \in Saves : Carried(e, d)' => Carried(e, d) \/ (e = Event /\ d = payload)
    BY <1>1, <2>1 DEF Carried, Waiting, Active, Received
  <2> QED
    BY <1>1, <2>1, <2>2, TurnKeeps DEF IInv, Types
<1>5. ASSUME UNCHANGED active, NEW more \in Seq(Delivery), pool' = pool \o more,
             \A i \in DOMAIN more : more[i].event = Event /\ more[i].data = payload
      PROVE  IInv'
  <2>1. pool \in Seq(Delivery)
    BY DEF IInv, Types
  <2>2. pool' \in Seq(Delivery)
    BY <1>5, <2>1, ConcatProperties
  <2>3. \A i \in DOMAIN pool' : \/ i \in DOMAIN pool /\ pool'[i] = pool[i]
                                \/ \E j \in DOMAIN more : pool'[i] = more[j]
    <3>1. /\ Len(pool \o more) = Len(pool) + Len(more) /\ Len(pool) \in Nat /\ Len(more) \in Nat
          /\ \A i \in 1 .. Len(pool) + Len(more) : (pool \o more)[i] =
                IF i <= Len(pool) THEN pool[i] ELSE more[i - Len(pool)]
      BY <1>5, <2>1, ConcatProperties
    <3>2. \A i \in DOMAIN pool' : i \in 1 .. Len(pool) + Len(more)
      BY <1>5, <2>2, <3>1
    <3>3. \A i \in 1 .. Len(pool) + Len(more) :
            i \in DOMAIN pool \/ (i > Len(pool) /\ i - Len(pool) \in DOMAIN more)
      BY <1>5, <2>1, <3>1
    <3> QED
      BY <1>5, <2>1, <3>1, <3>2, <3>3
  <2>4. \A e, d \in Saves : Carried(e, d)' => Carried(e, d) \/ (e = Event /\ d = payload)
    <3>1. \A e, d \in Saves : Waiting(e, d)' => Waiting(e, d) \/ (e = Event /\ d = payload)
      BY <1>5, <2>3 DEF Waiting
    <3> QED
      BY <1>1, <1>5, <3>1 DEF Carried, Active, Received
  <2> QED
    BY <1>1, <1>5, <2>2, <2>4, TurnKeeps DEF IInv, Types
<1>6. \A x, y : Good(x) /\ Good(y) =>
        /\ << x >> \in Seq(Delivery) /\ \A i \in DOMAIN << x >> : Good(<< x >>[i])
        /\ << x, y >> \in Seq(Delivery) /\ \A i \in DOMAIN << x, y >> : Good(<< x, y >>[i])
        /\ Append(pool, x) = pool \o << x >>
  <2> SUFFICES ASSUME NEW x, NEW y, Good(x), Good(y)
               PROVE  /\ << x >> \in Seq(Delivery) /\ \A i \in DOMAIN << x >> : Good(<< x >>[i])
                      /\ << x, y >> \in Seq(Delivery)
                      /\ \A i \in DOMAIN << x, y >> : Good(<< x, y >>[i])
                      /\ Append(pool, x) = pool \o << x >>
    OBVIOUS
  <2>1. Append(pool, x) = pool \o << x >>
    BY AppendIsConcat DEF IInv, Types
  <2>2. << x >> \in Seq(Delivery) /\ << x, y >> \in Seq(Delivery)
    OBVIOUS
  <2>3. DOMAIN << x >> = {1} /\ << x >>[1] = x
    OBVIOUS
  <2>4. DOMAIN << x, y >> = {1, 2} /\ << x, y >>[1] = x /\ << x, y >>[2] = y
    OBVIOUS
  <2> QED
    BY <2>1, <2>2, <2>3, <2>4
<1>7. \A more \in Seq(Delivery) :
        UNCHANGED active /\ pool' = pool \o more /\ (\A i \in DOMAIN more : Good(more[i])) => IInv'
  BY <1>5
<1>8. CASE Submit \/ Handle
  <2> DEFINE x == New(FALSE, 1)  y == New(FALSE, 2)
  <2>1. UNCHANGED active /\ (pool' = Append(pool, x) \/ pool' = pool \o << x, y >>)
    BY <1>8 DEF Submit, Handle
  <2>2. Good(x) /\ Good(y)
    BY <1>2
  <2> HIDE DEF x, y, Good
  <2> QED
    BY <1>6, <1>7, <2>1, <2>2
<1> QED
  BY <1>3, <1>4, <1>8 DEF Skip, Raise

\* The dispatch of the last event is over.
LEMMA FinishStep == ASSUME IInv, Finish PROVE IInv'
<1>1. /\ UNCHANGED <<memory, hooks, savepoint, committed, target, payload, pool, active, received>>
      /\ tx = "dispatching" /\ tx' = "done" /\ hooks = << >>
  BY DEF Finish, Deliveries
<1>2. \A e, d \in Saves : Carried(e, d)' => Carried(e, d)
  BY <1>1 DEF Carried, Waiting, Active, Received
<1>3. ~(target > 0)
  BY <1>1 DEF IInv, HooksInv
<1> QED
  BY <1>1, <1>2, <1>3, NothingNew DEF IInv, Types, Transactions

\* Every step keeps the invariant.
LEMMA Step == IInv /\ [Next]_vars => IInv'
<1> SUFFICES ASSUME IInv, [Next]_vars PROVE IInv'
  OBVIOUS
<1>1. CASE UNCHANGED vars
  <2>1. \A e, d \in Saves : Carried(e, d)' => Carried(e, d)
    BY <1>1 DEF vars, Carried, Waiting, Active, Received
  <2> QED
    BY <1>1, <2>1, NothingNew DEF vars, IInv, Types
<1>2. CASE Dispatch
  BY <1>2, BuildStep, TurnSteps, FinishStep DEF Dispatch
<1> QED
  BY <1>1, <1>2, TransactionSteps, BeginStep, CrashStep, DeliverStep DEF Next
-----------------------------------------------------------------------------
\* The inductive invariant holds in every reachable state.
THEOREM WebhookInvariant == Spec => []IInv
<1> QED
  BY InitIInv, Step, PTL DEF Spec

\* Receivers are told of committed saves only, and all deliveries of an event,
\* whichever thread made them and however often, carry the same data: the
\* payload is built once, after the commit, and no event is dispatched twice.
THEOREM ReceivedIsCommitted == Spec => []OnlyCommittedOnce
<1>1. IInv => OnlyCommittedOnce
  <2> SUFFICES ASSUME IInv, NEW e \in Saves
               PROVE  (Data(e) # {} => e \in committed) /\ Cardinality(Data(e)) <= 1
    BY DEF OnlyCommittedOnce
  <2>1. \A d \in Data(e) : d \in Saves /\ Carried(e, d)
    BY DEF Data, Carried, Received
  <2>2. Data(e) # {} => e \in committed
    BY <2>1 DEF IInv, CarriedInv
  <2>3. CASE Data(e) = {}
    BY <2>2, <2>3, FS_EmptySet
  <2>4. CASE Data(e) # {}
    <3>1. PICK d : d \in Data(e)
      BY <2>4
    <3>2. Data(e) = {d}
      BY <2>1, <3>1 DEF IInv, CarriedInv
    <3>3. Cardinality({d}) = 1
      BY FS_Singleton
    <3> QED
      BY <2>2, <3>2, <3>3
  <2> QED
    BY <2>3, <2>4
<1> QED
  BY <1>1, WebhookInvariant, PTL
-----------------------------------------------------------------------------
(* How much: deliveries under way, workers, and what one endpoint gets *)

Pending == active \cup {pool[i] : i \in DOMAIN pool}

\* The handler and its fallback make at most two deliveries of an event to an
\* endpoint; no third one has the key and the copy of one that is under way.
Same(x, y) == Key(x) = Key(y) /\ x.copy = y.copy
QueueInv ==
  /\ \A i, j \in DOMAIN pool : Same(pool[i], pool[j]) => i = j
  /\ \A x, y \in active : Same(x, y) => x = y
  /\ \A i \in DOMAIN pool, x \in active : ~Same(pool[i], x)

\* An endpoint has got the event as often as the deliveries of it that are over
\* could try, and those under way have tried.
BoundInv ==
  /\ \A k \in Saves \X Places, d \in Saves : received[k][d] <= 2 * MaxAttempts
  /\ \A x \in Pending, d \in Saves :
       /\ received[Key(x)][d] <= MaxAttempts + x.attempt
       /\ \A y \in Pending : Key(y) = Key(x) /\ y # x =>
            received[Key(x)][d] <= x.attempt + y.attempt

\* The loop over the endpoints has not come to an endpoint yet that it is still
\* to hand the event to.
FreshInv ==
  target > 0 =>
    /\ \A x \in Pending : x.event = hooks[1] => x.place < target
    /\ \A p \in Places, d \in Saves : received[<<hooks[1], p>>][d] > 0 => p < target

\* One delivery per worker, and one by the thread that dispatches.
WorkersInv ==
  /\ IsFiniteSet(active) /\ Busy <= MaxWorkers
  /\ \A i \in DOMAIN pool : ~pool[i].inline
  /\ \A x, y \in active : x.inline /\ y.inline => x = y

SizeInv ==
  /\ backend \in Backends /\ savepoint \in 0 .. NoSavepoint /\ payload \in 0 .. MaxSaves
  /\ Len(hooks) <= memory /\ over \subseteq Saves \X Places

CountInv == SizeInv /\ WorkersInv /\ QueueInv /\ BoundInv /\ FreshInv

LEMMA PendingTypes ==
  ASSUME Types
  PROVE  /\ Pending \subseteq Delivery
         /\ \A x \in Delivery : /\ x.event \in Saves /\ x.place \in Places /\ x.data \in Saves
                                /\ x.attempt \in Nat /\ x.attempt <= MaxAttempts
                                /\ x.inline \in BOOLEAN /\ x.copy \in 1 .. 2
                                /\ Key(x) = <<x.event, x.place>> /\ Key(x) \in Saves \X Places
<1>1. \A i \in DOMAIN pool : pool[i] \in Delivery
  BY DEF Types
<1>2. Pending \subseteq Delivery
  BY <1>1 DEF Types, Pending
<1> QED
  BY <1>2, Numbers DEF Delivery, Key

LEMMA InitCountInv == Init => CountInv
<1> SUFFICES ASSUME Init PROVE CountInv
  OBVIOUS
<1>1. /\ Endpoints \in Seq(STRING) /\ MaxSaves \in Nat /\ MaxAttempts \in Nat
      /\ NoSavepoint \in Nat /\ MaxWorkers \in Nat
  BY EndpointsAssumption, BoundsAssumption DEF MaxAttempts, NoSavepoint
<1>2. pool = << >> /\ active = {} /\ hooks = << >> /\ target = 0 /\ memory = 0
  BY DEF Init
<1>3. SizeInv
  BY <1>1, <1>2 DEF Init, SizeInv
<1>4. WorkersInv
  <2>1. {d \in active : ~d.inline} = {}
    BY <1>2
  <2> QED
    BY <1>1, <1>2, <2>1, FS_EmptySet DEF WorkersInv, Busy
<1>5. QueueInv /\ FreshInv
  BY <1>2 DEF QueueInv, FreshInv
<1>6. BoundInv
  <2>1. Pending = {}
    BY <1>2 DEF Pending
  <2>2. \A k \in Saves \X Places, d \in Saves : received[k][d] = 0
    BY DEF Init
  <2> QED
    BY <1>1, <2>1, <2>2 DEF BoundInv
<1> QED
  BY <1>3, <1>4, <1>5, <1>6 DEF CountInv
-----------------------------------------------------------------------------
\* Every step keeps the sizes.
LEMMA SizeStep == ASSUME IInv, SizeInv, [Next]_vars PROVE SizeInv'
<1>1. /\ MaxSaves \in Nat /\ NoSavepoint = MaxSaves + 1 /\ memory \in 0 .. MaxSaves
      /\ hooks \in Seq(Saves) /\ Len(hooks) \in Nat /\ Len(Endpoints) \in Nat
      /\ Places = 1 .. Len(Endpoints) /\ target \in 0 .. Len(Endpoints) /\ savepoint \in Nat
  BY Numbers DEF IInv, Types, NoSavepoint
<1>2. target > 0 => hooks # << >> /\ Event \in Saves
  BY <1>1, Shorter DEF IInv, HooksInv
<1>3. hooks # << >> => Event \in Saves /\ Len(Tail(hooks)) = Len(hooks) - 1
  BY <1>1, Shorter DEF IInv
<1>4. Len(<< >>) = 0
  OBVIOUS
<1>5. CASE UNCHANGED vars
  BY <1>5 DEF vars, SizeInv
<1>6. CASE Save \/ BeginSavepoint \/ EndSavepoint \/ Commit \/ Rollback
  <2>1. CASE Save
    <3>1. Len(Append(hooks, memory + 1)) = Len(hooks) + 1
      BY <1>1
    <3> QED
      BY <1>1, <2>1, <3>1 DEF Save, SizeInv, Deliveries
  <2>2. CASE BeginSavepoint
    BY <1>1, <2>2 DEF BeginSavepoint, SizeInv, Deliveries
  <2>3. CASE EndSavepoint
    <3>1. Len(SubSeq(hooks, 1, savepoint)) <= Len(hooks)
      <4>1. savepoint <= Len(hooks)
        BY <2>3 DEF EndSavepoint, IInv, HooksInv
      <4>2. \A i \in 1 .. savepoint : hooks[i] \in Saves
        BY <1>1, <4>1
      <4>3. Len(SubSeq(hooks, 1, savepoint)) = savepoint
        BY <1>1, <4>1, <4>2, SubSeqProperties
      <4> QED
        BY <4>1, <4>3
    <3> QED
      BY <1>1, <2>3, <3>1 DEF EndSavepoint, SizeInv, Deliveries
  <2>4. CASE Commit
    BY <1>1, <2>4 DEF Commit, SizeInv, Deliveries
  <2>5. CASE Rollback
    BY <1>1, <1>4, <2>5 DEF Rollback, SizeInv, Deliveries
  <2> QED
    BY <1>6, <2>1, <2>2, <2>3, <2>4, <2>5
<1>7. CASE Build
  BY <1>1, <1>3, <1>7 DEF Build, SizeInv
<1>8. CASE Skip \/ Inline \/ Submit \/ Handle \/ Raise
  <2>1. /\ UNCHANGED <<backend, memory, savepoint>>
        /\ (hooks' = hooks /\ payload' = payload) \/ (hooks' = Tail(hooks) /\ payload' = 0)
        /\ target > 0
    BY <1>8 DEF Skip, Inline, Submit, Handle, Raise, Turn, Onward
  <2>2. over' \subseteq Saves \X Places
    <3>1. CASE Skip
      BY <1>1, <1>2, <2>1, <3>1 DEF Skip, SizeInv
    <3>2. CASE Raise
      BY <1>1, <1>2, <2>1, <3>2 DEF Raise, SizeInv
    <3> QED
      BY <1>8, <3>1, <3>2 DEF Inline, Submit, Handle, SizeInv
  <2> QED
    BY <1>1, <1>2, <1>3, <2>1, <2>2 DEF SizeInv
<1>9. CASE Finish
  BY <1>9 DEF Finish, Deliveries, SizeInv
<1>10. CASE Begin
  BY <1>10 DEF Begin, Source, SizeInv
<1>11. CASE Crash
  BY <1>1, <1>4, <1>11 DEF Crash, SizeInv
<1>12. ASSUME NEW x \in active, Deliver(x) PROVE SizeInv'
  <2>1. Key(x) \in Saves \X Places
    BY PendingTypes DEF IInv, Types
  <2>2. over' \subseteq Saves \X Places
    BY <1>12, <2>1 DEF Deliver, Settle, Retry, End, SizeInv
  <2> QED
    BY <1>12, <2>2 DEF Deliver, Settle, Retry, Source, SizeInv
<1> QED
  BY <1>5, <1>6, <1>7, <1>8, <1>9, <1>10, <1>11, <1>12 DEF Next, Dispatch
-----------------------------------------------------------------------------
\* What the pool becomes: a queue gets longer, or loses its first delivery.
LEMMA Longer ==
  ASSUME NEW S, NEW p \in Seq(S), NEW more \in Seq(S)
  PROVE  /\ p \o more \in Seq(S)
         /\ \A i \in DOMAIN (p \o more) :
              \/ i \in DOMAIN p /\ (p \o more)[i] = p[i]
              \/ /\ i \notin DOMAIN p
                 /\ \E j \in DOMAIN more : i = Len(p) + j /\ (p \o more)[i] = more[j]
<1>1. /\ p \o more \in Seq(S) /\ Len(p \o more) = Len(p) + Len(more)
      /\ Len(p) \in Nat /\ Len(more) \in Nat
      /\ \A i \in 1 .. Len(p) + Len(more) : (p \o more)[i] =
            IF i <= Len(p) THEN p[i] ELSE more[i - Len(p)]
  BY ConcatProperties
<1>2. /\ DOMAIN (p \o more) = 1 .. Len(p) + Len(more)
      /\ DOMAIN p = 1 .. Len(p) /\ DOMAIN more = 1 .. Len(more)
  BY <1>1
<1> SUFFICES ASSUME NEW i \in DOMAIN (p \o more)
             PROVE  \/ i \in DOMAIN p /\ (p \o more)[i] = p[i]
                    \/ /\ i \notin DOMAIN p
                       /\ \E j \in DOMAIN more : i = Len(p) + j /\ (p \o more)[i] = more[j]
  BY <1>1
<1>3. CASE i <= Len(p)
  BY <1>1, <1>2, <1>3
<1>4. CASE ~(i <= Len(p))
  <2>1. i - Len(p) \in DOMAIN more /\ i = Len(p) + (i - Len(p)) /\ i \notin DOMAIN p
    BY <1>1, <1>2, <1>4
  <2>2. (p \o more)[i] = more[i - Len(p)]
    BY <1>1, <1>2, <1>4
  <2> QED
    BY <2>1, <2>2
<1> QED
  BY <1>3, <1>4

LEMMA Shifted ==
  ASSUME Types, pool # << >>
  PROVE  /\ 1 \in DOMAIN pool /\ Head(pool) = pool[1] /\ Head(pool) \in Delivery
         /\ \A i \in DOMAIN Tail(pool) : /\ i \in Nat /\ i > 0 /\ i + 1 \in DOMAIN pool
                                         /\ Tail(pool)[i] = pool[i + 1]
<1>1. pool \in Seq(Delivery) /\ Len(pool) \in Nat \ {0} /\ DOMAIN pool = 1 .. Len(pool)
  BY DEF Types
<1> QED
  BY <1>1

\* What is handed over in a turn: new deliveries of the event to the endpoint.
LEMMA NewTypes ==
  ASSUME IInv, target > 0, NEW inline \in BOOLEAN, NEW copy \in 1 .. 2
  PROVE  /\ New(inline, copy) \in Delivery
         /\ New(inline, copy).attempt = 0 /\ New(inline, copy).inline = inline
         /\ New(inline, copy).copy = copy /\ Key(New(inline, copy)) = <<Event, target>>
         /\ <<Event, target>> \in Saves \X Places /\ Event = hooks[1]
         /\ New(inline, copy).event = hooks[1] /\ New(inline, copy).place = target
<1>1. Event \in Saves /\ Event = hooks[1]
  BY Shorter DEF IInv, HooksInv
<1>2. target \in Places /\ payload \in Saves /\ 0 \in 0 .. MaxAttempts
  BY Numbers DEF IInv, Types
<1> QED
  BY <1>1, <1>2 DEF New, Delivery, Key

\* A turn hands over nothing, one delivery of its own, or one or two to the pool.
LEMMA TurnPools ==
  ASSUME IInv, Submit \/ Handle
  PROVE  \E more \in Seq(Delivery) :
           /\ pool' = pool \o more
           /\ \A j \in DOMAIN more : j \in 1 .. 2 /\ more[j] = New(FALSE, j)
<1>1. target > 0 /\ pool \in Seq(Delivery)
  BY DEF Submit, Handle, Turn, IInv, Types
<1> DEFINE x == New(FALSE, 1)  y == New(FALSE, 2)  N(j) == New(FALSE, j)
<1>2. x \in Delivery /\ y \in Delivery
  <2>1. FALSE \in BOOLEAN /\ 1 \in 1 .. 2 /\ 2 \in 1 .. 2
    OBVIOUS
  <2> QED
    BY <1>1, <2>1, NewTypes
<1>3. pool' = Append(pool, x) \/ pool' = pool \o << x, y >>
  BY DEF Submit, Handle
<1>x. x = N(1) /\ y = N(2)
  OBVIOUS
<1> HIDE DEF x, y, N
<1>4. \A j \in DOMAIN << x >> : j \in 1 .. 2 /\ << x >>[j] = N(j)
  <2>1. DOMAIN << x >> = {1} /\ << x >>[1] = x
    OBVIOUS
  <2> QED
    BY <1>x, <2>1
<1>5. \A j \in DOMAIN << x, y >> : j \in 1 .. 2 /\ << x, y >>[j] = N(j)
  <2>1. DOMAIN << x, y >> = {1, 2} /\ << x, y >>[1] = x /\ << x, y >>[2] = y
    OBVIOUS
  <2> QED
    BY <1>x, <2>1
<1>6. Append(pool, x) = pool \o << x >>
  BY <1>1, <1>2, AppendIsConcat
<1>7. << x >> \in Seq(Delivery) /\ << x, y >> \in Seq(Delivery)
  BY <1>2
<1>8. \E more \in Seq(Delivery) :
        pool' = pool \o more /\ \A j \in DOMAIN more : j \in 1 .. 2 /\ more[j] = N(j)
  BY <1>3, <1>4, <1>5, <1>6, <1>7
<1> USE DEF N
<1> QED
  BY <1>8

\* A delivery that is tried again is the same one.
LEMMA Retried ==
  ASSUME NEW x \in Delivery, x.attempt < MaxAttempts, MaxAttempts \in Nat
  PROVE  LET y == [x EXCEPT !.attempt = @ + 1] IN
         /\ y \in Delivery /\ y.attempt = x.attempt + 1 /\ y.inline = x.inline
         /\ y.copy = x.copy /\ y.event = x.event /\ y.place = x.place /\ Key(y) = Key(x)
<1> DEFINE y == [x EXCEPT !.attempt = @ + 1]
<1>1. x.attempt \in Nat /\ x.attempt + 1 \in 0 .. MaxAttempts
  BY DEF Delivery
<1>2. /\ y \in Delivery /\ y.attempt = x.attempt + 1 /\ y.inline = x.inline
      /\ y.copy = x.copy /\ y.event = x.event /\ y.place = x.place
  BY <1>1 DEF Delivery
<1> QED
  BY <1>2 DEF Key

\* What a step of a delivery does to those under way.
LEMMA Delivers ==
  ASSUME IInv, NEW x \in active, Deliver(x)
  PROVE  /\ x \in Delivery /\ x.attempt < MaxAttempts
         /\ UNCHANGED <<pool, hooks, target>>
         /\ \/ active' = active \ {x}
            \/ active' = (active \ {x}) \cup {[x EXCEPT !.attempt = @ + 1]}
         /\ Accepts(x) \/ UNCHANGED received
BY DEF Deliver, Settle, Retry, End, Again, Source, IInv, Types

LEMMA OneMore ==
  ASSUME NEW S, IsFiniteSet(S), NEW x
  PROVE  /\ IsFiniteSet(S \cup {x}) /\ Cardinality(S) \in Nat
         /\ Cardinality(S \cup {x}) \in Nat /\ Cardinality(S \cup {x}) <= Cardinality(S) + 1
<1>1. Cardinality(S) \in Nat
  BY FS_CardinalityType
<1> QED
  BY <1>1, FS_AddElement

Outside == {d \in active : ~d.inline}

\* There is a delivery for each worker at most, and one that the thread that
\* dispatches makes itself while it waits for it.
LEMMA WorkersStep == ASSUME IInv, WorkersInv, [Next]_vars PROVE WorkersInv'
<1>1. /\ MaxWorkers \in Nat /\ IsFiniteSet(active) /\ Busy = Cardinality(Outside)
      /\ IsFiniteSet(Outside) /\ Cardinality(Outside) \in Nat
      /\ Cardinality(Outside) <= MaxWorkers
  <2>1. IsFiniteSet(Outside)
    BY FS_Subset DEF WorkersInv, Outside
  <2> QED
    BY <2>1, FS_CardinalityType, BoundsAssumption DEF WorkersInv, Outside, Busy
<1>2. Busy' = Cardinality(Outside')
  BY DEF Busy, Outside
<1>3. CASE UNCHANGED <<pool, active>>
  BY <1>3 DEF WorkersInv, Busy
<1>4. CASE Inline
  <2> DEFINE x == New(TRUE, 1)
  <2>1. target > 0 /\ ~Waits /\ active' = active \cup {x} /\ UNCHANGED pool
    BY <1>4 DEF Inline, Turn
  <2>2. x.inline
    <3>1. TRUE \in BOOLEAN /\ 1 \in 1 .. 2
      OBVIOUS
    <3> QED
      BY <2>1, <3>1, NewTypes
  <2> HIDE DEF x
  <2>3. \A d \in active : ~d.inline
    BY <2>1 DEF Waits
  <2>4. Outside' = Outside
    BY <2>1, <2>2 DEF Outside
  <2>5. IsFiniteSet(active')
    BY <1>1, <2>1, FS_AddElement
  <2> QED
    BY <1>1, <1>2, <2>1, <2>3, <2>4, <2>5 DEF WorkersInv
<1>5. CASE Submit \/ Handle
  <2>1. UNCHANGED active /\ pool \in Seq(Delivery) /\ target > 0
    BY <1>5 DEF Submit, Handle, Turn, IInv, Types
  <2>2. PICK more \in Seq(Delivery) :
          /\ pool' = pool \o more
          /\ \A j \in DOMAIN more : j \in 1 .. 2 /\ more[j] = New(FALSE, j)
    BY <1>5, TurnPools
  <2>3. \A j \in DOMAIN more : ~more[j].inline
    BY <2>1, <2>2, NewTypes
  <2>4. \A i \in DOMAIN pool' : ~pool'[i].inline
    BY <2>1, <2>2, <2>3, Longer DEF WorkersInv
  <2> QED
    BY <2>1, <2>4 DEF WorkersInv, Busy
<1>6. CASE Begin
  <2>1. /\ pool # << >> /\ Busy < MaxWorkers /\ active' = active \cup {Head(pool)}
        /\ pool' = Tail(pool)
    BY <1>6 DEF Begin
  <2>2. ~Head(pool).inline /\ \A i \in DOMAIN pool' : ~pool'[i].inline
    BY <2>1, Shifted DEF IInv, WorkersInv
  <2>3. Outside' = Outside \cup {Head(pool)}
    BY <2>1, <2>2 DEF Outside
  <2>4. Cardinality(Outside') <= Cardinality(Outside) + 1
    BY <1>1, <2>3, OneMore
  <2>5. IsFiniteSet(active')
    BY <1>1, <2>1, FS_AddElement
  <2>6. Cardinality(Outside') \in Nat
    BY <1>1, <2>3, OneMore
  <2>7. \A x, y \in active' : x.inline /\ y.inline => x = y
    BY <2>1, <2>2 DEF WorkersInv
  <2> QED
    BY <1>1, <1>2, <2>1, <2>2, <2>4, <2>5, <2>6, <2>7 DEF WorkersInv
<1>7. ASSUME NEW x \in active, Deliver(x) PROVE WorkersInv'
  <2> DEFINE y == [x EXCEPT !.attempt = @ + 1]
  <2>1. /\ x \in Delivery /\ x.attempt < MaxAttempts /\ UNCHANGED pool
        /\ active' = active \ {x} \/ active' = (active \ {x}) \cup {y}
    BY <1>7, Delivers
  <2>2. y.inline = x.inline
    BY <2>1, Numbers, Retried DEF IInv
  <2> HIDE DEF y
  <2>3. IsFiniteSet(active')
    <3>1. IsFiniteSet(active \ {x})
      BY <1>1, FS_RemoveElement
    <3> QED
      BY <2>1, <3>1, FS_AddElement
  <2>4. \A a, b \in active' : a.inline /\ b.inline => a = b
    BY <2>1, <2>2 DEF WorkersInv
  <2>5. Cardinality(Outside') <= Cardinality(Outside)
    <3>1. CASE x.inline \/ active' = active \ {x}
      <4>1. Outside' \subseteq Outside
        BY <2>1, <2>2, <3>1 DEF Outside
      <4> QED
        BY <1>1, <4>1, FS_Subset
    <3>2. CASE ~x.inline /\ active' = (active \ {x}) \cup {y}
      <4>1. Outside' = (Outside \ {x}) \cup {y} /\ x \in Outside
        BY <2>1, <2>2, <3>2 DEF Outside
      <4> DEFINE R == Outside \ {x}
      <4>2. IsFiniteSet(R) /\ Cardinality(R) = Cardinality(Outside) - 1
        BY <1>1, <4>1, FS_RemoveElement
      <4>3. Outside' = R \cup {y}
        BY <4>1
      <4> HIDE DEF R
      <4>4. Cardinality(R) \in Nat /\ Cardinality(R \cup {y}) <= Cardinality(R) + 1
            /\ Cardinality(R \cup {y}) \in Nat
        BY <4>2, OneMore
      <4>5. Cardinality(R) + 1 = Cardinality(Outside)
        BY <1>1, <4>2
      <4> QED
        BY <4>3, <4>4, <4>5
    <3> QED
      BY <2>1, <3>1, <3>2
  <2>6. Cardinality(Outside') \in Nat
    <3>1. Outside' \in SUBSET active'
      BY DEF Outside
    <3> QED
      BY <2>3, <3>1, FS_Subset, FS_CardinalityType
  <2> QED
    BY <1>1, <1>2, <2>1, <2>3, <2>4, <2>5, <2>6 DEF WorkersInv
<1>8. CASE Crash
  <2>1. pool' = << >> /\ active' = {} /\ Outside' = {}
    BY <1>8 DEF Crash, Outside
  <2> QED
    BY <1>1, <1>2, <2>1, FS_EmptySet DEF WorkersInv
<1>9. [Next]_vars => \/ UNCHANGED <<pool, active>> \/ Inline \/ Submit \/ Handle \/ Begin
                     \/ Crash \/ \E x \in active : Deliver(x)
  BY DEF Next, Dispatch, vars, Save, BeginSavepoint, EndSavepoint, Commit, Rollback,
         Deliveries, Build, Skip, Raise, Finish
<1> QED
  BY <1>3, <1>4, <1>5, <1>6, <1>7, <1>8, <1>9
-----------------------------------------------------------------------------
(* The deliveries under way, and how often they were received *)

LoadInv == QueueInv /\ BoundInv /\ FreshInv

\* Nothing of the event went to the endpoint that is next.
LEMMA FreshKey ==
  ASSUME IInv, FreshInv, target > 0
  PROVE  /\ <<Event, target>> \in Saves \X Places
         /\ \A z \in Pending : Key(z) # <<Event, target>>
         /\ \A d \in Saves : received[<<Event, target>>][d] = 0
<1>1. Event = hooks[1] /\ Event \in Saves /\ target \in Places /\ target \in Nat
  BY Shorter, Numbers DEF IInv, HooksInv, Types
<1>2. ASSUME NEW z \in Pending PROVE Key(z) # <<Event, target>>
  <2>1. Key(z) = <<z.event, z.place>> /\ z.place \in Nat
    BY <1>2, PendingTypes, Numbers DEF IInv
  <2> QED
    BY <1>1, <2>1 DEF FreshInv
<1>3. ASSUME NEW d \in Saves PROVE received[<<Event, target>>][d] = 0
  <2>1. received[<<Event, target>>][d] \in Nat
    BY <1>1 DEF IInv, Types
  <2> QED
    BY <1>1, <2>1 DEF FreshInv
<1> QED
  BY <1>1, <1>2, <1>3

\* Some deliveries of the event to the endpoint that is next join the others.
LEMMA Joined ==
  ASSUME IInv, BoundInv, FreshInv, target > 0, UNCHANGED received,
         \A z \in Pending' : z \in Pending \/ (Key(z) = <<Event, target>> /\ z.attempt = 0)
  PROVE  BoundInv'
<1>1. /\ \A z \in Pending : Key(z) # <<Event, target>>
      /\ \A d \in Saves : received[<<Event, target>>][d] = 0
  BY FreshKey
<1>2. MaxAttempts \in Nat
  BY Numbers DEF IInv
<1>3. ASSUME NEW x \in Pending', NEW d \in Saves
      PROVE  /\ received[Key(x)][d] <= MaxAttempts + x.attempt
             /\ \A y \in Pending' : Key(y) = Key(x) /\ y # x =>
                  received[Key(x)][d] <= x.attempt + y.attempt
  <2>1. CASE x \in Pending
    BY <1>1, <2>1 DEF BoundInv
  <2>2. CASE Key(x) = <<Event, target>> /\ x.attempt = 0
    BY <1>1, <1>2, <2>2
  <2> QED
    BY <2>1, <2>2
<1>4. \A x, y : (Key(x) = Key(y))' <=> Key(x) = Key(y)
  BY DEF Key
<1> QED
  BY <1>3, <1>4 DEF BoundInv, Key

\* The turns of the loop over the endpoints.
LEMMA TurnLoad ==
  ASSUME IInv, LoadInv, Skip \/ Inline \/ Submit \/ Handle \/ Raise PROVE LoadInv'
<1>1. /\ target > 0 /\ target \in Nat /\ UNCHANGED received
      /\ target' = 0 \/ (target' = target + 1 /\ UNCHANGED hooks)
      /\ pool \in Seq(Delivery) /\ active \subseteq Delivery
  <2>1. target \in 0 .. Len(Endpoints) /\ Len(Endpoints) \in Nat
    BY Numbers DEF IInv, Types
  <2>2. CASE Turn
    BY <2>1, <2>2 DEF Turn, Onward, IInv, Types
  <2>3. CASE Raise
    BY <2>1, <2>3 DEF Raise, IInv, Types
  <2> QED
    BY <2>2, <2>3 DEF Skip, Inline, Submit, Handle
<1>2. /\ Event = hooks[1]
      /\ \A z \in Pending : Key(z) # <<Event, target>>
  BY <1>1, FreshKey, Shorter DEF LoadInv, IInv, HooksInv
<1> DEFINE Handed(z) == /\ z \in Delivery /\ Key(z) = <<Event, target>> /\ z.attempt = 0
                      /\ z.event = hooks[1] /\ z.place = target
<1>3. ASSUME QueueInv', \A z \in Pending' : z \in Pending \/ Handed(z) PROVE LoadInv'
  <2>1. BoundInv'
    BY <1>1, <1>3, Joined DEF LoadInv
  <2>2. FreshInv'
    <3>1. CASE target' = 0
      BY <3>1 DEF FreshInv
    <3>2. CASE target' = target + 1 /\ UNCHANGED hooks
      <4>1. ASSUME NEW x \in Pending', x.event = hooks[1] PROVE x.place < target'
        <5>1. CASE x \in Pending
          <6>1. x.place \in Nat /\ x.place < target
            BY <1>1, <4>1, <5>1, PendingTypes, Numbers DEF LoadInv, FreshInv, IInv
          <6> QED
            BY <1>1, <3>2, <6>1
        <5>2. CASE Handed(x)
          BY <1>1, <3>2, <5>2
        <5> QED
          BY <1>3, <5>1, <5>2
      <4>2. ASSUME NEW p \in Places, NEW d \in Saves, received[<<hooks[1], p>>][d] > 0
            PROVE  p < target'
        <5>1. p < target /\ p \in Nat
          BY <1>1, <4>2, Numbers DEF LoadInv, FreshInv, IInv
        <5> QED
          BY <1>1, <3>2, <5>1
      <4> QED
        BY <1>1, <3>2, <4>1, <4>2 DEF FreshInv
    <3> QED
      BY <1>1, <3>1, <3>2
  <2> QED
    BY <1>3, <2>1, <2>2 DEF LoadInv
<1>4. CASE UNCHANGED <<pool, active>>
  <2>1. QueueInv' /\ Pending' = Pending
    BY <1>4 DEF LoadInv, QueueInv, Pending, Same, Key
  <2> QED
    BY <1>3, <2>1
<1>5. CASE Inline
  <2> DEFINE x == New(TRUE, 1)
  <2>1. active' = active \cup {x} /\ UNCHANGED pool
    BY <1>5 DEF Inline
  <2>2. Handed(x)
    <3>1. TRUE \in BOOLEAN /\ 1 \in 1 .. 2
      OBVIOUS
    <3> QED
      BY <1>1, <3>1, NewTypes
  <2> HIDE DEF x
  <2>3. \A z \in Pending' : z \in Pending \/ Handed(z)
    BY <2>1, <2>2 DEF Pending
  <2>4. \A z \in Pending : ~Same(z, x) /\ ~Same(x, z)
    BY <1>2, <2>2 DEF Same
  <2>5. QueueInv'
    BY <2>1, <2>4 DEF LoadInv, QueueInv, Pending, Same, Key
  <2> QED
    BY <1>3, <2>3, <2>5
<1>6. CASE Submit \/ Handle
  <2>1. UNCHANGED active
    BY <1>6 DEF Submit, Handle
  <2>2. PICK more \in Seq(Delivery) :
          /\ pool' = pool \o more
          /\ \A j \in DOMAIN more : j \in 1 .. 2 /\ more[j] = New(FALSE, j)
    BY <1>6, TurnPools
  <2>3. \A j \in DOMAIN more : Handed(more[j]) /\ more[j].copy = j
    <3>1. FALSE \in BOOLEAN
      OBVIOUS
    <3>2. \A j \in 1 .. 2 : Handed(New(FALSE, j)) /\ New(FALSE, j).copy = j
      BY <1>1, <3>1, NewTypes
    <3> HIDE DEF Handed
    <3> QED
      BY <2>2, <3>2
  <2> HIDE DEF Handed
  <2>4. ASSUME NEW i \in DOMAIN pool'
        PROVE  \/ i \in DOMAIN pool /\ pool'[i] = pool[i] /\ pool[i] \in Pending
               \/ /\ Handed(pool'[i]) /\ i = Len(pool) + pool'[i].copy
                  /\ \A z \in Pending : ~Same(z, pool'[i]) /\ ~Same(pool'[i], z)
    <3>1. CASE i \in DOMAIN pool /\ pool'[i] = pool[i]
      BY <3>1 DEF Pending
    <3>2. CASE \E j \in DOMAIN more : i = Len(pool) + j /\ pool'[i] = more[j]
      <4>1. Handed(pool'[i]) /\ i = Len(pool) + pool'[i].copy
        BY <2>3, <3>2
      <4>2. \A z \in Pending : ~Same(z, pool'[i]) /\ ~Same(pool'[i], z)
        BY <1>2, <4>1 DEF Same, Handed
      <4> QED
        BY <4>1, <4>2
    <3> QED
      BY <1>1, <2>2, <2>4, <3>1, <3>2, Longer
  <2>5. \A z \in Pending' : z \in Pending \/ Handed(z)
    BY <2>1, <2>4 DEF Pending
  <2>6. \A i, j \in DOMAIN pool' : Same(pool'[i], pool'[j]) => i = j
    <3> SUFFICES ASSUME NEW i \in DOMAIN pool', NEW j \in DOMAIN pool', Same(pool'[i], pool'[j])
                 PROVE  i = j
      OBVIOUS
    <3>1. CASE i \in DOMAIN pool /\ j \in DOMAIN pool
      <4>1. pool'[i] = pool[i] \/ (Handed(pool'[i]) /\ ~Same(pool[i], pool'[i]))
        BY <2>4, <3>1 DEF Pending
      <4>2. pool'[i] = pool[i] /\ pool'[j] = pool[j]
        BY <1>1, <2>2, <3>1, Longer
      <4> QED
        BY <3>1, <4>2 DEF LoadInv, QueueInv
    <3>2. CASE i \notin DOMAIN pool \/ j \notin DOMAIN pool
      BY <2>4, <3>2 DEF Same
    <3> QED
      BY <3>1, <3>2
  <2>7. \A i \in DOMAIN pool', x \in active' : ~Same(pool'[i], x)
    <3>1. \A x \in active : x \in Pending
      BY DEF Pending
    <3> QED
      BY <2>1, <2>4, <3>1 DEF LoadInv, QueueInv
  <2>8. QueueInv'
    BY <2>1, <2>6, <2>7 DEF LoadInv, QueueInv, Same, Key
  <2> QED
    BY <1>3, <2>5, <2>8
<1> QED
  BY <1>4, <1>5, <1>6 DEF Skip, Raise
-----------------------------------------------------------------------------
\* A worker takes a delivery: those under way stay the same.
LEMMA BeginLoad == ASSUME IInv, LoadInv, Begin PROVE LoadInv'
<1>1. /\ UNCHANGED <<received, target, hooks>> /\ pool # << >>
      /\ active' = active \cup {pool[1]} /\ pool' = Tail(pool) /\ 1 \in DOMAIN pool
      /\ \A i \in DOMAIN pool' : /\ i \in Nat /\ i > 0 /\ i + 1 \in DOMAIN pool
                                 /\ pool'[i] = pool[i + 1]
  BY Shifted DEF Begin, Source, IInv
<1>2. \A z \in Pending' : z \in Pending
  BY <1>1 DEF Pending
<1>3. BoundInv' /\ FreshInv'
  BY <1>1, <1>2 DEF LoadInv, BoundInv, FreshInv, Key
<1>4. \A i, j \in DOMAIN pool' : Same(pool'[i], pool'[j]) => i = j
  <2> SUFFICES ASSUME NEW i \in DOMAIN pool', NEW j \in DOMAIN pool', Same(pool'[i], pool'[j])
               PROVE  i = j
    OBVIOUS
  <2>1. i + 1 = j + 1
    BY <1>1 DEF LoadInv, QueueInv
  <2> QED
    BY <1>1, <2>1
<1>5. \A i \in DOMAIN pool' : ~Same(pool'[i], pool[1]) /\ ~Same(pool[1], pool'[i])
  <2> SUFFICES ASSUME NEW i \in DOMAIN pool'
               PROVE  ~Same(pool'[i], pool[1]) /\ ~Same(pool[1], pool'[i])
    OBVIOUS
  <2>1. i + 1 # 1 /\ i + 1 \in DOMAIN pool /\ pool'[i] = pool[i + 1]
    BY <1>1
  <2> QED
    BY <1>1, <2>1 DEF LoadInv, QueueInv
<1>6. \A i \in DOMAIN pool', x \in active' : ~Same(pool'[i], x)
  BY <1>1, <1>5 DEF LoadInv, QueueInv
<1>7. \A x, y \in active' : Same(x, y) => x = y
  <2>1. \A x \in active : ~Same(pool[1], x) /\ ~Same(x, pool[1])
    BY <1>1 DEF LoadInv, QueueInv, Same
  <2> QED
    BY <1>1, <2>1 DEF LoadInv, QueueInv
<1>8. QueueInv'
  BY <1>4, <1>6, <1>7 DEF QueueInv, Same, Key
<1> QED
  BY <1>3, <1>8 DEF LoadInv

\* There are two copies of a delivery at most.
LEMMA ThreeCopies ==
  ASSUME IInv, QueueInv, NEW x \in Pending, NEW y \in Pending, NEW z \in Pending,
         Key(x) = Key(y), Key(y) = Key(z)
  PROVE  x = y \/ y = z \/ x = z
<1>1. x.copy \in 1 .. 2 /\ y.copy \in 1 .. 2 /\ z.copy \in 1 .. 2
  BY PendingTypes DEF IInv
<1>2. Same(x, y) \/ Same(y, z) \/ Same(x, z)
  BY <1>1 DEF Same
<1>3. \A a, b \in Pending : Same(a, b) => a = b
  BY DEF QueueInv, Pending, Same
<1> QED
  BY <1>2, <1>3

\* An attempt: what the endpoint got goes up by one at most, as the attempts of
\* the delivery do.
LEMMA DeliverLoad == ASSUME IInv, LoadInv, NEW x \in active, Deliver(x) PROVE LoadInv'
<1> DEFINE y == [x EXCEPT !.attempt = @ + 1]  k == Key(x)
<1>1. /\ x \in Delivery /\ x.attempt < MaxAttempts /\ x \in Pending
      /\ UNCHANGED <<pool, hooks, target>>
      /\ active' = active \ {x} \/ active' = (active \ {x}) \cup {y}
      /\ Accepts(x) \/ UNCHANGED received
  BY Delivers DEF Pending
<1>2. /\ y \in Delivery /\ y.attempt = x.attempt + 1 /\ y.copy = x.copy
      /\ y.event = x.event /\ y.place = x.place /\ Key(y) = k
  BY <1>1, Numbers, Retried DEF IInv
<1>3. /\ MaxAttempts \in Nat /\ x.attempt \in Nat /\ k = <<x.event, x.place>>
      /\ k \in Saves \X Places /\ x.data \in Saves
      /\ received \in [Saves \X Places -> [Saves -> Nat]]
      /\ x.place \in Nat /\ target \in Nat
  <2>1. MaxAttempts \in Nat /\ Types /\ Places = 1 .. Len(Endpoints)
    BY Numbers DEF IInv
  <2>2. /\ x.attempt \in Nat /\ k = <<x.event, x.place>> /\ k \in Saves \X Places
        /\ x.data \in Saves /\ x.place \in Places
    BY <1>1, <2>1, PendingTypes
  <2>3. received \in [Saves \X Places -> [Saves -> Nat]] /\ target \in Nat /\ x.place \in Nat
    BY <2>1, <2>2, Numbers DEF Types
  <2> QED
    BY <2>1, <2>2, <2>3
<1> HIDE DEF y, k
<1>4. \A z : z \in active' => z = y \/ (z \in active /\ z # x)
  BY <1>1
<1>5. QueueInv'
  <2>1. \A z : (Same(z, y) <=> Same(z, x)) /\ (Same(y, z) <=> Same(x, z))
    BY <1>2 DEF Same, k
  <2>2. \A z \in active' : \E w \in active : \A u : /\ (Same(z, u) <=> Same(w, u))
                                                    /\ (Same(u, z) <=> Same(u, w))
    BY <1>4, <2>1
  <2>3. \A i \in DOMAIN pool', z \in active' : ~Same(pool'[i], z)
    BY <1>1, <2>2 DEF LoadInv, QueueInv
  <2>4. \A a, b \in active' : Same(a, b) => a = b
    <3> SUFFICES ASSUME NEW a \in active', NEW b \in active', Same(a, b) PROVE a = b
      OBVIOUS
    <3>1. CASE a = y /\ b = y
      BY <3>1
    <3>2. CASE a = y /\ b \in active /\ b # x
      BY <2>1, <3>2 DEF LoadInv, QueueInv
    <3>3. CASE b = y /\ a \in active /\ a # x
      BY <2>1, <3>3 DEF LoadInv, QueueInv
    <3>4. CASE a \in active /\ b \in active
      BY <3>4 DEF LoadInv, QueueInv
    <3> QED
      BY <1>4, <3>1, <3>2, <3>3, <3>4
  <2> QED
    BY <1>1, <2>3, <2>4 DEF LoadInv, QueueInv, Same, Key
<1>6. \A z \in Pending' : z = y \/ (z \in Pending /\ z # x)
  <2>1. \A i \in DOMAIN pool : pool[i] # x
    BY DEF LoadInv, QueueInv, Same
  <2> QED
    BY <1>1, <1>4, <2>1 DEF Pending
<1>7. \A z \in Pending : z.attempt \in Nat /\ Key(z) \in Saves \X Places
  BY PendingTypes DEF IInv
<1>8. /\ received' \in [Saves \X Places -> [Saves -> Nat]]
      /\ \A q \in Saves \X Places, d \in Saves :
           \/ received'[q][d] = received[q][d]
           \/ q = k /\ received'[q][d] = received[q][d] + 1
  <2>1. CASE UNCHANGED received
    BY <1>3, <2>1
  <2>2. CASE Accepts(x)
    <3> DEFINE new == [received[k] EXCEPT ![x.data] = received[k][x.data] + 1]
    <3>1. received' = [received EXCEPT ![k] = new]
      BY <2>2 DEF Accepts, k
    <3>2. /\ new \in [Saves -> Nat]
          /\ \A d \in Saves : new[d] = received[k][d] \/ new[d] = received[k][d] + 1
      BY <1>3
    <3> HIDE DEF new
    <3> QED
      BY <1>3, <3>1, <3>2
  <2> QED
    BY <1>1, <2>1, <2>2
<1>9. BoundInv'
  <2>1. \A q \in Saves \X Places, d \in Saves : received'[q][d] <= 2 * MaxAttempts
    <3> SUFFICES ASSUME NEW q \in Saves \X Places, NEW d \in Saves
                 PROVE  received'[q][d] <= 2 * MaxAttempts
      OBVIOUS
    <3>1. received[q][d] \in Nat /\ received[q][d] <= 2 * MaxAttempts
      BY <1>3 DEF LoadInv, BoundInv
    <3>2. CASE q = k
      <4> DEFINE m == received[q][d]  n == received'[q][d]
      <4>1. m <= MaxAttempts + x.attempt /\ m \in Nat /\ (n = m \/ n = m + 1)
        BY <1>1, <1>8, <3>1, <3>2 DEF LoadInv, BoundInv, k
      <4> HIDE DEF m, n
      <4>2. n <= 2 * MaxAttempts
        BY <1>1, <1>3, <4>1
      <4> QED
        BY <4>2 DEF n
    <3> QED
      BY <1>8, <3>1, <3>2
  <2>2. ASSUME NEW a \in Pending', NEW d \in Saves
        PROVE  received'[Key(a)][d] <= MaxAttempts + a.attempt
    <3>1. CASE a = y
      <4> DEFINE m == received[k][d]  n == received'[k][d]
      <4>1. m <= MaxAttempts + x.attempt /\ m \in Nat /\ (n = m \/ n = m + 1)
        BY <1>1, <1>3, <1>8 DEF LoadInv, BoundInv, k
      <4>2. Key(a) = k /\ a.attempt = x.attempt + 1
        BY <1>2, <3>1
      <4> HIDE DEF m, n
      <4>3. n <= MaxAttempts + a.attempt
        BY <1>3, <4>1, <4>2
      <4> QED
        BY <4>2, <4>3 DEF n
    <3>2. CASE a \in Pending /\ a # x
      <4>1. /\ received[Key(a)][d] \in Nat /\ a.attempt \in Nat
            /\ Key(a) \in Saves \X Places
            /\ received[Key(a)][d] <= MaxAttempts + a.attempt
        BY <1>3, <1>7, <3>2 DEF LoadInv, BoundInv
      <4>2. Key(a) = k => received[Key(a)][d] <= x.attempt + a.attempt
        BY <1>1, <3>2 DEF LoadInv, BoundInv, k
      <4> DEFINE m == received[Key(a)][d]  n == received'[Key(a)][d]
      <4>3. /\ m \in Nat /\ m <= MaxAttempts + a.attempt
            /\ n = m \/ (n = m + 1 /\ m <= x.attempt + a.attempt)
        BY <1>8, <4>1, <4>2
      <4>4. a.attempt \in Nat
        BY <4>1
      <4> HIDE DEF m, n
      <4>5. n <= MaxAttempts + a.attempt
        BY <1>1, <1>3, <4>3, <4>4
      <4> QED
        BY <4>5 DEF n
    <3> QED
      BY <1>6, <3>1, <3>2
  <2>3. ASSUME NEW a \in Pending', NEW b \in Pending', NEW d \in Saves, Key(b) = Key(a), b # a
        PROVE  received'[Key(a)][d] <= a.attempt + b.attempt
    <3>1. ASSUME NEW z \in Pending, z # x, Key(z) = k
          PROVE  received'[k][d] <= y.attempt + z.attempt
      <4>1. received[k][d] <= x.attempt + z.attempt
        BY <1>1, <3>1 DEF LoadInv, BoundInv, k
      <4>2. z.attempt \in Nat /\ received[k][d] \in Nat
        BY <1>3, <1>7
      <4> QED
        BY <1>2, <1>3, <1>8, <4>1, <4>2
    <3>2. CASE a = y /\ b \in Pending /\ b # x
      BY <1>2, <2>3, <3>1, <3>2
    <3>3. CASE b = y /\ a \in Pending /\ a # x
      <4>1. received'[k][d] <= y.attempt + a.attempt
        BY <1>2, <2>3, <3>1, <3>3
      <4>2. a.attempt \in Nat /\ y.attempt \in Nat
        BY <1>2, <1>3, <1>7, <3>3
      <4>3. Key(a) = k
        BY <1>2, <2>3, <3>3
      <4> QED
        BY <3>3, <4>1, <4>2, <4>3
    <3>4. CASE a \in Pending /\ a # x /\ b \in Pending /\ b # x
      <4>1. received[Key(a)][d] <= a.attempt + b.attempt
        BY <2>3, <3>4 DEF LoadInv, BoundInv
      <4>2. Key(a) # k
        BY <1>1, <2>3, <3>4, ThreeCopies DEF LoadInv, k
      <4> QED
        BY <1>7, <1>8, <3>4, <4>1, <4>2
    <3> QED
      BY <1>6, <2>3, <3>2, <3>3, <3>4
  <2> QED
    BY <2>1, <2>2, <2>3 DEF BoundInv, Key
<1>10. FreshInv'
  <2> SUFFICES ASSUME target > 0
               PROVE  /\ \A z \in Pending' : z.event = hooks[1] => z.place < target
                      /\ \A p \in Places, d \in Saves :
                           received'[<<hooks[1], p>>][d] > 0 => p < target
    BY <1>1 DEF FreshInv
  <2>1. \A z \in Pending' : \E w \in Pending : z.event = w.event /\ z.place = w.place
    BY <1>1, <1>2, <1>6
  <2>2. \A z \in Pending' : z.event = hooks[1] => z.place < target
    BY <2>1 DEF LoadInv, FreshInv
  <2>3. ASSUME NEW p \in Places, NEW d \in Saves, received'[<<hooks[1], p>>][d] > 0
        PROVE  p < target
    <3>1. CASE <<hooks[1], p>> = k
      <4>1. x.event = hooks[1] /\ x.place = p
        BY <1>3, <3>1
      <4> QED
        BY <1>1, <4>1 DEF LoadInv, FreshInv
    <3>2. CASE <<hooks[1], p>> # k
      <4>1. hooks[1] \in Saves
        BY Shorter DEF IInv, HooksInv
      <4>2. received[<<hooks[1], p>>][d] > 0
        BY <1>8, <2>3, <3>2, <4>1
      <4> QED
        BY <4>2 DEF LoadInv, FreshInv
    <3> QED
      BY <3>1, <3>2
  <2> QED
    BY <2>2, <2>3
<1> QED
  BY <1>5, <1>9, <1>10 DEF LoadInv

\* The steps that leave the deliveries alone: before the dispatch, building the
\* next payload, and the end.
LEMMA QuietLoad ==
  ASSUME IInv, LoadInv, UNCHANGED <<pool, active, received>>,
         target' = 0 \/ (UNCHANGED <<hooks, target>>) \/ Build
  PROVE  LoadInv'
<1>1. Pending' = Pending
  BY DEF Pending
<1>2. QueueInv' /\ BoundInv'
  BY <1>1 DEF LoadInv, QueueInv, BoundInv, Same, Key
<1>3. CASE target' = 0
  BY <1>2, <1>3 DEF LoadInv, FreshInv
<1>4. CASE UNCHANGED <<hooks, target>>
  BY <1>1, <1>2, <1>4 DEF LoadInv, FreshInv
<1>5. CASE Build
  <2>1. hooks # << >> /\ target = 0 /\ (target' = 0 \/ UNCHANGED hooks)
    BY <1>5 DEF Build
  <2>2. hooks[1] \in Saves /\ 1 \in DOMAIN hooks /\ ~(hooks[1] < hooks[1])
    BY <2>1, Shorter, Numbers DEF IInv
  <2>3. \A d \in Saves : ~Carried(hooks[1], d)
    BY <2>1, <2>2 DEF IInv, CarriedInv
  <2>4. \A x \in Pending : x.event # hooks[1]
    <3> SUFFICES ASSUME NEW x \in Pending, x.event = hooks[1] PROVE FALSE
      OBVIOUS
    <3>1. x.data \in Saves
      BY PendingTypes DEF IInv
    <3> QED
      BY <2>3, <3>1 DEF Pending, Carried, Waiting, Active
  <2>5. \A p \in Places, d \in Saves : ~(received[<<hooks[1], p>>][d] > 0)
    BY <2>3 DEF Carried, Received
  <2> QED
    BY <1>1, <1>2, <2>1, <2>4, <2>5 DEF LoadInv, FreshInv
<1> QED
  BY <1>3, <1>4, <1>5

LEMMA LoadStep == ASSUME IInv, LoadInv, [Next]_vars PROVE LoadInv'
<1>1. CASE Save \/ BeginSavepoint \/ EndSavepoint \/ Commit \/ Rollback
  <2>1. tx = "open" /\ UNCHANGED <<target, pool, active, received>>
    BY <1>1 DEF Save, BeginSavepoint, EndSavepoint, Commit, Rollback, Deliveries
  <2>2. target = 0
    BY <2>1, Numbers DEF IInv, Types, HooksInv
  <2> QED
    BY <2>1, <2>2, QuietLoad
<1>2. CASE Build
  BY <1>2, QuietLoad DEF Build
<1>3. CASE Finish \/ UNCHANGED vars
  <2>1. UNCHANGED <<hooks, target, pool, active, received>>
    BY <1>3 DEF Finish, Deliveries, vars
  <2> QED
    BY <2>1, QuietLoad
<1>4. CASE Crash
  <2>1. target' = 0 /\ pool' = << >> /\ active' = {} /\ UNCHANGED received
    BY <1>4 DEF Crash
  <2>2. Pending' = {}
    BY <2>1 DEF Pending
  <2> QED
    BY <2>1, <2>2 DEF LoadInv, QueueInv, BoundInv, FreshInv
<1> QED
  BY <1>1, <1>2, <1>3, <1>4, TurnLoad, BeginLoad, DeliverLoad DEF Next, Dispatch
-----------------------------------------------------------------------------
\* The counts stay in their bounds in every reachable state.
LEMMA CountInvariant == Spec => [](IInv /\ CountInv)
<1>1. IInv /\ CountInv /\ [Next]_vars => IInv' /\ CountInv'
  BY Step, SizeStep, WorkersStep, LoadStep DEF CountInv, LoadInv
<1> QED
  BY InitIInv, InitCountInv, <1>1, PTL DEF Spec

\* Every state is well formed.  In particular no more deliveries are made at a
\* time than there are workers, and one by the thread that commits; and with the
\* fallback of the custom handler, the retries and lost answers together, an
\* endpoint gets an event at most twice as often as a delivery is tried.
THEOREM WebhookTypes == Spec => []TypeOK
<1>1. ASSUME IInv, CountInv PROVE TypeOK
  <2>1. Cardinality(active) <= MaxWorkers + 1
    <3> DEFINE own == {d \in active : d.inline}
    <3>1. /\ IsFiniteSet(active) /\ IsFiniteSet(Outside) /\ Cardinality(Outside) \in Nat
          /\ Cardinality(Outside) <= MaxWorkers /\ MaxWorkers \in Nat
      <4>1. IsFiniteSet(active) /\ Outside \in SUBSET active
        BY <1>1 DEF CountInv, WorkersInv, Outside
      <4>2. Cardinality(Outside) <= MaxWorkers
        BY <1>1 DEF CountInv, WorkersInv, Busy, Outside
      <4> QED
        BY <4>1, <4>2, FS_Subset, FS_CardinalityType, BoundsAssumption
    <3>2. active = Outside \cup own
      BY DEF Outside
    <3>3. CASE own = {}
      <4>1. active = Outside
        BY <3>2, <3>3
      <4>2. Cardinality(active) = Cardinality(Outside)
        BY <4>1
      <4> HIDE DEF own
      <4> QED
        BY <3>1, <4>2
    <3>4. CASE own # {}
      <4>1. PICK x : x \in own
        BY <3>4
      <4>2. own = {x}
        BY <1>1, <4>1 DEF CountInv, WorkersInv
      <4> HIDE DEF own
      <4>3. active = Outside \cup {x}
        BY <3>2, <4>2
      <4>4. /\ Cardinality(Outside \cup {x}) <= Cardinality(Outside) + 1
            /\ Cardinality(Outside \cup {x}) \in Nat
        BY <3>1, OneMore
      <4> QED
        BY <3>1, <4>3, <4>4
    <3> QED
      BY <3>3, <3>4
  <2>2. received \in [Saves \X Places -> [Saves -> 0 .. 2 * MaxAttempts]]
    <3>1. /\ received \in [Saves \X Places -> [Saves -> Nat]] /\ MaxAttempts \in Nat
          /\ \A k \in Saves \X Places, d \in Saves : received[k][d] <= 2 * MaxAttempts
      BY <1>1, Numbers DEF IInv, Types, CountInv, BoundInv
    <3>2. \A k \in Saves \X Places : received[k] \in [Saves -> 0 .. 2 * MaxAttempts]
      <4> SUFFICES ASSUME NEW k \in Saves \X Places
                   PROVE  received[k] \in [Saves -> 0 .. 2 * MaxAttempts]
        OBVIOUS
      <4>1. \A d \in Saves : received[k][d] \in 0 .. 2 * MaxAttempts
        BY <3>1
      <4> QED
        BY <3>1, <4>1
    <3> QED
      BY <3>1, <3>2
  <2> QED
    BY <1>1, <2>1, <2>2 DEF IInv, Types, CountInv, SizeInv, TypeOK
<1> QED
  BY <1>1, CountInvariant, PTL
=============================================================================
