----------------------------- MODULE Webhooks -----------------------------
(***************************************************************************)
(* rail_django/webhooks: the signal handlers that turn the saves of a      *)
(* model instance into events when the transaction commits, the dispatcher *)
(* that builds one payload per event and hands it to every endpoint, and   *)
(* the deliveries with their retries.                                      *)
(*                                                                         *)
(* One instance is saved a few times in a transaction with a savepoint.    *)
(* Its fields are the number of the latest save; save number k is event k. *)
(* A payload is what the instance in memory says when it is built, which a *)
(* rolled back savepoint does not restore.                                 *)
(*                                                                         *)
(* A delivery is one call of _deliver_payload.  The receiver may accept,   *)
(* refuse for good, answer with a status that is retried, or accept while  *)
(* the answer is lost.                                                     *)
(***************************************************************************)
EXTENDS Naturals, Sequences, FiniteSets

CONSTANTS Endpoints,    \* the configured endpoints, in order
          Backends,     \* async_backend: "sync", "thread" or "custom"
          MaxRetries,   \* max_retries
          MaxWorkers,   \* max_workers of the thread pool
          MaxSaves,     \* bound: saves of the instance
          MayCrash      \* the process may die

ASSUME BackendsAssumption == Backends \subseteq {"sync", "thread", "custom"}
ASSUME EndpointsAssumption == Endpoints \in Seq(STRING) \ {<< >>}
ASSUME BoundsAssumption ==
  /\ MaxRetries \in Nat /\ MaxWorkers \in Nat \ {0} /\ MaxSaves \in Nat
  /\ MayCrash \in BOOLEAN

VARIABLES
  backend,    \* the configured backend
  memory,     \* the instance in memory: number of its latest save
  hooks,      \* the on_commit callbacks: events, in order
  savepoint,  \* callbacks when the open savepoint began, or NoSavepoint
  tx,         \* the transaction
  committed,  \* history: the events whose transaction committed
  target,     \* while dispatching: the next endpoint, 0 between events
  payload,    \* the payload being handed to the endpoints
  pool,       \* deliveries waiting for a worker of the pool
  active,     \* deliveries going on
  received,   \* deliveries the endpoints accepted, counted
  over        \* history: events and endpoints no delivery will be made for again

vars == <<backend, memory, hooks, savepoint, tx, committed, target, payload, pool,
          active, received, over>>

Saves == 1 .. MaxSaves
NoSavepoint == MaxSaves + 1
Places == DOMAIN Endpoints
MaxAttempts == MaxRetries + 1
Delivery == [event : Saves, place : Places, data : Saves, attempt : 0 .. MaxAttempts,
             inline : BOOLEAN, copy : 1 .. 2]
Transactions == {"open", "dispatching", "done"}

TypeOK ==
  /\ backend \in Backends
  /\ memory \in 0 .. MaxSaves
  /\ hooks \in Seq(Saves)
  /\ savepoint \in 0 .. NoSavepoint
  /\ tx \in Transactions
  /\ committed \subseteq Saves
  /\ target \in 0 .. Len(Endpoints)
  /\ payload \in 0 .. MaxSaves
  /\ pool \in Seq(Delivery)
  /\ active \subseteq Delivery /\ Cardinality(active) <= MaxWorkers + 1
  /\ received \in [Saves \X Places -> [Saves -> 0 .. 2 * MaxAttempts]]
  /\ over \subseteq Saves \X Places

Init ==
  /\ backend \in Backends
  /\ memory = 0 /\ hooks = << >> /\ savepoint = NoSavepoint
  /\ tx = "open" /\ committed = {} /\ target = 0 /\ payload = 0
  /\ pool = << >> /\ active = {}
  /\ received = [t \in Saves \X Places |-> [d \in Saves |-> 0]]
  /\ over = {}
-----------------------------------------------------------------------------
(* The transaction *)

Deliveries == <<target, payload, pool, active, received, over>>

\* Mutant of Save: the event is dispatched without waiting for the commit.
SaveAndDispatch ==
  /\ tx = "open" /\ memory < MaxSaves
  /\ memory' = memory + 1 /\ hooks' = << memory + 1 >> /\ tx' = "dispatching"
  /\ UNCHANGED <<backend, savepoint, committed>> /\ UNCHANGED Deliveries
\* post_save registers _dispatch on commit.
Save ==
  /\ tx = "open" /\ memory < MaxSaves
  /\ memory' = memory + 1 /\ hooks' = Append(hooks, memory + 1)
  /\ UNCHANGED <<backend, savepoint, tx, committed>> /\ UNCHANGED Deliveries

BeginSavepoint ==
  /\ tx = "open" /\ savepoint = NoSavepoint /\ savepoint' = Len(hooks)
  /\ UNCHANGED <<backend, memory, hooks, tx, committed>> /\ UNCHANGED Deliveries

\* A savepoint is released, or rolled back with the callbacks since it began.
EndSavepoint ==
  /\ tx = "open" /\ savepoint # NoSavepoint /\ savepoint' = NoSavepoint
  /\ hooks' \in {hooks, SubSeq(hooks, 1, savepoint)}
  /\ UNCHANGED <<backend, memory, tx, committed>> /\ UNCHANGED Deliveries

Commit ==
  /\ tx = "open" /\ savepoint = NoSavepoint /\ tx' = "dispatching"
  /\ committed' = {hooks[i] : i \in DOMAIN hooks}
  /\ UNCHANGED <<backend, memory, hooks, savepoint>> /\ UNCHANGED Deliveries

Rollback ==
  /\ tx = "open" /\ tx' = "done" /\ hooks' = << >> /\ savepoint' = NoSavepoint
  /\ UNCHANGED <<backend, memory, committed>> /\ UNCHANGED Deliveries
-----------------------------------------------------------------------------
(* dispatch_model_event, in the thread that committed *)

Event == Head(hooks)
Waits == \E d \in active : d.inline   \* it delivers itself

\* The payload is built once for all endpoints, from the instance as it is now;
\* if it cannot be, or nothing is enabled, the event is dropped.
Build ==
  /\ tx = "dispatching" /\ hooks # << >> /\ target = 0 /\ ~Waits
  /\ \/ target' = 1 /\ payload' = memory /\ UNCHANGED <<hooks, over>>
     \/ /\ hooks' = Tail(hooks) /\ over' = over \cup ({Event} \X Places)
        /\ UNCHANGED <<target, payload>>
  /\ UNCHANGED <<backend, memory, savepoint, tx, committed, pool, active, received>>

New(inline, copy) == [event |-> Event, place |-> target, data |-> payload,
                      attempt |-> 0, inline |-> inline, copy |-> copy]

\* Mutant of Onward: the loop over the endpoints returns after the first.
OnwardReturns == target' = 0 /\ payload' = 0 /\ hooks' = Tail(hooks)
\* The next endpoint, or the next event after the last.
Onward ==
  IF target = Len(Endpoints) THEN target' = 0 /\ payload' = 0 /\ hooks' = Tail(hooks)
  ELSE target' = target + 1 /\ UNCHANGED <<payload, hooks>>

Turn == /\ tx = "dispatching" /\ target > 0 /\ ~Waits /\ Onward
        /\ UNCHANGED <<backend, memory, savepoint, tx, committed, received>>

\* _endpoint_allows_model, or endpoint.enabled, says no.
Skip ==
  /\ Turn /\ over' = over \cup {<<Event, target>>}
  /\ UNCHANGED <<pool, active>>

Inline == Turn /\ backend = "sync" /\ active' = active \cup {New(TRUE, 1)}
               /\ UNCHANGED <<pool, over>>
Submit == Turn /\ backend = "thread" /\ pool' = Append(pool, New(FALSE, 1))
               /\ UNCHANGED <<active, over>>

\* Mutant of Handle: the handler is tried again by the fallback every time.
HandleThrice ==
  /\ Turn /\ backend = "custom"
  /\ pool' = pool \o << New(FALSE, 1), New(FALSE, 2), New(FALSE, 3) >>
  /\ UNCHANGED <<active, over>>
\* The custom handler takes the delivery over, or raises, before or after it
\* did: then the pool gets it as well.
Handle ==
  /\ Turn /\ backend = "custom"
  /\ pool' \in {Append(pool, New(FALSE, 1)), pool \o << New(FALSE, 1), New(FALSE, 2) >>}
  /\ UNCHANGED <<active, over>>

\* Handing over raises (the pool is shut down, a header cannot be made): the
\* event is dropped for this endpoint and those after it.
Raise ==
  /\ tx = "dispatching" /\ target > 0 /\ ~Waits
  /\ over' = over \cup {<<Event, p>> : p \in target .. Len(Endpoints)}
  /\ target' = 0 /\ payload' = 0 /\ hooks' = Tail(hooks)
  /\ UNCHANGED <<backend, memory, savepoint, tx, committed, pool, active, received>>

\* The dispatch of the last event is over.
Finish ==
  /\ tx = "dispatching" /\ hooks = << >> /\ ~Waits /\ tx' = "done"
  /\ UNCHANGED <<backend, memory, hooks, savepoint, committed>> /\ UNCHANGED Deliveries
-----------------------------------------------------------------------------
(* _deliver_payload *)

Source == <<backend, memory, hooks, savepoint, tx, committed, target, payload>>
Busy == Cardinality({d \in active : ~d.inline})

\* A worker takes the next delivery.
Begin ==
  /\ pool # << >> /\ Busy < MaxWorkers
  /\ active' = active \cup {Head(pool)} /\ pool' = Tail(pool)
  /\ UNCHANGED <<received, over>> /\ UNCHANGED Source

Key(d) == <<d.event, d.place>>
Again(d) == active' = (active \ {d}) \cup {[d EXCEPT !.attempt = @ + 1]}
\* This delivery ends; another of the same event may still be under way.
End(d) ==
  /\ active' = active \ {d}
  /\ over' = IF \E x \in active \ {d} : Key(x) = Key(d) THEN over
             ELSE IF \E i \in DOMAIN pool : Key(pool[i]) = Key(d) THEN over
             ELSE over \cup {Key(d)}
Accepts(d) == received' = [received EXCEPT ![Key(d)][d.data] = @ + 1]

\* The attempt ends the delivery: accepted, or refused with a status that is
\* not retried.
Settle(d) ==
  /\ d.attempt < MaxAttempts /\ End(d)
  /\ Accepts(d) \/ UNCHANGED received
  /\ UNCHANGED pool /\ UNCHANGED Source

\* The attempt raises (the receiver may have accepted all the same) or gets a
\* status that is retried: again after a pause, or the end.
Retry(d) ==
  /\ d.attempt < MaxAttempts
  /\ IF d.attempt + 1 = MaxAttempts THEN End(d) ELSE Again(d) /\ UNCHANGED over
  /\ Accepts(d) \/ UNCHANGED received
  /\ UNCHANGED pool /\ UNCHANGED Source

\* The process dies with its pool; an open transaction is rolled back.
Crash ==
  /\ MayCrash /\ tx' = "done" /\ hooks' = << >> /\ savepoint' = NoSavepoint
  /\ target' = 0 /\ payload' = 0 /\ pool' = << >> /\ active' = {}
  /\ over' = Saves \X Places
  /\ UNCHANGED <<backend, memory, committed, received>>
-----------------------------------------------------------------------------
Dispatch == Build \/ Skip \/ Inline \/ Submit \/ Handle \/ Raise \/ Finish
Deliver(d) == Settle(d) \/ Retry(d)

Next ==
  \/ Save \/ BeginSavepoint \/ EndSavepoint \/ Commit \/ Rollback
  \/ Dispatch \/ Begin \/ Crash
  \/ \E d \in active : Deliver(d)

\* A thread that runs goes on: the one that dispatches, and the workers.
Fairness ==
  /\ WF_vars(Dispatch) /\ WF_vars(Begin)
  /\ WF_vars(\E d \in active : Deliver(d))

Spec == Init /\ [][Next]_vars /\ Fairness
-----------------------------------------------------------------------------
\* Receivers are told of what was committed, never of a save that was rolled
\* back, and all deliveries of one event, to all endpoints and on every retry,
\* say the same (they carry one event id, which receivers may tell them by).
Data(e) == {d \in Saves : \E p \in Places : received[<<e, p>>][d] > 0}
OnlyCommittedOnce ==
  \A e \in Saves : /\ Data(e) # {} => e \in committed
                   /\ Cardinality(Data(e)) <= 1

\* Each event and endpoint comes to an end: accepted, refused, given up after
\* the last attempt, or lost with the process.
DeliverySettles ==
  \A e \in Saves, p \in Places : e \in committed ~> <<e, p>> \in over
=============================================================================
