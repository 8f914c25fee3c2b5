----------------------------- MODULE EventBus -----------------------------
(***************************************************************************)
(* security/events/bus.py: the threads that emit security events, the      *)
(* worker that hands them to the sinks one by one, and stop(), which joins *)
(* the worker for five seconds and then does the rest of its work itself.  *)
(*                                                                         *)
(* Events are numbered in the order they are emitted.  A dispatcher is any *)
(* thread inside _dispatch: the worker, the one that stops the bus, or,    *)
(* without async processing, the one that emits.                           *)
(***************************************************************************)
EXTENDS Naturals, Sequences

CONSTANTS Emitters,    \* threads that emit events
          Worker,      \* the worker thread
          Stopper,     \* the thread that calls stop()
          NumSinks,    \* sinks, in the order they were added
          QueueSize,   \* max_queue_size
          MaxEvents    \* bound: events told apart; later ones are left out

ASSUME DispatchersAssumption ==
  Worker \notin Emitters /\ Stopper \notin Emitters /\ Worker # Stopper
ASSUME SizesAssumption ==
  NumSinks \in Nat \ {0} /\ QueueSize \in Nat \ {0} /\ MaxEvents \in Nat

VARIABLES
  async,     \* SECURITY_EVENT_ASYNC
  running,   \* _running
  queue,     \* the queue
  emitted,   \* events emitted so far
  accepted,  \* history: the events that got a place, or a dispatcher
  worker,    \* position of the worker in _process_loop
  stopping,  \* position in stop()
  hand,      \* per dispatcher: the event it dispatches, 0 for none, and the sink
  written,   \* per sink: what it wrote, in order
  failed,    \* per sink: the events it raised on
  early,     \* history: the events accepted before stop() was called
  late       \* history: the worker outlived the join

vars == <<async, running, queue, emitted, accepted, worker, stopping, hand,
             written, failed, early, late>>

Dispatchers == Emitters \cup {Worker, Stopper}
Sinks == 1 .. NumSinks
Events == 1 .. MaxEvents
Free == [event |-> 0, sink |-> 1]

TypeOK ==
  /\ async \in BOOLEAN /\ running \in BOOLEAN /\ late \in BOOLEAN
  /\ queue \in Seq(Events) /\ Len(queue) <= QueueSize
  /\ emitted \in 0 .. MaxEvents
  /\ accepted \subseteq Events /\ early \subseteq Events
  /\ worker \in {"loop", "get", "dispatch", "ended"}
  /\ stopping \in {"no", "join", "flush", "closed"}
  /\ hand \in [Dispatchers -> [event : Events \cup {0}, sink : Sinks]]
  /\ written \in [Sinks -> Seq(Events)]
  /\ failed \in [Sinks -> SUBSET Events]

\* _create_event_bus starts the worker, if there is to be one.
Init ==
  /\ async \in BOOLEAN /\ running = async
  /\ worker = IF async THEN "loop" ELSE "ended"
  /\ queue = << >> /\ emitted = 0 /\ accepted = {} /\ early = {}
  /\ stopping = "no" /\ late = FALSE
  /\ hand = [d \in Dispatchers |-> Free]
  /\ written = [s \in Sinks |-> << >>]
  /\ failed = [s \in Sinks |-> {}]
-----------------------------------------------------------------------------
Holding(d, event) == hand' = [hand EXCEPT ![d] = [Free EXCEPT !.event = event]]

\* Mutant of Emit: the queue is not bounded.
EmitUnbounded(d) ==
  /\ hand[d] = Free /\ async /\ emitted < MaxEvents
  /\ emitted' = emitted + 1
  /\ accepted' = accepted \cup {emitted + 1}
  /\ early' = IF stopping = "no" THEN early \cup {emitted + 1} ELSE early
  /\ queue' = Append(queue, emitted + 1)
  /\ UNCHANGED <<async, running, worker, stopping, hand, written, failed, late>>
\* emit: a place in the queue, or nothing when it is full; or dispatch at once.
Emit(d) ==
  /\ hand[d] = Free
  /\ emitted' = IF emitted < MaxEvents THEN emitted + 1 ELSE emitted
  /\ LET accept == emitted < MaxEvents /\ (async => Len(queue) < QueueSize) IN
     /\ accepted' = IF accept THEN accepted \cup {emitted + 1} ELSE accepted
     /\ early' = IF accept /\ stopping = "no" THEN early \cup {emitted + 1} ELSE early
     /\ queue' = IF accept /\ async THEN Append(queue, emitted + 1) ELSE queue
     /\ IF accept /\ ~async THEN Holding(d, emitted + 1) ELSE UNCHANGED hand
  /\ UNCHANGED <<async, running, worker, stopping, written, failed, late>>

\* Mutant of Write: a sink that raises ends the dispatch.
WriteOrStop(d) ==
  LET e == hand[d].event  s == hand[d].sink IN
  /\ e # 0
  /\ \/ /\ written' = [written EXCEPT ![s] = Append(@, e)] /\ UNCHANGED failed
        /\ hand' = [hand EXCEPT ![d] = IF s = NumSinks THEN Free ELSE [@ EXCEPT !.sink = s + 1]]
     \/ /\ failed' = [failed EXCEPT ![s] = @ \cup {e}] /\ UNCHANGED written
        /\ hand' = [hand EXCEPT ![d] = Free]
  /\ UNCHANGED <<async, running, queue, emitted, accepted, worker, stopping, early, late>>
\* _dispatch: the next sink writes the event or raises, and the loop goes on.
Write(d) ==
  LET e == hand[d].event  s == hand[d].sink IN
  /\ e # 0
  /\ \/ written' = [written EXCEPT ![s] = Append(@, e)] /\ UNCHANGED failed
     \/ failed' = [failed EXCEPT ![s] = @ \cup {e}] /\ UNCHANGED written
  /\ hand' = [hand EXCEPT ![d] = IF s = NumSinks THEN Free ELSE [@ EXCEPT !.sink = s + 1]]
  /\ UNCHANGED <<async, running, queue, emitted, accepted, worker, stopping, early, late>>

Others == UNCHANGED <<async, emitted, accepted, written, failed, early>>

\* _process_loop: one round reads _running, waits for an event and dispatches.
Loop ==
  /\ worker = "loop" /\ worker' = IF running THEN "get" ELSE "ended"
  /\ UNCHANGED <<running, queue, stopping, hand, late>> /\ Others

Take ==
  /\ worker = "get"
  /\ IF queue = << >> THEN worker' = "loop" /\ UNCHANGED <<queue, hand>>
     ELSE /\ worker' = "dispatch"
          /\ queue' = Tail(queue) /\ Holding(Worker, Head(queue))
  /\ UNCHANGED <<running, stopping, late>> /\ Others

Done ==
  /\ worker = "dispatch" /\ hand[Worker] = Free /\ worker' = "loop"
  /\ UNCHANGED <<running, queue, stopping, hand, late>> /\ Others

\* stop(): no new round begins, and the worker is given time to end the one
\* it is in.
Stop ==
  /\ stopping = "no" /\ stopping' = "join" /\ running' = FALSE
  /\ UNCHANGED <<queue, worker, hand, late>> /\ Others

\* Mutant of Joined: the worker is not waited for.
JoinNot ==
  /\ stopping = "join" /\ stopping' = "flush"
  /\ UNCHANGED <<running, queue, worker, hand, late>> /\ Others
Joined ==
  /\ stopping = "join" /\ worker = "ended" /\ stopping' = "flush"
  /\ UNCHANGED <<running, queue, worker, hand, late>> /\ Others

\* The five seconds are over.
JoinTimeout ==
  /\ stopping = "join" /\ worker # "ended" /\ stopping' = "flush" /\ late' = TRUE
  /\ UNCHANGED <<running, queue, worker, hand>> /\ Others

\* _flush_queue dispatches until the queue is empty; then the sinks are closed.
Flush ==
  /\ stopping = "flush" /\ hand[Stopper] = Free
  /\ IF queue = << >> THEN stopping' = "closed" /\ UNCHANGED <<queue, hand>>
     ELSE /\ queue' = Tail(queue) /\ Holding(Stopper, Head(queue))
          /\ UNCHANGED stopping
  /\ UNCHANGED <<running, worker, late>> /\ Others
-----------------------------------------------------------------------------
Work == Loop \/ Take \/ Done \/ Write(Worker)
StopOn == Joined \/ Flush \/ Write(Stopper)

Next ==
  \/ \E d \in Emitters : Emit(d) \/ Write(d)
  \/ Work \/ Stop \/ StopOn \/ JoinTimeout

\* A thread that runs goes on running.
Fairness ==
  WF_vars(Work) /\ WF_vars(StopOn) /\ \A d \in Emitters : WF_vars(Write(d))

Spec == Init /\ [][Next]_vars /\ Fairness
-----------------------------------------------------------------------------
Handled(e) == \A s \in Sinks : e \in failed[s] \/ \E i \in DOMAIN written[s] : written[s][i] = e

\* A sink gets an event at most once, written or failed, and gets the events
\* of the queue in the order they were emitted, unless stop() went on while
\* the worker was still dispatching.
AtMostOnceInOrder ==
  \A s \in Sinks :
    /\ \A i, j \in DOMAIN written[s] :
         i < j => written[s][i] # written[s][j] /\ (async /\ ~late => written[s][i] < written[s][j])
    /\ \A i \in DOMAIN written[s] : written[s][i] \notin failed[s]

\* Every accepted event is handed to every sink, whichever of them raises,
\* unless it was accepted while or after the bus was stopped.
EventsHandled ==
  \A e \in Events : e \in accepted ~> (Handled(e) \/ e \notin early)
=============================================================================
