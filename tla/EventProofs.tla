---------------------------- MODULE EventProofs ----------------------------
(***************************************************************************)
(* Theorems about what is told to the outside: the security events of      *)
(* EventBus, for any number of emitting threads, sinks and events and      *)
(* every size of the queue; and Mutations with the change events it        *)
(* announces, for any records, foreign keys, requests and numbers of other *)
(* transactions.                                                           *)
(***************************************************************************)
EXTENDS EventBus, Mutations, TLAPS, SequenceTheorems, FiniteSetTheorems
-----------------------------------------------------------------------------
(* The event bus *)

\* Sink s was called with event e.
Touched(s, e) == e \in failed[s] \/ \E i \in DOMAIN written[s] : written[s][i] = e

\* The queue holds the latest events, in the order they were emitted.
QueueInv ==
  /\ ~async => queue = << >>
  /\ \A i \in DOMAIN queue : queue[i] <= emitted
  /\ \A i, j \in DOMAIN queue : i < j => queue[i] < queue[j]

\* A dispatched event left the queue before those in it, and is dispatched by
\* one thread only.
HandInv ==
  /\ \A d \in Dispatchers : hand[d].event <= emitted
  /\ \A d \in Dispatchers : \A i \in DOMAIN queue : hand[d].event < queue[i]
  /\ \A c, d \in Dispatchers : c # d /\ hand[c].event = hand[d].event => hand[c].event = 0

\* What a sink was called with has left the queue, and the thread that still
\* dispatches it is past that sink.
TouchedInv ==
  \A s \in Sinks : \A e \in Events : Touched(s, e) =>
    /\ e <= emitted
    /\ \A i \in DOMAIN queue : e < queue[i]
    /\ \A d \in Dispatchers : hand[d].event = e => s < hand[d].sink

\* As long as the worker did not outlive the join, the worker and stop() do
\* not dispatch at the same time.
TurnInv ==
  /\ worker # "dispatch" => hand[Worker].event = 0
  /\ stopping # "flush" => hand[Stopper].event = 0
  /\ async => \A d \in Emitters : hand[d].event = 0
  /\ stopping \in {"flush", "closed"} /\ ~late => worker = "ended"

\* Then what was written is older than what is being dispatched.
OrderInv ==
  async /\ ~late =>
    \A s \in Sinks : \A i \in DOMAIN written[s] : \A d \in Dispatchers :
      hand[d].event # 0 => written[s][i] <= hand[d].event

IInv == /\ TypeOK /\ QueueInv /\ HandInv /\ TouchedInv /\ TurnInv /\ OrderInv
        /\ AtMostOnceInOrder
-----------------------------------------------------------------------------
\* The types of what the proofs compare.
LEMMA Numbers ==
  ASSUME TypeOK
  PROVE  /\ MaxEvents \in Nat /\ NumSinks \in Nat \ {0} /\ emitted \in Nat
         /\ \A i \in DOMAIN queue : queue[i] \in Events /\ queue[i] \in Nat /\ queue[i] # 0
         /\ \A d \in Dispatchers : hand[d].event \in Nat /\ hand[d].sink \in Sinks
         /\ \A d \in Dispatchers : hand[d].event # 0 => hand[d].event \in Events
         /\ \A s \in Sinks : /\ written[s] \in Seq(Events) /\ failed[s] \subseteq Events
                             /\ \A i \in DOMAIN written[s] : written[s][i] \in Events
         /\ \A e \in Events : e \in Nat /\ e # 0
         /\ \A s \in Sinks : s \in Nat
  BY SizesAssumption DEF TypeOK, Events, Sinks

LEMMA InitIInv == Init => IInv
<1> SUFFICES ASSUME Init PROVE IInv
  OBVIOUS
<1>1. TypeOK
  <2>1. 1 \in Sinks /\ emitted \in 0 .. MaxEvents
    BY SizesAssumption DEF Init, Sinks
  <2>2. hand \in [Dispatchers -> [event : Events \cup {0}, sink : Sinks]]
    BY <2>1 DEF Init, Free
  <2>3. written \in [Sinks -> Seq(Events)] /\ failed \in [Sinks -> SUBSET Events]
    BY DEF Init
  <2>4. queue \in Seq(Events) /\ Len(queue) <= QueueSize
    BY SizesAssumption DEF Init
  <2> QED
    BY <2>1, <2>2, <2>3, <2>4 DEF Init, TypeOK
<1>2. hand = [d \in Dispatchers |-> Free] /\ Free.event = 0 /\ emitted = 0 /\ queue = << >>
  BY DEF Init, Free
<1>3. \A s \in Sinks : written[s] = << >> /\ failed[s] = {}
  BY DEF Init
<1>4. QueueInv /\ HandInv
  BY <1>2 DEF QueueInv, HandInv
<1>5. TouchedInv /\ OrderInv /\ AtMostOnceInOrder
  BY <1>3 DEF TouchedInv, Touched, OrderInv, AtMostOnceInOrder
<1>6. TurnInv
  BY <1>2 DEF TurnInv, Init, Dispatchers
<1> QED
  BY <1>1, <1>4, <1>5, <1>6 DEF IInv
-----------------------------------------------------------------------------
\* Steps that move no event: the rounds of the worker and of stop().
LEMMA QuietSteps ==
  ASSUME IInv, Loop \/ Done \/ Stop \/ Joined \/ JoinTimeout \/ UNCHANGED vars PROVE IInv'
<1>1. /\ UNCHANGED <<async, queue, emitted, accepted, hand, written, failed, early>>
      /\ late => late'
  BY DEF Loop, Done, Stop, Joined, JoinTimeout, Others, vars
<1>2. TypeOK'
  BY <1>1 DEF IInv, TypeOK, Loop, Done, Stop, Joined, JoinTimeout, vars
<1>3. QueueInv' /\ HandInv' /\ TouchedInv' /\ OrderInv' /\ AtMostOnceInOrder'
  BY <1>1 DEF IInv, QueueInv, HandInv, TouchedInv, Touched, OrderInv, AtMostOnceInOrder
<1>4. TurnInv'
  BY <1>1 DEF IInv, TypeOK, TurnInv, Loop, Done, Stop, Joined, JoinTimeout, vars, Dispatchers, Free
<1> QED
  BY <1>2, <1>3, <1>4 DEF IInv

\* The oldest event leaves the queue for a dispatcher.
LEMMA Removed ==
  ASSUME IInv, NEW d \in Dispatchers, queue # << >>, queue' = Tail(queue),
         Holding(d, Head(queue)), UNCHANGED <<async, emitted, written, failed>>
  PROVE  /\ queue' \in Seq(Events) /\ Len(queue') <= QueueSize
         /\ hand' \in [Dispatchers -> [event : Events \cup {0}, sink : Sinks]]
         /\ QueueInv' /\ HandInv' /\ TouchedInv'
         /\ \A c \in Dispatchers : c # d => hand'[c] = hand[c]
         /\ hand'[d].event = queue[1] /\ queue[1] # 0
<1>1. /\ queue \in Seq(Events) /\ Len(queue) \in Nat \ {0} /\ DOMAIN queue = 1 .. Len(queue)
      /\ Len(queue) <= QueueSize /\ QueueSize \in Nat
  BY SizesAssumption DEF IInv, TypeOK
<1>2. /\ queue' \in Seq(Events) /\ Len(queue') = Len(queue) - 1
      /\ \A i \in DOMAIN queue' : i + 1 \in DOMAIN queue /\ queue'[i] = queue[i + 1]
      /\ Head(queue) = queue[1] /\ 1 \in DOMAIN queue
      /\ DOMAIN queue' = 1 .. Len(queue) - 1
  BY <1>1
<1>3. Len(queue') <= QueueSize
  BY <1>1, <1>2
<1>4. /\ hand' = [hand EXCEPT ![d] = [event |-> queue[1], sink |-> 1]]
      /\ queue[1] \in Events /\ 1 \in Sinks
  <2>1. queue[1] \in Events
    BY <1>2, Numbers DEF IInv
  <2>2. 1 \in Sinks
    BY SizesAssumption DEF Sinks
  <2>3. [Free EXCEPT !.event = queue[1]] = [event |-> queue[1], sink |-> 1]
    BY DEF Free
  <2> QED
    BY <1>2, <2>1, <2>2, <2>3 DEF Holding
<1>5. /\ hand' \in [Dispatchers -> [event : Events \cup {0}, sink : Sinks]]
      /\ \A c \in Dispatchers : c # d => hand'[c] = hand[c]
      /\ hand'[d].event = queue[1] /\ hand'[d].sink = 1
  BY <1>4 DEF IInv, TypeOK
<1>6. \A i \in DOMAIN queue' : i \in Nat /\ queue[1] < queue'[i]
  BY <1>1, <1>2 DEF IInv, QueueInv
<1>7. QueueInv'
  BY <1>1, <1>2 DEF IInv, QueueInv
<1>8. HandInv'
  <2>1. queue[1] <= emitted /\ \A c \in Dispatchers : hand[c].event # queue[1]
    BY <1>2, Numbers DEF IInv, QueueInv, HandInv
  <2>2. \A c \in Dispatchers : hand'[c].event <= emitted
    BY <1>5, <2>1 DEF IInv, HandInv
  <2>3. \A c \in Dispatchers : \A i \in DOMAIN queue' : hand'[c].event < queue'[i]
    BY <1>2, <1>5, <1>6 DEF IInv, HandInv
  <2>4. \A b, c \in Dispatchers :
          b # c /\ hand'[b].event = hand'[c].event => hand'[b].event = 0
    <3> SUFFICES ASSUME NEW b \in Dispatchers, NEW c \in Dispatchers, b # c,
                        hand'[b].event = hand'[c].event
                 PROVE  hand'[b].event = 0
      OBVIOUS
    <3>1. b # d /\ c # d
      BY <1>5, <2>1
    <3> QED
      BY <1>5, <3>1 DEF IInv, HandInv
  <2> QED
    BY <2>2, <2>3, <2>4 DEF HandInv
<1>9. TouchedInv'
  <2>1. \A s \in Sinks : \A e \in Events : Touched(s, e) => e # queue[1]
    BY <1>2, Numbers DEF IInv, TouchedInv
  <2>2. \A s \in Sinks : \A e \in Events : Touched(s, e)' <=> Touched(s, e)
    BY DEF Touched
  <2> QED
    BY <1>2, <1>5, <2>1, <2>2 DEF IInv, TouchedInv
<1>10. queue[1] # 0
  BY <1>4, Numbers DEF IInv
<1> QED
  BY <1>2, <1>3, <1>5, <1>7, <1>8, <1>9, <1>10

LEMMA TakeSteps == ASSUME IInv, Take \/ Flush PROVE IInv'
<1>1. CASE queue = << >>
  <2>1. UNCHANGED <<async, queue, emitted, accepted, hand, written, failed, early, late>>
    BY <1>1 DEF Take, Flush, Others
  <2>2. TypeOK'
    BY <1>1, <2>1 DEF IInv, TypeOK, Take, Flush
  <2>3. QueueInv' /\ HandInv' /\ TouchedInv' /\ OrderInv' /\ AtMostOnceInOrder'
    BY <2>1 DEF IInv, QueueInv, HandInv, TouchedInv, Touched, OrderInv, AtMostOnceInOrder
  <2>4. TurnInv'
    BY <1>1, <2>1 DEF IInv, TypeOK, TurnInv, Take, Flush, Free
  <2> QED
    BY <2>2, <2>3, <2>4 DEF IInv
<1>2. ASSUME queue # << >>,
             NEW d \in Dispatchers, NEW c \in Dispatchers, c # d, {c, d} = {Worker, Stopper},
             Holding(d, Head(queue)), queue' = Tail(queue),
             TypeOK', TurnInv', async /\ ~late => hand[c].event = 0,
             UNCHANGED <<async, emitted, written, failed, late>>
      PROVE  IInv'
  <2>1. /\ QueueInv' /\ HandInv' /\ TouchedInv'
        /\ \A b \in Dispatchers : b # d => hand'[b] = hand[b]
        /\ hand'[d].event = queue[1]
    BY <1>2, Removed
  <2>2. OrderInv'
    <3> SUFFICES ASSUME async, ~late, NEW s \in Sinks, NEW i \in DOMAIN written[s],
                        NEW b \in Dispatchers, hand'[b].event # 0
                 PROVE  written[s][i] <= hand'[b].event
      BY <1>2 DEF OrderInv
    <3>1. b = d
      BY <1>2, <2>1 DEF IInv, TurnInv, Dispatchers
    <3>2. Touched(s, written[s][i]) /\ written[s][i] \in Events
      BY Numbers DEF Touched, IInv
    <3>3. 1 \in DOMAIN queue
      BY <1>2 DEF IInv, TypeOK
    <3>4. written[s][i] < queue[1]
      BY <3>2, <3>3 DEF IInv, TouchedInv
    <3> QED
      BY <2>1, <3>1, <3>2, <3>3, <3>4, Numbers DEF IInv
  <2>3. AtMostOnceInOrder'
    BY <1>2 DEF IInv, AtMostOnceInOrder
  <2> QED
    BY <1>2, <2>1, <2>2, <2>3 DEF IInv
<1>3. CASE Take /\ queue # << >>
  <2>1. /\ Holding(Worker, Head(queue)) /\ queue' = Tail(queue) /\ worker = "get"
        /\ worker' = "dispatch"
        /\ UNCHANGED <<async, emitted, accepted, written, failed, early, late, stopping, running>>
    BY <1>3 DEF Take, Others
  <2>2. /\ queue' \in Seq(Events) /\ Len(queue') <= QueueSize
        /\ hand' \in [Dispatchers -> [event : Events \cup {0}, sink : Sinks]]
        /\ \A b \in Dispatchers : b # Worker => hand'[b] = hand[b]
    BY <1>3, <2>1, Removed DEF Dispatchers
  <2>3. TypeOK'
    BY <2>1, <2>2 DEF IInv, TypeOK
  <2>4. TurnInv'
    BY <2>1, <2>2, DispatchersAssumption DEF IInv, TurnInv, Dispatchers
  <2>5. async /\ ~late => hand[Stopper].event = 0
    BY <2>1 DEF IInv, TurnInv
  <2> QED
    BY <1>2, <1>3, <2>1, <2>3, <2>4, <2>5, DispatchersAssumption DEF Dispatchers
<1>4. CASE Flush /\ queue # << >>
  <2>1. /\ Holding(Stopper, Head(queue)) /\ queue' = Tail(queue) /\ stopping = "flush"
        /\ UNCHANGED <<async, emitted, accepted, written, failed, early, late, stopping, running,
                       worker>>
    BY <1>4 DEF Flush, Others
  <2>2. /\ queue' \in Seq(Events) /\ Len(queue') <= QueueSize
        /\ hand' \in [Dispatchers -> [event : Events \cup {0}, sink : Sinks]]
        /\ \A b \in Dispatchers : b # Stopper => hand'[b] = hand[b]
    BY <1>4, <2>1, Removed DEF Dispatchers
  <2>3. TypeOK'
    BY <2>1, <2>2 DEF IInv, TypeOK
  <2>4. TurnInv'
    BY <2>1, <2>2, DispatchersAssumption DEF IInv, TurnInv, Dispatchers
  <2>5. async /\ ~late => hand[Worker].event = 0
    BY <2>1 DEF IInv, TurnInv
  <2> QED
    BY <1>2, <1>4, <2>1, <2>3, <2>4, <2>5, DispatchersAssumption DEF Dispatchers
<1> QED
  BY <1>1, <1>3, <1>4
-----------------------------------------------------------------------------
\* A dispatcher calls the next sink.
LEMMA WriteStep == ASSUME IInv, NEW d \in Dispatchers, Write(d) PROVE IInv'
<1> DEFINE e == hand[d].event  s == hand[d].sink
<1>1. /\ e # 0 /\ e \in Events /\ e \in Nat /\ s \in Sinks /\ s \in Nat
      /\ UNCHANGED <<async, running, queue, emitted, accepted, worker, stopping, early, late>>
  BY Numbers DEF Write, IInv
<1>2. ~Touched(s, e)
  BY <1>1 DEF IInv, TouchedInv
<1>3. /\ hand' \in [Dispatchers -> [event : Events \cup {0}, sink : Sinks]]
      /\ \A c \in Dispatchers : c # d => hand'[c] = hand[c]
      /\ hand'[d].event = 0 \/ (hand'[d].event = e /\ hand'[d].sink = s + 1)
  <2>1. CASE s = NumSinks
    <3>1. hand' = [hand EXCEPT ![d] = Free] /\ 1 \in Sinks
      BY <2>1, SizesAssumption DEF Write, Sinks
    <3> QED
      BY <3>1 DEF IInv, TypeOK, Free
  <2>2. CASE s # NumSinks
    <3>1. hand' = [hand EXCEPT ![d].sink = s + 1] /\ s + 1 \in Sinks
      BY <1>1, <2>2, SizesAssumption DEF Write, Sinks
    <3> QED
      BY <3>1 DEF IInv, TypeOK
  <2> QED
    BY <2>1, <2>2
<1>4. /\ written' \in [Sinks -> Seq(Events)] /\ failed' \in [Sinks -> SUBSET Events]
      /\ \A t \in Sinks : t # s => written'[t] = written[t] /\ failed'[t] = failed[t]
      /\ \/ written'[s] = Append(written[s], e) /\ failed'[s] = failed[s]
         \/ failed'[s] = failed[s] \cup {e} /\ written'[s] = written[s]
  <2>1. written \in [Sinks -> Seq(Events)] /\ failed \in [Sinks -> SUBSET Events]
    BY DEF IInv, TypeOK
  <2>2. \/ written' = [written EXCEPT ![s] = Append(written[s], e)] /\ failed' = failed
        \/ failed' = [failed EXCEPT ![s] = failed[s] \cup {e}] /\ written' = written
    BY DEF Write
  <2>3. Append(written[s], e) \in Seq(Events) /\ failed[s] \cup {e} \in SUBSET Events
    BY <1>1, <2>1
  <2> HIDE DEF e, s
  <2> QED
    BY <1>1, <2>1, <2>2, <2>3
<1>5. /\ written[s] \in Seq(Events) /\ Len(written[s]) \in Nat
      /\ \A i \in DOMAIN written'[s] : i \in Nat /\
           \/ i \in DOMAIN written[s] /\ written'[s][i] = written[s][i]
           \/ i = Len(written[s]) + 1 /\ written'[s][i] = e /\ failed'[s] = failed[s]
      /\ DOMAIN written[s] = 1 .. Len(written[s])
  <2>1. written[s] \in Seq(Events)
    BY <1>1 DEF IInv, TypeOK
  <2>2. CASE written'[s] = Append(written[s], e) /\ failed'[s] = failed[s]
    BY <1>1, <2>1, <2>2
  <2>3. CASE written'[s] = written[s]
    BY <2>1, <2>3
  <2> QED
    BY <1>4, <2>1, <2>2, <2>3
<1> HIDE DEF e, s
<1>6. \A t \in Sinks : \A f \in Events : Touched(t, f)' => Touched(t, f) \/ (t = s /\ f = e)
  <2> SUFFICES ASSUME NEW t \in Sinks, NEW f \in Events, Touched(t, f)'
               PROVE  Touched(t, f) \/ (t = s /\ f = e)
    OBVIOUS
  <2>1. CASE t # s
    BY <1>4, <2>1 DEF Touched
  <2>2. CASE t = s
    <3>1. CASE f \in failed'[s]
      BY <1>4, <2>2, <3>1 DEF Touched
    <3>2. CASE \E i \in DOMAIN written'[s] : written'[s][i] = f
      BY <1>5, <2>2, <3>2 DEF Touched
    <3> QED
      BY <2>2, <3>1, <3>2 DEF Touched
  <2> QED
    BY <2>1, <2>2
<1>7. TypeOK'
  BY <1>1, <1>3, <1>4 DEF IInv, TypeOK
<1>8. QueueInv'
  BY <1>1 DEF IInv, QueueInv
<1>9. /\ e = hand[d].event /\ s = hand[d].sink
      /\ \A i \in DOMAIN queue : 0 < queue[i] /\ e < queue[i]
      /\ e <= emitted /\ emitted \in Nat
      /\ \A c \in Dispatchers : c # d => hand[c].event # e
  BY <1>1, Numbers DEF e, s, IInv, HandInv
<1>10. HandInv'
  <2>1. \A c \in Dispatchers : hand'[c].event = hand[c].event \/ hand'[c].event = 0
    BY <1>3, <1>9
  <2> QED
    BY <1>1, <1>9, <2>1 DEF IInv, HandInv
<1>11. TouchedInv'
  <2> SUFFICES ASSUME NEW t \in Sinks, NEW f \in Events, Touched(t, f)'
               PROVE  /\ f <= emitted /\ \A i \in DOMAIN queue : f < queue[i]
                      /\ \A c \in Dispatchers : hand'[c].event = f => t < hand'[c].sink
    BY <1>1 DEF TouchedInv
  <2>1. f # 0 /\ t \in Nat
    BY Numbers DEF IInv
  <2>2. CASE Touched(t, f)
    <3>1. /\ f <= emitted /\ \A i \in DOMAIN queue : f < queue[i]
          /\ \A c \in Dispatchers : hand[c].event = f => t < hand[c].sink
      BY <2>2 DEF IInv, TouchedInv
    <3>2. hand'[d].event = f => t < hand'[d].sink
      BY <1>1, <1>3, <1>9, <2>1, <3>1
    <3> QED
      BY <1>3, <3>1, <3>2
  <2>3. CASE t = s /\ f = e
    BY <1>1, <1>3, <1>9, <2>1, <2>3
  <2> QED
    BY <1>6, <2>2, <2>3
<1>12. TurnInv'
  <2>1. \A c \in Dispatchers : hand[c].event = 0 => hand'[c].event = 0
    BY <1>1, <1>3, <1>9
  <2> QED
    BY <1>1, <2>1 DEF IInv, TurnInv, Dispatchers
<1>13. async /\ ~late => \A c \in Dispatchers : c # d => hand[c].event = 0
  BY <1>1, <1>9 DEF IInv, TypeOK, TurnInv, Dispatchers
<1>14. async /\ ~late => \A t \in Sinks : \A i \in DOMAIN written[t] : written[t][i] <= e
  BY <1>1, <1>9 DEF IInv, OrderInv
<1>15. OrderInv'
  <2> SUFFICES ASSUME async, ~late, NEW t \in Sinks, NEW i \in DOMAIN written'[t],
                      NEW c \in Dispatchers, hand'[c].event # 0
               PROVE  written'[t][i] <= hand'[c].event
    BY <1>1 DEF OrderInv
  <2>1. c = d /\ hand'[c].event = e
    BY <1>3, <1>13
  <2>2. written'[t][i] <= e
    BY <1>1, <1>4, <1>5, <1>14
  <2> QED
    BY <2>1, <2>2
<1>16. AtMostOnceInOrder'
  <2> SUFFICES ASSUME NEW t \in Sinks
               PROVE  /\ \A i, j \in DOMAIN written'[t] :
                           i < j => /\ written'[t][i] # written'[t][j]
                                    /\ async /\ ~late => written'[t][i] < written'[t][j]
                      /\ \A i \in DOMAIN written'[t] : written'[t][i] \notin failed'[t]
    BY <1>1 DEF AtMostOnceInOrder
  <2>1. CASE t # s
    BY <1>4, <2>1 DEF IInv, AtMostOnceInOrder
  <2>2. CASE t = s
    <3>1. \A i \in DOMAIN written[s] : written[s][i] # e /\ written[s][i] \in Nat
      BY <1>1, <1>2, <1>9, Numbers DEF Touched, IInv
    <3>2. e \notin failed[s]
      BY <1>2, <1>9 DEF Touched
    <3>3. \A i, j \in DOMAIN written'[s] : i < j => i \in DOMAIN written[s]
                                                  /\ written'[s][i] = written[s][i]
      BY <1>5
    <3>4. ASSUME NEW i \in DOMAIN written'[s], NEW j \in DOMAIN written'[s], i < j
          PROVE  /\ written'[s][i] # written'[s][j]
                 /\ async /\ ~late => written'[s][i] < written'[s][j]
      <4>1. i \in DOMAIN written[s] /\ written'[s][i] = written[s][i]
        BY <3>3, <3>4
      <4>2. CASE j \in DOMAIN written[s] /\ written'[s][j] = written[s][j]
        BY <1>1, <3>4, <4>1, <4>2 DEF IInv, AtMostOnceInOrder
      <4>3. CASE written'[s][j] = e
        BY <1>1, <1>14, <3>1, <4>1, <4>3
      <4> QED
        BY <1>5, <4>2, <4>3
    <3>5. \A i \in DOMAIN written'[s] : written'[s][i] \notin failed'[s]
      <4>1. \A i \in DOMAIN written[s] : written[s][i] \notin failed[s]
        BY <1>1 DEF IInv, AtMostOnceInOrder
      <4> QED
        BY <1>4, <1>5, <3>1, <3>2, <4>1
    <3> QED
      BY <2>2, <3>4, <3>5
  <2> QED
    BY <2>1, <2>2
<1> QED
  BY <1>7, <1>8, <1>10, <1>11, <1>12, <1>15, <1>16 DEF IInv
-----------------------------------------------------------------------------
\* A new event is later than every other.
LEMMA EmitStep == ASSUME IInv, NEW d \in Emitters, Emit(d) PROVE IInv'
<1>1. /\ UNCHANGED <<async, running, worker, stopping, written, failed, late>>
      /\ hand[d] = Free /\ hand[d].event = 0
  BY DEF Emit, Free
<1>2. /\ emitted' \in 0 .. MaxEvents /\ emitted \in Nat /\ emitted' \in Nat
      /\ emitted <= emitted'
      /\ accepted' \subseteq Events /\ early' \subseteq Events
  BY SizesAssumption DEF Emit, IInv, TypeOK, Events
<1>3. CASE async
  <2>1. UNCHANGED hand
    BY <1>3 DEF Emit
  <2>2. /\ queue' \in Seq(Events) /\ Len(queue') <= QueueSize
        /\ \A i \in DOMAIN queue' : i \in Nat /\
             \/ i \in DOMAIN queue /\ queue'[i] = queue[i]
             \/ i = Len(queue) + 1 /\ queue'[i] = emitted + 1 /\ emitted' = emitted + 1
        /\ DOMAIN queue = 1 .. Len(queue) /\ Len(queue) \in Nat
    <3>1. /\ queue \in Seq(Events) /\ Len(queue) <= QueueSize /\ QueueSize \in Nat
          /\ DOMAIN queue = 1 .. Len(queue) /\ Len(queue) \in Nat
      BY SizesAssumption DEF IInv, TypeOK
    <3>2. CASE queue' = queue
      BY <3>1, <3>2
    <3>3. CASE /\ queue' = Append(queue, emitted + 1) /\ emitted' = emitted + 1
               /\ Len(queue) < QueueSize /\ emitted < MaxEvents
      <4>1. emitted + 1 \in Events
        BY <1>2, <3>3, SizesAssumption DEF Events
      <4> QED
        BY <3>1, <3>3, <4>1
    <3> QED
      BY <1>3, <3>1, <3>2, <3>3 DEF Emit
  <2>3. TypeOK'
    BY <1>1, <1>2, <2>1, <2>2 DEF IInv, TypeOK
  <2>4. QueueInv'
    <3>1. \A i \in DOMAIN queue : queue[i] <= emitted /\ queue[i] \in Nat
      BY Numbers DEF IInv, QueueInv
    <3>2. \A i \in DOMAIN queue' : queue'[i] <= emitted'
      BY <1>2, <2>2, <3>1
    <3>3. \A i, j \in DOMAIN queue' : i < j => queue'[i] < queue'[j]
      BY <1>2, <2>2, <3>1 DEF IInv, QueueInv
    <3> QED
      BY <1>1, <1>3, <3>2, <3>3 DEF QueueInv
  <2>5. HandInv'
    <3>1. \A c \in Dispatchers : hand[c].event \in Nat /\ hand[c].event <= emitted
      BY Numbers DEF IInv, HandInv
    <3> QED
      BY <1>2, <2>1, <2>2, <3>1 DEF IInv, HandInv
  <2>6. TouchedInv'
    <3>1. \A t \in Sinks : \A f \in Events : Touched(t, f)' => Touched(t, f) /\ f \in Nat
      BY <1>1, Numbers DEF Touched, IInv
    <3> QED
      BY <1>2, <2>1, <2>2, <3>1 DEF IInv, TouchedInv
  <2> QED
    BY <1>1, <2>1, <2>3, <2>4, <2>5, <2>6 DEF IInv, TurnInv, OrderInv, AtMostOnceInOrder
<1>4. CASE ~async /\ UNCHANGED hand
  <2>1. UNCHANGED queue /\ queue = << >>
    BY <1>4 DEF Emit, IInv, QueueInv
  <2>2. TypeOK'
    BY <1>1, <1>2, <1>4, <2>1 DEF IInv, TypeOK
  <2>3. QueueInv' /\ HandInv' /\ TouchedInv'
    <3>1. \A c \in Dispatchers : hand[c].event \in Nat /\ hand[c].event <= emitted
      BY Numbers DEF IInv, HandInv
    <3>2. \A t \in Sinks : \A f \in Events : Touched(t, f)' => Touched(t, f) /\ f \in Nat
      BY <1>1, Numbers DEF Touched, IInv
    <3> QED
      BY <1>1, <1>2, <1>4, <2>1, <3>1, <3>2 DEF IInv, QueueInv, HandInv, TouchedInv
  <2> QED
    BY <1>1, <1>4, <2>2, <2>3 DEF IInv, TurnInv, OrderInv, AtMostOnceInOrder
<1>5. CASE ~async /\ emitted < MaxEvents /\ Holding(d, emitted + 1)
  <2>1. UNCHANGED queue /\ queue = << >> /\ emitted' = emitted + 1
    BY <1>5 DEF Emit, IInv, QueueInv
  <2>2. emitted + 1 \in Events /\ 1 \in Sinks
    BY <1>2, <1>5, SizesAssumption DEF Events, Sinks
  <2>3. [Free EXCEPT !.event = emitted + 1] = [event |-> emitted + 1, sink |-> 1]
    BY DEF Free
  <2>4. /\ hand' \in [Dispatchers -> [event : Events \cup {0}, sink : Sinks]]
        /\ \A c \in Dispatchers : c # d => hand'[c] = hand[c]
        /\ hand'[d].event = emitted + 1
    BY <1>5, <2>2, <2>3 DEF Holding, IInv, TypeOK, Dispatchers
  <2>5. TypeOK'
    BY <1>1, <1>2, <2>1, <2>4 DEF IInv, TypeOK
  <2>6. \A c \in Dispatchers : hand[c].event \in Nat /\ hand[c].event <= emitted
    BY Numbers DEF IInv, HandInv
  <2>7. QueueInv'
    BY <2>1 DEF QueueInv
  <2>8. HandInv'
    <3>1. \A c \in Dispatchers : c # d => hand'[c].event # emitted + 1
      BY <1>2, <2>4, <2>6
    <3> QED
      BY <1>2, <2>1, <2>4, <2>6, <3>1 DEF IInv, HandInv
  <2>9. TouchedInv'
    <3>1. \A t \in Sinks : \A f \in Events :
            Touched(t, f)' => Touched(t, f) /\ f \in Nat /\ f <= emitted
      BY <1>1, Numbers DEF Touched, IInv, TouchedInv
    <3> QED
      BY <1>2, <2>1, <2>4, <3>1 DEF IInv, TouchedInv
  <2>10. TurnInv'
    BY <1>1, <1>5, <2>4, DispatchersAssumption DEF IInv, TurnInv, Dispatchers
  <2> QED
    BY <1>1, <1>5, <2>5, <2>7, <2>8, <2>9, <2>10 DEF IInv, OrderInv, AtMostOnceInOrder
<1> QED
  BY <1>3, <1>4, <1>5 DEF Emit
-----------------------------------------------------------------------------
\* The inductive invariant holds in every reachable state.
THEOREM BusInvariant == Spec => []IInv
<1>1. IInv /\ [Next]_vars => IInv'
  BY QuietSteps, TakeSteps, WriteStep, EmitStep DEF Next, Work, StopOn, Dispatchers
<1> QED
  BY <1>1, InitIInv, PTL DEF Spec

\* Every variable keeps its type; in particular the queue never grows over its
\* bound.
THEOREM TypeCorrect == Spec => []TypeOK
<1>1. IInv => TypeOK
  BY DEF IInv
<1> QED
  BY <1>1, BusInvariant, PTL

\* No sink is called twice with an event, and as long as the worker does not
\* outlive stop()'s join, sinks write the queued events in the order they were
\* emitted, although two threads empty the queue one after the other.
THEOREM WrittenOnceInOrder == Spec => []AtMostOnceInOrder
<1>1. IInv => AtMostOnceInOrder
  BY DEF IInv
<1> QED
  BY <1>1, BusInvariant, PTL
-----------------------------------------------------------------------------
(* The generated mutations *)

\* Statements about the items, and those about the roots.
ItemSteps == {"link", "unlink", "edit", "add"}
Sound == {s \in Statement : s.obj \in IF s.do \in ItemSteps THEN Items ELSE Roots}

\* The records that statements of a kind are about, and the order in which a
\* create or an update runs the kinds; only those about items are repeated.
Asked(s, what) == {s[n].obj : n \in {m \in DOMAIN s : s[m].do = what}}
Has(s, what) == Asked(s, what) # {}
Rank == [save |-> 0, store |-> 0, existing |-> 1, detach |-> 2, nullable |-> 3,
         unlink |-> 4, link |-> 5, add |-> 6, edit |-> 7]
Before(s, t) == Rank[s.do] < Rank[t.do] \/ (s.do = t.do /\ s.do \in ItemSteps)
\* A part of such a plan, of statements of these ranks.
Part(s, low, high) ==
  /\ s \in Seq(Sound)
  /\ \A n \in DOMAIN s : s[n].do \in DOMAIN Rank /\ Rank[s[n].do] \in low .. high
  /\ \A m, n \in DOMAIN s : m < n => Before(s[m], s[n])
-----------------------------------------------------------------------------
(* Plans *)

\* SetToSeq lists a finite set.
LEMMA Listed ==
  ASSUME NEW S, IsFiniteSet(S)
  PROVE  /\ SetToSeq(S) \in Seq(S)
         /\ \A x \in S : \E n \in DOMAIN SetToSeq(S) : SetToSeq(S)[n] = x
<1> DEFINE D == 1 .. Cardinality(S)  f == SetToSeq(S)
<1>1. Cardinality(S) \in Nat /\ ExistsBijection(D, S)
  BY FS_CardinalityType
<1>2. \E g \in [D -> S] : IsInjective(g)
  BY <1>1 DEF ExistsBijection, Bijection, Injection
<1>3. f \in [D -> S] /\ IsInjective(f)
  BY <1>2 DEF SetToSeq
<1> HIDE DEF f
<1>4. f \in Injection(D, S) /\ IsFiniteSet(D) /\ Cardinality(D) = Cardinality(S)
  <2>1. Cardinality(D) = Cardinality(S) /\ IsFiniteSet(D)
    BY <1>1, FS_Interval
  <2> QED
    BY <1>3, <2>1 DEF Injection
<1>5. f \in Surjection(D, S)
  BY <1>4, FS_Injection
<1>6. f \in Seq(S)
  BY <1>1, <1>3
<1> QED
  BY <1>3, <1>5, <1>6 DEF f, Surjection

\* The statements of one kind, one about each record.
LEMMA EachSound ==
  ASSUME NEW what, NEW S, IsFiniteSet(S), \A x \in S : Do(what, x) \in Sound
  PROVE  /\ Each(what, S) \in Seq(Sound)
         /\ \A n \in DOMAIN Each(what, S) : Each(what, S)[n].do = what
         /\ \A v : Asked(Each(what, S), v) = IF v = what THEN S ELSE {}
<1> DEFINE q == SetToSeq(S)  e == Each(what, S)
<1>1. q \in Seq(S) /\ \A x \in S : \E n \in DOMAIN q : q[n] = x
  BY Listed
<1>2. e = [n \in DOMAIN q |-> Do(what, q[n])]
  BY DEF Each
<1> HIDE DEF q, e
<1>3. DOMAIN q = 1 .. Len(q) /\ Len(q) \in Nat /\ \A n \in DOMAIN q : q[n] \in S
  BY <1>1
<1>4. DOMAIN e = DOMAIN q /\ \A n \in DOMAIN q : e[n].do = what /\ e[n].obj = q[n]
  BY <1>2 DEF Do
<1>5. e \in Seq(Sound)
  BY <1>2, <1>3
<1>6. ASSUME NEW v PROVE Asked(e, v) = IF v = what THEN S ELSE {}
  <2>1. CASE v = what
    BY <1>1, <1>3, <1>4, <2>1 DEF Asked
  <2>2. CASE v # what
    BY <1>4, <2>2 DEF Asked
  <2> QED
    BY <2>1, <2>2
<1> QED
  BY <1>4, <1>5, <1>6 DEF e

LEMMA EachNone ==
  ASSUME NEW what PROVE Each(what, {}) = <<>>
<1> DEFINE e == Each(what, {})
<1>1. /\ e \in Seq(Sound) /\ (\A n \in DOMAIN e : e[n].do = what)
      /\ Asked(e, what) = {}
  BY EachSound, FS_EmptySet
<1> HIDE DEF e
<1>2. \A n \in DOMAIN e : FALSE
  BY <1>1 DEF Asked
<1>3. e = <<>>
  BY <1>1, <1>2, EmptySeq, LenProperties
<1> QED
  BY <1>3 DEF e

LEMMA EachPart ==
  ASSUME NEW what \in ItemSteps, NEW S \in SUBSET Items, IsFiniteSet(S)
  PROVE  /\ Part(Each(what, S), Rank[what], Rank[what])
         /\ \A v : Asked(Each(what, S), v) = IF v = what THEN S ELSE {}
<1>1. \A x \in S : Do(what, x) \in Sound
  BY DEF Do, Sound, Statement, ItemSteps, Lookups, Objects
<1>2. /\ Each(what, S) \in Seq(Sound)
      /\ \A n \in DOMAIN Each(what, S) : Each(what, S)[n].do = what
      /\ \A v : Asked(Each(what, S), v) = IF v = what THEN S ELSE {}
  BY <1>1, EachSound
<1>3. what \in DOMAIN Rank /\ Rank[what] \in Rank[what] .. Rank[what]
  BY DEF Rank, ItemSteps
<1> QED
  BY <1>2, <1>3 DEF Part, Before

\* One statement about the root.
LEMMA OnePart ==
  ASSUME NEW what \in DOMAIN Rank, what \notin ItemSteps, NEW r \in Roots
  PROVE  /\ Part(<<Do(what, r)>>, Rank[what], Rank[what])
         /\ \A v : Asked(<<Do(what, r)>>, v) = IF v = what THEN {r} ELSE {}
<1> DEFINE s == <<Do(what, r)>>
<1>1. Do(what, r) \in Sound /\ Do(what, r).do = what /\ Do(what, r).obj = r
  BY DEF Do, Sound, Statement, ItemSteps, Lookups, Objects, Rank
<1>2. s \in Seq(Sound) /\ DOMAIN s = {1} /\ s[1] = Do(what, r)
  BY <1>1
<1>3. Rank[what] \in Rank[what] .. Rank[what]
  BY DEF Rank
<1> HIDE DEF s
<1>4. Part(s, Rank[what], Rank[what])
  BY <1>1, <1>2, <1>3 DEF Part
<1>5. \A v : Asked(s, v) = IF v = what THEN {r} ELSE {}
  BY <1>1, <1>2 DEF Asked
<1> QED
  BY <1>4, <1>5 DEF s

LEMMA NoPart ==
  \A low, high \in Nat : Part(<<>>, low, high) /\ \A v : Asked(<<>>, v) = {}
BY DEF Part, Asked

\* What a plan asks for is what its parts ask for.
LEMMA AskedOfBoth ==
  ASSUME NEW s \in Seq(Sound), NEW t \in Seq(Sound)
  PROVE  s \o t \in Seq(Sound) /\ \A v : Asked(s \o t, v) = Asked(s, v) \cup Asked(t, v)
<1> DEFINE u == s \o t
<1>1. /\ u \in Seq(Sound) /\ Len(u) = Len(s) + Len(t)
      /\ Len(s) \in Nat /\ Len(t) \in Nat
      /\ \A n \in 1 .. Len(s) + Len(t) : u[n] = IF n <= Len(s) THEN s[n] ELSE t[n - Len(s)]
  BY ConcatProperties
<1> HIDE DEF u
<1>2. DOMAIN u = 1 .. Len(s) + Len(t) /\ DOMAIN s = 1 .. Len(s) /\ DOMAIN t = 1 .. Len(t)
  BY <1>1
<1>3. ASSUME NEW v PROVE Asked(u, v) = Asked(s, v) \cup Asked(t, v)
  <2>1. ASSUME NEW n \in DOMAIN u, u[n].do = v PROVE u[n].obj \in Asked(s, v) \cup Asked(t, v)
    <3>1. CASE n <= Len(s)
      BY <1>1, <1>2, <2>1, <3>1 DEF Asked
    <3>2. CASE ~(n <= Len(s))
      <4>1. n - Len(s) \in DOMAIN t /\ u[n] = t[n - Len(s)]
        BY <1>1, <1>2, <3>2
      <4> QED
        BY <2>1, <4>1 DEF Asked
    <3> QED
      BY <3>1, <3>2
  <2>2. ASSUME NEW n \in DOMAIN s, s[n].do = v PROVE s[n].obj \in Asked(u, v)
    <3>1. n \in DOMAIN u /\ u[n] = s[n]
      BY <1>1, <1>2
    <3> QED
      BY <2>2, <3>1 DEF Asked
  <2>3. ASSUME NEW n \in DOMAIN t, t[n].do = v PROVE t[n].obj \in Asked(u, v)
    <3>1. n + Len(s) \in DOMAIN u /\ u[n + Len(s)] = t[n]
      BY <1>1, <1>2
    <3> QED
      BY <2>3, <3>1 DEF Asked
  <2> QED
    BY <2>1, <2>2, <2>3 DEF Asked
<1> QED
  BY <1>1, <1>3 DEF u

\* Parts in the order of their ranks make a part.
LEMMA PartWider ==
  ASSUME NEW s, NEW a \in Nat, NEW b \in Nat, NEW c \in Nat, NEW d \in Nat,
         Part(s, a, b), c <= a, b <= d
  PROVE  Part(s, c, d)
<1>1. \A k \in a .. b : k \in c .. d
  OBVIOUS
<1> QED
  BY <1>1 DEF Part

LEMMA PartOfBoth ==
  ASSUME NEW s, NEW t, NEW a \in Nat, NEW b \in Nat, NEW c \in Nat, NEW d \in Nat,
         Part(s, a, b), Part(t, c, d), a <= b, b < c, c <= d
  PROVE  Part(s \o t, a, d) /\ \A v : Asked(s \o t, v) = Asked(s, v) \cup Asked(t, v)
<1> DEFINE u == s \o t
<1>1. /\ s \in Seq(Sound) /\ t \in Seq(Sound) /\ u \in Seq(Sound) /\ Len(u) = Len(s) + Len(t)
      /\ Len(s) \in Nat /\ Len(t) \in Nat
      /\ \A n \in 1 .. Len(s) + Len(t) : u[n] = IF n <= Len(s) THEN s[n] ELSE t[n - Len(s)]
  BY ConcatProperties DEF Part
<1> HIDE DEF u
<1>2. DOMAIN u = 1 .. Len(s) + Len(t) /\ DOMAIN s = 1 .. Len(s) /\ DOMAIN t = 1 .. Len(t)
  BY <1>1
<1>3. \A n \in DOMAIN u :
        \/ n <= Len(s) /\ n \in DOMAIN s /\ u[n] = s[n]
        \/ ~(n <= Len(s)) /\ n - Len(s) \in DOMAIN t /\ u[n] = t[n - Len(s)]
  BY <1>1, <1>2
<1>4. ASSUME NEW n \in DOMAIN u
      PROVE  u[n].do \in DOMAIN Rank /\ Rank[u[n].do] \in a .. d
  <2>1. \/ u[n].do \in DOMAIN Rank /\ Rank[u[n].do] \in a .. b
        \/ u[n].do \in DOMAIN Rank /\ Rank[u[n].do] \in c .. d
    BY <1>3 DEF Part
  <2> DEFINE k == Rank[u[n].do]
  <2> HIDE DEF k
  <2>2. k \in a .. b \/ k \in c .. d => k \in a .. d
    OBVIOUS
  <2> QED
    BY <2>1, <2>2 DEF k
<1>5. ASSUME NEW m \in DOMAIN u, NEW n \in DOMAIN u, m < n PROVE Before(u[m], u[n])
  <2>0. m \in Nat /\ n \in Nat
    BY <1>1, <1>2
  <2>1. CASE n <= Len(s)
    <3>1. m \in DOMAIN s /\ n \in DOMAIN s /\ u[m] = s[m] /\ u[n] = s[n]
      BY <1>1, <1>2, <1>5, <2>0, <2>1
    <3> QED
      BY <1>5, <3>1 DEF Part
  <2>2. CASE ~(m <= Len(s))
    <3>1. /\ m - Len(s) \in DOMAIN t /\ n - Len(s) \in DOMAIN t
          /\ u[m] = t[m - Len(s)] /\ u[n] = t[n - Len(s)] /\ m - Len(s) < n - Len(s)
      BY <1>1, <1>2, <1>5, <2>0, <2>2
    <3> QED
      BY <3>1 DEF Part
  <2>3. CASE m <= Len(s) /\ ~(n <= Len(s))
    <3>1. Rank[u[m].do] \in a .. b /\ Rank[u[n].do] \in c .. d
      BY <1>3, <2>3 DEF Part
    <3> DEFINE k == Rank[u[m].do]  l == Rank[u[n].do]
    <3> HIDE DEF k, l
    <3>2. k \in a .. b /\ l \in c .. d => k < l
      OBVIOUS
    <3> QED
      BY <3>1, <3>2 DEF Before, k, l
  <2> QED
    BY <1>5, <2>0, <2>1, <2>2, <2>3
<1>6. Part(u, a, d)
  BY <1>1, <1>4, <1>5 DEF Part
<1> QED
  BY <1>1, <1>6, AskedOfBoth DEF u

\* A request as the assumption has it.
LEMMA AskTypes ==
  ASSUME NEW a \in Asks
  PROVE  /\ a \in Ask /\ a.kind \in Kinds /\ a.replace \in BOOLEAN
         /\ a.roots \in SUBSET Roots /\ a.roots # {} /\ IsFiniteSet(a.roots)
         /\ a.set \in SUBSET Items /\ IsFiniteSet(a.set)
         /\ a.disconnect \in SUBSET Items /\ IsFiniteSet(a.disconnect)
         /\ a.connect \in SUBSET Items /\ IsFiniteSet(a.connect)
         /\ a.create \in SUBSET Items /\ IsFiniteSet(a.create)
         /\ a.update \in SUBSET Items /\ IsFiniteSet(a.update)
         /\ a.replace => a.disconnect = {} /\ a.connect = {} /\ a.create = {} /\ a.update = {}
<1>1. a \in Ask /\ a.roots # {}
  BY AsksAssumption
<1>2. \A S \in {a.roots, a.set, a.disconnect, a.connect, a.create, a.update} : IsFiniteSet(S)
  BY AsksAssumption
<1>3. a.replace => a.disconnect \cup a.connect \cup a.create \cup a.update = {}
  BY AsksAssumption
<1> QED
  BY <1>1, <1>2, <1>3 DEF Ask

\* Relations: the operators in their order, each about the records given for it.
LEMMA RelationsPart ==
  ASSUME NEW a \in Asks, NEW r \in Roots
  PROVE  /\ Part(Relations(a, r), 1, 7)
         /\ \A v : Asked(Relations(a, r), v) =
              CASE v \in {"existing", "detach"} -> IF a.replace THEN {r} ELSE {}
                [] v = "nullable" -> IF a.disconnect # {} THEN {r} ELSE {}
                [] v = "unlink" -> a.disconnect
                [] v = "link" -> (IF a.replace THEN a.set ELSE {}) \cup a.connect
                [] v = "add" -> a.create
                [] v = "edit" -> a.update
                [] OTHER -> {}
<1> DEFINE existing == <<Do("existing", r)>>  detach == <<Do("detach", r)>>
           set == Each("link", a.set)
           nullable == <<Do("nullable", r)>>  unlink == Each("unlink", a.disconnect)
           link == Each("link", a.connect)  more == Each("add", a.create)
           edit == Each("edit", a.update)
           first == Replacing(a, r)  second == Disconnecting(a, r)
<1>0. /\ Rank["existing"] = 1 /\ Rank["detach"] = 2 /\ Rank["nullable"] = 3
      /\ Rank["unlink"] = 4 /\ Rank["link"] = 5 /\ Rank["add"] = 6 /\ Rank["edit"] = 7
      /\ {"existing", "detach", "nullable"} \subseteq DOMAIN Rank \ ItemSteps
  BY DEF Rank, ItemSteps
<1>1. /\ Part(existing, 1, 1) /\ (\A v : Asked(existing, v) = IF v = "existing" THEN {r} ELSE {})
      /\ Part(detach, 2, 2) /\ (\A v : Asked(detach, v) = IF v = "detach" THEN {r} ELSE {})
      /\ Part(nullable, 3, 3) /\ (\A v : Asked(nullable, v) = IF v = "nullable" THEN {r} ELSE {})
  BY <1>0, OnePart
<1>2. /\ Part(set, 5, 5) /\ (\A v : Asked(set, v) = IF v = "link" THEN a.set ELSE {})
      /\ Part(unlink, 4, 4)
      /\ (\A v : Asked(unlink, v) = IF v = "unlink" THEN a.disconnect ELSE {})
      /\ Part(link, 5, 5) /\ (\A v : Asked(link, v) = IF v = "link" THEN a.connect ELSE {})
      /\ Part(more, 6, 6) /\ (\A v : Asked(more, v) = IF v = "add" THEN a.create ELSE {})
      /\ Part(edit, 7, 7) /\ (\A v : Asked(edit, v) = IF v = "edit" THEN a.update ELSE {})
  BY <1>0, AskTypes, EachPart DEF ItemSteps
<1>3. /\ first = IF a.replace THEN <<Do("existing", r), Do("detach", r)>> \o set ELSE <<>>
      /\ second = IF a.disconnect # {} THEN nullable \o unlink ELSE <<>>
      /\ Relations(a, r) = first \o second \o link \o more \o edit
      /\ <<Do("existing", r), Do("detach", r)>> = existing \o detach
  BY DEF Replacing, Disconnecting, Relations
<1>4. CASE a.replace
  <2>1. Relations(a, r) = existing \o detach \o set
    <3>1. /\ a.disconnect = {} /\ link = <<>> /\ more = <<>> /\ edit = <<>>
      BY <1>4, AskTypes, EachNone
    <3>2. existing \o detach \o set \in Seq(Sound)
      BY <1>1, <1>2, AskedOfBoth DEF Part
    <3> DEFINE s == existing \o detach \o set
    <3>3. Relations(a, r) = s \o <<>> \o <<>> \o <<>> \o <<>>
      BY <1>3, <1>4, <3>1
    <3> HIDE DEF s
    <3>4. s \o <<>> = s
      BY <3>2, ConcatEmptySeq DEF s
    <3> QED
      BY <3>3, <3>4 DEF s
  <2>2. /\ Part(existing \o detach, 1, 2)
        /\ \A v : Asked(existing \o detach, v) = Asked(existing, v) \cup Asked(detach, v)
    <3> HIDE DEF existing, detach
    <3> QED
      BY <1>1, PartOfBoth
  <2>3. /\ Part(existing \o detach \o set, 1, 5)
        /\ \A v : Asked(existing \o detach \o set, v) =
             Asked(existing, v) \cup Asked(detach, v) \cup Asked(set, v)
    <3> HIDE DEF existing, detach, set
    <3> QED
      BY <1>2, <2>2, PartOfBoth
  <2>4. Part(Relations(a, r), 1, 7)
    <3> DEFINE s == existing \o detach \o set
    <3>1. Part(s, 1, 5)
      BY <2>3
    <3> HIDE DEF s
    <3>2. Part(s, 1, 7)
      BY <3>1, PartWider
    <3> QED
      BY <2>1, <3>2 DEF s
  <2>5. a.disconnect = {} /\ a.connect = {} /\ a.create = {} /\ a.update = {}
    BY <1>4, AskTypes
  <2> HIDE DEF existing, detach, set
  <2>6. \A v : Asked(Relations(a, r), v) =
             Asked(existing, v) \cup Asked(detach, v) \cup Asked(set, v)
    BY <2>1, <2>3
  <2> QED
    BY <1>1, <1>2, <1>4, <2>4, <2>5, <2>6
<1>5. CASE ~a.replace
  <2>1. Part(first, 1, 2) /\ \A v : Asked(first, v) = {}
    BY <1>3, <1>5, NoPart
  <2>2. /\ Part(second, 3, 4)
        /\ \A v : Asked(second, v) = CASE v = "nullable" -> IF a.disconnect # {} THEN {r} ELSE {}
                                       [] v = "unlink" -> a.disconnect
                                       [] OTHER -> {}
    <3>1. CASE a.disconnect = {}
      BY <1>3, <3>1, NoPart
    <3>2. CASE a.disconnect # {}
      <4> HIDE DEF nullable, unlink
      <4>1. /\ Part(nullable \o unlink, 3, 4)
            /\ \A v : Asked(nullable \o unlink, v) = Asked(nullable, v) \cup Asked(unlink, v)
        BY <1>1, <1>2, PartOfBoth
      <4>2. second = nullable \o unlink
        BY <1>3, <3>2
      <4> HIDE DEF second
      <4>3. \A v : Asked(second, v) = Asked(nullable, v) \cup Asked(unlink, v)
        BY <4>1, <4>2
      <4>4. ASSUME NEW v
            PROVE  Asked(second, v) = CASE v = "nullable" -> IF a.disconnect # {} THEN {r} ELSE {}
                                        [] v = "unlink" -> a.disconnect
                                        [] OTHER -> {}
        <5>1. /\ Asked(nullable, v) = IF v = "nullable" THEN {r} ELSE {}
              /\ Asked(unlink, v) = IF v = "unlink" THEN a.disconnect ELSE {}
          BY <1>1, <1>2
        <5>2. Asked(second, v) = Asked(nullable, v) \cup Asked(unlink, v)
          BY <4>3
        <5> QED
          BY <3>2, <5>1, <5>2
      <4> QED
        BY <4>1, <4>2, <4>4
    <3> QED
      BY <3>1, <3>2
  <2> HIDE DEF first, second, link, more, edit
  <2>3. /\ Part(first \o second, 1, 4)
        /\ \A v : Asked(first \o second, v) = Asked(second, v)
    <3>1. Part(first, 1, 2) /\ Part(second, 3, 4)
      BY <2>1, <2>2
    <3>2. /\ Part(first \o second, 1, 4)
          /\ \A v : Asked(first \o second, v) = Asked(first, v) \cup Asked(second, v)
      BY <3>1, PartOfBoth
    <3> QED
      BY <2>1, <3>2
  <2>4. /\ Part(first \o second \o link, 1, 5)
        /\ \A v : Asked(first \o second \o link, v) = Asked(second, v) \cup Asked(link, v)
    <3> DEFINE s == first \o second
    <3> HIDE DEF s
    <3> QED
      BY <1>2, <2>3, PartOfBoth DEF s
  <2>5. /\ Part(first \o second \o link \o more, 1, 6)
        /\ \A v : Asked(first \o second \o link \o more, v) =
                    Asked(second, v) \cup Asked(link, v) \cup Asked(more, v)
    <3> DEFINE s == first \o second \o link
    <3> HIDE DEF s
    <3> QED
      BY <1>2, <2>4, PartOfBoth DEF s
  <2>6. /\ Part(Relations(a, r), 1, 7)
        /\ \A v : Asked(Relations(a, r), v) =
             Asked(second, v) \cup Asked(link, v) \cup Asked(more, v) \cup Asked(edit, v)
    <3> DEFINE s == first \o second \o link \o more
    <3>1. Relations(a, r) = s \o edit
      BY <1>3
    <3> HIDE DEF s
    <3> QED
      BY <1>2, <2>5, <3>1, PartOfBoth DEF s
  <2> QED
    BY <1>2, <1>5, <2>2, <2>6
<1> QED
  BY <1>4, <1>5

\* The plan of a mutation; that of a create or update runs the operators in order
\* after the root is written, and asserts that the foreign key may be null before
\* it unlinks anything.
LEMMA PlanSound ==
  ASSUME NEW a \in Asks, NEW r \in a.roots
  PROVE  /\ Plan(a, r) \in Seq(Sound)
         /\ a.kind \in {"create", "update"} =>
              /\ Part(Plan(a, r), 0, 7)
              /\ Asked(Plan(a, r), "existing") = IF a.replace THEN {r} ELSE {}
              /\ Asked(Plan(a, r), "detach") = IF a.replace THEN {r} ELSE {}
              /\ Asked(Plan(a, r), "nullable") = IF a.disconnect # {} THEN {r} ELSE {}
              /\ Asked(Plan(a, r), "unlink") = a.disconnect
              /\ Asked(Plan(a, r), "link") =
                   (IF a.replace THEN a.set ELSE {}) \cup a.connect
              /\ Asked(Plan(a, r), "add") = a.create
         /\ a.kind \notin {"create", "update"} => Asked(Plan(a, r), "unlink") = {}
<1>1. /\ a.kind \in Kinds /\ r \in Roots
      /\ a.roots \in SUBSET Roots /\ IsFiniteSet(a.roots)
      /\ a.connect \in SUBSET Items /\ IsFiniteSet(a.connect)
  BY AskTypes
<1>2. ASSUME NEW what \in {"save", "store", "find", "remove", "delete"}, NEW o \in Roots
      PROVE  Do(what, o) \in Sound
  BY DEF Do, Sound, Statement, ItemSteps, Lookups, Objects
<1>3. ASSUME NEW what \in {"save", "store", "find", "remove", "delete"}
      PROVE  /\ <<Do(what, r)>> \in Seq(Sound)
             /\ \A v : Asked(<<Do(what, r)>>, v) = IF v = what THEN {r} ELSE {}
  <2> DEFINE s == <<Do(what, r)>>
  <2>1. Do(what, r) \in Sound /\ Do(what, r).do = what /\ Do(what, r).obj = r
    BY <1>1, <1>2 DEF Do
  <2>2. s \in Seq(Sound) /\ DOMAIN s = {1} /\ s[1] = Do(what, r)
    BY <2>1
  <2> HIDE DEF s
  <2>3. \A v : Asked(s, v) = IF v = what THEN {r} ELSE {}
    BY <2>1, <2>2 DEF Asked
  <2> QED
    BY <2>2, <2>3 DEF s
<1>4. CASE a.kind \in {"create", "update"}
  <2>1. PICK what \in {"save", "store"} : Plan(a, r) = <<Do(what, r)>> \o Relations(a, r)
    BY <1>4 DEF Plan
  <2> DEFINE s == <<Do(what, r)>>  t == Relations(a, r)
  <2>2. Part(s, 0, 0) /\ \A v : Asked(s, v) = IF v = what THEN {r} ELSE {}
    <3>1. what \in DOMAIN Rank /\ what \notin ItemSteps /\ Rank[what] = 0
      BY DEF Rank, ItemSteps
    <3> QED
      BY <1>1, <3>1, OnePart
  <2>3. /\ Part(t, 1, 7)
        /\ Asked(t, "existing") = IF a.replace THEN {r} ELSE {}
        /\ Asked(t, "detach") = IF a.replace THEN {r} ELSE {}
        /\ Asked(t, "nullable") = IF a.disconnect # {} THEN {r} ELSE {}
        /\ Asked(t, "unlink") = a.disconnect
        /\ Asked(t, "link") = (IF a.replace THEN a.set ELSE {}) \cup a.connect
        /\ Asked(t, "add") = a.create
    BY <1>1, RelationsPart
  <2>4. Plan(a, r) = s \o t
    BY <2>1
  <2> HIDE DEF s, t
  <2>5. Part(s \o t, 0, 7) /\ \A v : Asked(s \o t, v) = Asked(s, v) \cup Asked(t, v)
    BY <2>2, <2>3, PartOfBoth
  <2>6. \A v \in {"existing", "detach", "nullable", "unlink", "link", "add"} :
          Asked(s \o t, v) = Asked(t, v)
    BY <2>2, <2>5
  <2> QED
    BY <1>4, <2>3, <2>4, <2>5, <2>6 DEF Part
<1>5. CASE a.kind = "delete"
  <2>1. Plan(a, r) = <<Do("delete", r)>>
    BY <1>5 DEF Plan
  <2> QED
    BY <1>3, <1>5, <2>1
<1>6. ASSUME NEW what \in {"save", "store", "remove"}
      PROVE  Each(what, a.roots) \in Seq(Sound) /\ Asked(Each(what, a.roots), "unlink") = {}
  <2>1. \A x \in a.roots : Do(what, x) \in Sound
    BY <1>1, <1>2
  <2> QED
    BY <1>1, <2>1, EachSound
<1>7. CASE a.kind = "bulk_create"
  <2>1. Plan(a, r) = Each("store", a.roots)
    BY <1>7 DEF Plan
  <2> QED
    BY <1>6, <1>7, <2>1
<1>8. CASE a.kind = "bulk_update"
  <2>1. Plan(a, r) = Each("save", a.roots)
    BY <1>8 DEF Plan
  <2> QED
    BY <1>6, <1>8, <2>1
<1>9. CASE a.kind = "bulk_delete"
  <2>1. Plan(a, r) = <<Do("find", r)>> \o Each("remove", a.roots)
    BY <1>9 DEF Plan
  <2> DEFINE s == <<Do("find", r)>>  t == Each("remove", a.roots)
  <2>2. s \in Seq(Sound) /\ Asked(s, "unlink") = {} /\ t \in Seq(Sound) /\ Asked(t, "unlink") = {}
    BY <1>3, <1>6
  <2>3. Plan(a, r) = s \o t
    BY <2>1
  <2> HIDE DEF s, t
  <2>4. s \o t \in Seq(Sound) /\ Asked(s \o t, "unlink") = {}
    BY <2>2, AskedOfBoth
  <2> QED
    BY <1>9, <2>3, <2>4
<1>10. CASE a.kind = "method"
  <2> DEFINE s == <<Do("find", r)>>  t == Each("link", a.connect)  u == <<Do("store", r)>>
  <2>1. Plan(a, r) = s \o t \o u
    BY <1>10 DEF Plan
  <2>2. t \in Seq(Sound) /\ Asked(t, "unlink") = {}
    BY <1>1, EachPart DEF Part, ItemSteps
  <2>3. s \in Seq(Sound) /\ Asked(s, "unlink") = {} /\ u \in Seq(Sound) /\ Asked(u, "unlink") = {}
    BY <1>3
  <2> HIDE DEF s, t, u
  <2> DEFINE w == s \o t
  <2>4. w \in Seq(Sound) /\ Asked(w, "unlink") = {}
    BY <2>2, <2>3, AskedOfBoth
  <2>5. Plan(a, r) = w \o u
    BY <2>1
  <2> HIDE DEF w
  <2>6. w \o u \in Seq(Sound) /\ Asked(w \o u, "unlink") = {}
    BY <2>3, <2>4, AskedOfBoth
  <2> QED
    BY <1>10, <2>5, <2>6
<1> QED
  BY <1>1, <1>4, <1>5, <1>7, <1>8, <1>9, <1>10 DEF Kinds
-----------------------------------------------------------------------------
(* The statements still to run, and the events *)

\* What the rest of a plan asks for.
LEMMA AskedOfTail ==
  ASSUME NEW s \in Seq(Sound), s # <<>>
  PROVE  /\ Head(s) \in Sound /\ Tail(s) \in Seq(Sound)
         /\ \A v : Asked(s, v) = Asked(Tail(s), v) \cup
                     IF Head(s).do = v THEN {Head(s).obj} ELSE {}
<1> DEFINE t == Tail(s)  h == Head(s)
<1>1. /\ t \in Seq(Sound) /\ h \in Sound /\ h = s[1] /\ Len(s) \in Nat \ {0}
      /\ Len(t) = Len(s) - 1 /\ \A n \in 1 .. Len(t) : t[n] = s[n + 1]
  BY HeadTailProperties, EmptySeq
<1> HIDE DEF t, h
<1>2. DOMAIN s = 1 .. Len(s) /\ DOMAIN t = 1 .. Len(s) - 1
  BY <1>1
<1>3. ASSUME NEW v PROVE Asked(s, v) = Asked(t, v) \cup IF h.do = v THEN {h.obj} ELSE {}
  <2>1. ASSUME NEW n \in DOMAIN s, s[n].do = v, n # 1 PROVE s[n].obj \in Asked(t, v)
    <3>1. n - 1 \in DOMAIN t /\ t[n - 1] = s[n]
      BY <1>1, <1>2, <2>1
    <3> QED
      BY <2>1, <3>1 DEF Asked
  <2>2. ASSUME NEW n \in DOMAIN t, t[n].do = v PROVE t[n].obj \in Asked(s, v)
    <3>1. n + 1 \in DOMAIN s /\ s[n + 1] = t[n]
      BY <1>1, <1>2, <2>2
    <3> QED
      BY <2>2, <3>1 DEF Asked
  <2>3. h.do = v => h.obj \in Asked(s, v)
    <3>1. 1 \in DOMAIN s
      BY <1>1, <1>2
    <3> QED
      BY <1>1, <3>1 DEF Asked
  <2> QED
    BY <1>1, <2>1, <2>2, <2>3 DEF Asked
<1> QED
  BY <1>1, <1>3 DEF t, h

\* In a plan by rank, what a statement comes after is done with.
LEMMA PartOfTail ==
  ASSUME NEW s, Part(s, 0, 7), s # <<>>
  PROVE  /\ Part(Tail(s), 0, 7) /\ Head(s).do \in DOMAIN Rank
         /\ \A v \in DOMAIN Rank : Rank[v] < Rank[Head(s).do] => Asked(s, v) = {}
         /\ Head(s).do \notin ItemSteps => Asked(Tail(s), Head(s).do) = {}
<1> DEFINE t == Tail(s)  h == Head(s)
<1>1. /\ s \in Seq(Sound) /\ t \in Seq(Sound) /\ h = s[1] /\ Len(s) \in Nat \ {0}
      /\ Len(t) = Len(s) - 1 /\ \A n \in 1 .. Len(t) : t[n] = s[n + 1]
  BY HeadTailProperties, EmptySeq DEF Part
<1> HIDE DEF t, h
<1>2. DOMAIN s = 1 .. Len(s) /\ DOMAIN t = 1 .. Len(s) - 1 /\ 1 \in DOMAIN s
  BY <1>1
<1>3. \A n \in DOMAIN t : n + 1 \in DOMAIN s /\ t[n] = s[n + 1] /\ 1 < n + 1 /\ n \in Nat
  BY <1>1, <1>2
<1>4. \A n \in DOMAIN s : s[n].do \in DOMAIN Rank /\ Rank[s[n].do] \in 0 .. 7
  BY DEF Part
<1>5. \A m, n \in DOMAIN s : m < n => Before(s[m], s[n])
  BY DEF Part
<1>6. \A m, n \in DOMAIN t : m < n => Before(t[m], t[n])
  <2>1. \A m, n \in DOMAIN t : m < n => m + 1 < n + 1
    BY <1>3
  <2> QED
    BY <1>3, <1>5, <2>1
<1>7. Part(t, 0, 7)
  BY <1>1, <1>3, <1>4, <1>6 DEF Part
<1>8. \A n \in DOMAIN s : n = 1 \/ Before(h, s[n])
  <2>1. \A n \in DOMAIN s : n = 1 \/ 1 < n
    BY <1>2, <1>1
  <2> QED
    BY <1>1, <1>2, <1>5, <2>1
<1>9. ASSUME NEW v \in DOMAIN Rank, Rank[v] < Rank[h.do] PROVE Asked(s, v) = {}
  <2>1. SUFFICES ASSUME NEW n \in DOMAIN s, s[n].do = v PROVE FALSE
    BY DEF Asked
  <2>2. h.do \in DOMAIN Rank /\ Rank[h.do] \in Nat /\ Rank[v] \in Nat
    BY <1>1, <1>2, <1>4, <2>1
  <2>3. v # h.do /\ ~(Rank[h.do] < Rank[v])
    BY <1>9, <2>2
  <2> QED
    BY <1>1, <1>8, <2>1, <2>3 DEF Before
<1>10. ASSUME h.do \notin ItemSteps PROVE Asked(t, h.do) = {}
  <2>1. SUFFICES ASSUME NEW n \in DOMAIN t, t[n].do = h.do PROVE FALSE
    BY DEF Asked
  <2>2. Before(h, t[n])
    BY <1>1, <1>2, <1>3, <1>5
  <2>3. Rank[h.do] \in Nat
    BY <1>1, <1>2, <1>4
  <2> QED
    BY <1>10, <2>1, <2>2, <2>3 DEF Before
<1> QED
  BY <1>1, <1>2, <1>4, <1>7, <1>9, <1>10 DEF t, h

\* The events of a record, and the latest of them.
Tells(s, o) == \E n \in DOMAIN s : s[n].obj = o
Says(s, o, v) == \E n \in DOMAIN s :
  s[n].obj = o /\ s[n].value = v /\ \A m \in DOMAIN s : m > n => s[m].obj # o

LEMMA NoneTold ==
  \A o : ~Tells(<<>>, o)
BY DEF Tells

LEMMA ToldOfAppend ==
  ASSUME NEW s \in Seq(Event), NEW e \in Event
  PROVE  /\ Append(s, e) \in Seq(Event)
         /\ \A o : Tells(Append(s, e), o) <=> Tells(s, o) \/ o = e.obj
         /\ \A v : Says(Append(s, e), e.obj, v) <=> v = e.value
         /\ \A o, v : o # e.obj => (Says(Append(s, e), o, v) <=> Says(s, o, v))
<1> DEFINE t == Append(s, e)  k == Len(s)
<1>1. /\ t \in Seq(Event) /\ k \in Nat /\ DOMAIN s = 1 .. k /\ DOMAIN t = 1 .. k + 1
      /\ t[k + 1] = e /\ \A n \in 1 .. k : t[n] = s[n]
  BY AppendProperties
<1> HIDE DEF t, k
<1>2. /\ k + 1 \in DOMAIN t
      /\ \A n \in DOMAIN t : n = k + 1 \/ (n \in DOMAIN s /\ t[n] = s[n] /\ k + 1 > n)
  BY <1>1
<1>3. \A n \in DOMAIN s : n \in DOMAIN t /\ t[n] = s[n]
  BY <1>1
<1>4. \A m \in DOMAIN t : ~(m > k + 1)
  BY <1>1
<1>5. ASSUME NEW o PROVE Tells(t, o) <=> Tells(s, o) \/ o = e.obj
  BY <1>1, <1>2, <1>3 DEF Tells
<1>6. ASSUME NEW v PROVE Says(t, e.obj, v) <=> v = e.value
  BY <1>1, <1>2, <1>4 DEF Says
<1>7. ASSUME NEW o, NEW v, o # e.obj PROVE Says(t, o, v) <=> Says(s, o, v)
  BY <1>1, <1>2, <1>3, <1>7 DEF Says
<1> QED
  BY <1>1, <1>5, <1>6, <1>7 DEF t

LEMMA ToldOfTail ==
  ASSUME NEW s \in Seq(Event), s # <<>>
  PROVE  /\ Head(s) \in Event /\ Tail(s) \in Seq(Event)
         /\ \A o : Tells(s, o) <=> Tells(Tail(s), o) \/ o = Head(s).obj
         /\ \A o, v : Says(s, o, v) =>
              IF Tells(Tail(s), o) THEN Says(Tail(s), o, v) ELSE Head(s).value = v
<1> DEFINE t == Tail(s)  h == Head(s)
<1>1. /\ t \in Seq(Event) /\ h \in Event /\ h = s[1] /\ Len(s) \in Nat \ {0}
      /\ Len(t) = Len(s) - 1 /\ \A n \in 1 .. Len(t) : t[n] = s[n + 1]
  BY HeadTailProperties, EmptySeq
<1> HIDE DEF t, h
<1>2. DOMAIN s = 1 .. Len(s) /\ DOMAIN t = 1 .. Len(s) - 1 /\ 1 \in DOMAIN s
  BY <1>1
<1>3. \A n \in DOMAIN t : n + 1 \in DOMAIN s /\ t[n] = s[n + 1] /\ n \in Nat
  BY <1>1, <1>2
<1>4. \A n \in DOMAIN s : n = 1 \/ (n - 1 \in DOMAIN t /\ t[n - 1] = s[n] /\ n \in Nat)
  BY <1>1, <1>2
<1>5. ASSUME NEW o PROVE Tells(s, o) <=> Tells(t, o) \/ o = h.obj
  <2>1. Tells(t, o) => Tells(s, o)
    BY <1>3 DEF Tells
  <2>2. o = h.obj => Tells(s, o)
    BY <1>1, <1>2 DEF Tells
  <2>3. Tells(s, o) => Tells(t, o) \/ o = h.obj
    BY <1>1, <1>4 DEF Tells
  <2> QED
    BY <2>1, <2>2, <2>3
<1>6. ASSUME NEW o, NEW v, Says(s, o, v)
      PROVE  IF Tells(t, o) THEN Says(t, o, v) ELSE h.value = v
  <2>1. PICK n \in DOMAIN s : /\ s[n].obj = o /\ s[n].value = v
                              /\ \A m \in DOMAIN s : m > n => s[m].obj # o
    BY <1>6 DEF Says
  <2>2. CASE n = 1
    <3>1. \A m \in DOMAIN t : m + 1 > 1 /\ t[m].obj # o
      BY <1>3, <2>1, <2>2
    <3> QED
      BY <1>1, <2>1, <2>2, <3>1 DEF Tells
  <2>3. CASE n # 1
    <3>1. n - 1 \in DOMAIN t /\ t[n - 1] = s[n] /\ n \in Nat
      BY <1>4, <2>3
    <3>2. \A m \in DOMAIN t : m > n - 1 => m + 1 > n /\ t[m].obj # o
      BY <1>3, <2>1, <3>1
    <3> QED
      BY <2>1, <3>1, <3>2 DEF Tells, Says
  <2> QED
    BY <2>2, <2>3
<1> QED
  BY <1>1, <1>5, <1>6 DEF t, h
-----------------------------------------------------------------------------
(* The inductive invariant *)

Relating == ask.kind \in {"create", "update"}

\* Nothing is open between two mutations, and none begins before the events of
\* the one before it are sent.
IdleInv ==
  /\ phase = "idle" => todo = <<>> /\ dirty = {} /\ leaving = {} /\ events = <<>>
  /\ phase # "idle" => outbox = <<>>

\* What the transaction sees is consistent; the instance loaded for a save exists
\* and has a foreign key it may have; only what may be detached is about to be.
StateInv ==
  /\ ask \in Asks /\ todo \in Seq(Sound)
  /\ Consistent(View)
  /\ phase = "write" =>
       /\ todo # <<>> /\ Step.do \in Lookups /\ copy # Gone
       /\ Step.do = "save" => copy = Nobody
       /\ Step.do = "edit" /\ copy = Nobody => schema.nullable
  /\ leaving # {} => schema.nullable

\* The operators of a create or update come in their order, and it is asserted
\* that the foreign key may be null before anything is unlinked.
PlanInv ==
  IF Relating
  THEN /\ Part(todo, 0, 7)
       /\ Has(todo, "unlink") => schema.nullable \/ Has(todo, "nullable")
       /\ Has(todo, "existing") => Has(todo, "detach") /\ ask.replace
  ELSE ~Has(todo, "unlink")

\* The events registered are about records written, and unless its latest write
\* was quiet the latest event of a record says what it is.
EventInv ==
  \A o \in Objects : /\ Tells(events, o) => o \in dirty
                     /\ o \in dirty \ quiet => Says(events, o, tx[o])

\* The latest event on its way about a record, or else the mirror, says what was
\* committed.
MirrorInv ==
  \A o \in Objects \ silent :
    IF Tells(outbox, o) THEN Says(outbox, o, db[o]) ELSE mirror[o] = db[o]

\* What the request promises, and the items that will be linked when what is left
\* of it has run.
Promise == IF ask.replace THEN ask.set
           ELSE (had \ ask.disconnect) \cup ask.connect \cup ask.create
Final == {i \in Items :
  \/ i \in Asked(todo, "link") \cup Asked(todo, "add")
  \/ /\ View[i] = Root /\ i \notin Asked(todo, "unlink") /\ ~Has(todo, "existing")
     /\ Has(todo, "detach") => i \notin leaving}
LinkInv ==
  Relating /\ phase # "idle" /\ raced = 0 =>
    /\ Final = Promise
    /\ phase = "write" /\ Step.do = "edit" => copy = View[Step.obj]

MutationInv ==
  /\ MutationTypeOK /\ IdleInv /\ StateInv /\ PlanInv /\ EventInv /\ MirrorInv /\ LinkInv
  /\ LinksAsAsked

\* The ways a mutation can go on: it ends, by committing (with the answer ok only
\* when all of it has run) or by rolling back; an instance is loaded; a statement
\* that only checks passes; the items to detach are noted; a record is erased.
Ended ==
  /\ phase # "idle" /\ Leave
  /\ \E ok \in BOOLEAN, cause \in Causes :
       \/ CommitTx(ok, cause) /\ (ok => todo = <<>>)
       \/ ~ok /\ RollBack(cause)
Loaded ==
  /\ Running /\ phase = "load" /\ Step.do \in Lookups
  /\ phase' = "write"
  /\ copy' = View[IF Step.do = "add" THEN Root ELSE Step.obj] /\ copy' # Gone
  /\ UNCHANGED <<todo, leaving, tx, dirty, quiet, events>> /\ UNCHANGED work /\ Quietly
Passed ==
  /\ Running /\ Step.do \in {"find", "nullable"}
  /\ Step.do = "nullable" => schema.nullable
  /\ Advance /\ UNCHANGED <<leaving, tx, dirty, quiet, events>> /\ Quietly
Noted ==
  /\ Running /\ Step.do = "existing"
  /\ leaving' = Linked(View, Root) \ ask.set
  /\ leaving' # {} => schema.nullable
  /\ Advance /\ UNCHANGED <<tx, dirty, quiet, events>> /\ Quietly
Erased ==
  /\ Ready /\ Step.do \in {"delete", "remove"}
  /\ schema.on_delete = "protect" => Linked(View, Step.obj) = {}
  /\ Delete /\ Advance /\ UNCHANGED leaving /\ Quietly

LEMMA Ways ==
  ASSUME MutationNext
  PROVE  Begin \/ Ended \/ Loaded \/ Passed \/ Save \/ Noted \/ Detach \/ Erased
         \/ Dispatch \/ Crash \/ Elsewhere
<1>1. ASSUME NEW cause \in Causes, phase # "idle", Fail(cause) PROVE Ended
  <2>1. FALSE \in BOOLEAN /\ (CommitTx(FALSE, cause) \/ RollBack(cause)) /\ Leave
    BY <1>1 DEF Fail
  <2> QED
    BY <1>1, <2>1 DEF Ended
<1>2. CASE Finish
  <2>1. TRUE \in BOOLEAN /\ "none" \in Causes /\ phase # "idle"
    BY <1>2 DEF Finish, Causes
  <2> QED
    BY <1>2, <2>1 DEF Finish, Ended
<1>3. CASE LookUp
  <2> DEFINE o == IF Step.do = "add" THEN Root ELSE Step.obj
  <2>1. CASE View[o] # Gone
    BY <1>3, <2>1 DEF LookUp, Loaded
  <2>2. CASE View[o] = Gone
    <3>1. \E cause \in Causes : Fail(cause)
      BY <1>3, <2>2 DEF LookUp, Causes
    <3> QED
      BY <1>1, <1>3, <3>1 DEF LookUp, Running
  <2> QED
    BY <2>1, <2>2
<1>4. CASE Find
  <2>1. Fail("not found") => Ended
    BY <1>1, <1>4 DEF Find, Running, Causes
  <2> QED
    BY <1>4, <2>1 DEF Find, Passed
<1>5. CASE Refused
  <2>1. \E cause \in Causes : Fail(cause)
    BY <1>5 DEF Refused, Causes
  <2> QED
    BY <1>1, <1>5, <2>1 DEF Refused, Ready, Running
<1>6. CASE AssertNullable
  <2>1. Fail("invalid") => Ended
    BY <1>1, <1>6 DEF AssertNullable, Running, Causes
  <2> QED
    BY <1>6, <2>1 DEF AssertNullable, Passed
<1>7. CASE ReadExisting
  <2>1. Fail("invalid") => Ended
    BY <1>1, <1>7 DEF ReadExisting, Running, Causes
  <2> QED
    BY <1>7, <2>1 DEF ReadExisting, Noted
<1>8. CASE Delete
  <2>1. Fail("error") => Ended
    BY <1>1, <1>8 DEF Delete, Ready, Running, Causes
  <2>2. Ended \/ /\ ~(schema.on_delete = "protect" /\ Linked(View, Step.obj) # {})
                 /\ Advance /\ UNCHANGED leaving /\ Quietly
    BY <1>8, <2>1 DEF Delete
  <2> QED
    BY <1>8, <2>2 DEF Erased, Delete
<1> QED
  BY <1>2, <1>3, <1>4, <1>5, <1>6, <1>7, <1>8 DEF MutationNext

\* The requests and what the transaction sees.
LEMMA Bases ==
  ASSUME MutationTypeOK, StateInv
  PROVE  /\ Root \in ask.roots /\ Root \in Roots /\ Root \in Objects
         /\ View \in [Objects -> Value]
         /\ \A o \in Objects : View[o] = IF o \in dirty THEN tx[o] ELSE db[o]
         /\ \A o \in Objects : (o \in Roots) # (o \in Items)
         /\ Nobody \notin Objects /\ Gone \notin Objects /\ Nobody # Gone
         /\ schema.on_delete = "set_null" => schema.nullable
<1>1. ask.roots \in SUBSET Roots /\ ask.roots # {}
  BY AskTypes DEF StateInv
<1>2. Root \in ask.roots
  BY <1>1 DEF Root
<1>3. View \in [Objects -> Value]
  BY DEF View, MutationTypeOK
<1>4. schema.on_delete = "set_null" => schema.nullable
  BY SchemasAssumption DEF MutationTypeOK
<1> QED
  BY <1>1, <1>2, <1>3, <1>4, ObjectsAssumption DEF View, Objects

LEMMA MutationInitInv ==
  ASSUME MutationInit PROVE MutationInv
<1>1. ask \in Asks /\ Asks \subseteq Ask
  BY AsksAssumption DEF MutationInit
<1>2. db \in [Objects -> Value] /\ Consistent(db) /\ dirty = {} /\ todo = <<>> /\ phase = "idle"
  BY DEF MutationInit
<1>3. MutationTypeOK
  <2>1. tx \in [Objects -> Value] /\ copy \in Value
    BY DEF MutationInit, Nothing, Value
  <2>2. answer \in [ok : BOOLEAN, cause : Causes, wrote : SUBSET Objects]
    BY DEF MutationInit, Causes
  <2>3. 0 \in 0 .. MaxRaces /\ 0 \in 0 .. MaxRequests
    BY BoundAssumption
  <2> QED
    BY <1>1, <1>2, <2>1, <2>2, <2>3 DEF MutationTypeOK, MutationInit
<1>4. IdleInv
  BY DEF MutationInit, IdleInv
<1>5. StateInv
  <2>1. View = db
    BY <1>2 DEF View
  <2> QED
    BY <1>1, <1>2, <2>1 DEF StateInv, MutationInit
<1>6. PlanInv
  BY <1>2, NoPart DEF PlanInv, Has
<1>7. EventInv /\ MirrorInv
  BY NoneTold DEF EventInv, MirrorInv, MutationInit
<1>8. LinkInv /\ LinksAsAsked
  BY DEF LinkInv, LinksAsAsked, Answered, MutationInit
<1> QED
  BY <1>3, <1>4, <1>5, <1>6, <1>7, <1>8 DEF MutationInv
-----------------------------------------------------------------------------
(* The steps *)

LEMMA BeginKeeps ==
  ASSUME MutationInv, Begin PROVE MutationInv'
<1> DEFINE a == ask'  r == CHOOSE r \in ask'.roots : TRUE
<1>0. MutationTypeOK /\ IdleInv /\ StateInv /\ EventInv /\ MirrorInv
  BY DEF MutationInv
<1>1. /\ phase = "idle" /\ outbox = <<>> /\ served < MaxRequests /\ served' = served + 1
      /\ a \in Asks /\ todo' = Plan(a, r) /\ had' = Linked(db, r)
      /\ phase' = "load" /\ raced' = 0
      /\ UNCHANGED <<schema, db, copy, leaving, tx, dirty, quiet, events, outbox, mirror,
                     answer, silent>>
  BY DEF Begin
<1>2. /\ a \in Ask /\ a.kind \in Kinds /\ a.roots \in SUBSET Roots /\ a.roots # {}
      /\ a.replace => a.disconnect = {} /\ a.connect = {} /\ a.create = {} /\ a.update = {}
  BY <1>1, AskTypes
<1>3. r \in a.roots /\ r \in Roots
  BY <1>2
<1>4. Root' = r
  BY DEF Root
<1> HIDE DEF a, r
<1>5. /\ Plan(a, r) \in Seq(Sound)
      /\ a.kind \in {"create", "update"} =>
           /\ Part(Plan(a, r), 0, 7)
           /\ Asked(Plan(a, r), "existing") = IF a.replace THEN {r} ELSE {}
           /\ Asked(Plan(a, r), "detach") = IF a.replace THEN {r} ELSE {}
           /\ Asked(Plan(a, r), "nullable") = IF a.disconnect # {} THEN {r} ELSE {}
           /\ Asked(Plan(a, r), "unlink") = a.disconnect
           /\ Asked(Plan(a, r), "link") =
                (IF a.replace THEN a.set ELSE {}) \cup a.connect
           /\ Asked(Plan(a, r), "add") = a.create
      /\ a.kind \notin {"create", "update"} => Asked(Plan(a, r), "unlink") = {}
  BY <1>1, <1>3, PlanSound
<1>6. dirty = {} /\ leaving = {} /\ View' = db /\ View = db
  BY <1>0, <1>1 DEF IdleInv, View, MutationTypeOK
<1>7. MutationTypeOK'
  <2>1. todo' \in Seq(Statement)
    BY <1>1, <1>5 DEF Sound
  <2>2. had' \in SUBSET Items
    BY <1>1 DEF Linked
  <2>3. served' \in 0 .. MaxRequests /\ raced' \in 0 .. MaxRaces
    BY <1>0, <1>1, BoundAssumption DEF MutationTypeOK
  <2>4. ask' \in Ask
    BY <1>2 DEF a
  <2>5. Consistent(db)'
    BY <1>0, <1>1 DEF MutationTypeOK, Consistent
  <2> QED
    BY <1>0, <1>1, <2>1, <2>2, <2>3, <2>4, <2>5 DEF MutationTypeOK
<1>8. IdleInv'
  BY <1>1 DEF IdleInv
<1>9. StateInv'
  <2>1. Consistent(View)'
    BY <1>0, <1>1, <1>6 DEF MutationTypeOK, Consistent
  <2> QED
    BY <1>1, <1>5, <1>6, <2>1 DEF StateInv, a
<1>10. PlanInv'
  <2>1. Relating' <=> a.kind \in {"create", "update"}
    BY DEF Relating, a
  <2>2. CASE Relating'
    BY <1>1, <1>5, <2>1, <2>2 DEF PlanInv, Has, a
  <2>3. CASE ~Relating'
    BY <1>1, <1>5, <2>1, <2>3 DEF PlanInv, Has, a
  <2> QED
    BY <2>2, <2>3
<1>11. EventInv' /\ MirrorInv'
  BY <1>0, <1>1 DEF EventInv, MirrorInv
<1>12. LinkInv'
  <2>1. SUFFICES ASSUME Relating' PROVE Final' = Promise'
    BY <1>1 DEF LinkInv
  <2>2. /\ Has(todo, "existing")' <=> a.replace
        /\ Has(todo, "detach")' <=> a.replace
        /\ Asked(todo, "unlink")' = a.disconnect /\ Asked(todo, "add")' = a.create
        /\ Asked(todo, "link")' = (IF a.replace THEN a.set ELSE {}) \cup a.connect
    BY <1>1, <1>5, <2>1 DEF Relating, Has, a
  <2>3. /\ Promise' = IF a.replace THEN a.set
                      ELSE (Linked(db, r) \ a.disconnect) \cup a.connect \cup a.create
        /\ a.set \subseteq Items /\ a.connect \subseteq Items /\ a.create \subseteq Items
    BY <1>1, AskTypes DEF Promise, a
  <2>4. Final' = {i \in Items :
          \/ i \in (IF a.replace THEN a.set ELSE {}) \cup a.connect \cup a.create
          \/ db[i] = r /\ i \notin a.disconnect /\ ~a.replace}
    BY <1>1, <1>4, <1>6, <2>2 DEF Final
  <2> QED
    BY <1>2, <2>3, <2>4 DEF Linked
<1>13. LinksAsAsked'
  BY <1>1 DEF LinksAsAsked, Answered
<1> QED
  BY <1>7, <1>8, <1>9, <1>10, <1>11, <1>12, <1>13 DEF MutationInv

LEMMA EndedKeeps ==
  ASSUME MutationInv, Ended PROVE MutationInv'
<1>0. /\ MutationTypeOK /\ IdleInv /\ StateInv /\ PlanInv /\ EventInv /\ MirrorInv
      /\ LinkInv
  BY DEF MutationInv
<1>1. PICK ok \in BOOLEAN, cause \in Causes :
        \/ CommitTx(ok, cause) /\ (ok => todo = <<>>)
        \/ ~ok /\ RollBack(cause)
  BY DEF Ended
<1>2. /\ phase # "idle" /\ phase' = "idle" /\ todo' = <<>> /\ copy' = Gone
      /\ leaving' = {} /\ tx' = Nothing /\ dirty' = {} /\ quiet' = {} /\ events' = <<>>
      /\ UNCHANGED <<mirror, raced, schema, ask, had, served>>
  BY DEF Ended, Leave, work
<1>3. outbox = <<>>
  BY <1>0, <1>2 DEF IdleInv
<1>4. \/ /\ db' = View /\ outbox' = events /\ silent' = (silent \ dirty) \cup quiet
         /\ answer' = [ok |-> ok, cause |-> cause, wrote |-> dirty]
         /\ ok => todo = <<>>
      \/ /\ db' = db /\ outbox' = <<>> /\ silent' = silent
         /\ answer' = [ok |-> ok, cause |-> cause, wrote |-> {}]
         /\ ~ok
  BY <1>1 DEF CommitTx, RollBack, Dropped
<1>5. View \in [Objects -> Value]
  BY <1>0, Bases
<1>6. Consistent(db') /\ db' \in [Objects -> Value]
  BY <1>0, <1>4, <1>5 DEF StateInv, MutationTypeOK
<1>7. Consistent(db)'
  BY <1>2, <1>6 DEF Consistent
<1>8. View' = db'
  BY <1>2, <1>6 DEF View
<1>9. MutationTypeOK'
  <2>1. tx' \in [Objects -> Value] /\ copy' \in Value
    BY <1>2 DEF Nothing, Value
  <2>2. answer' \in [ok : BOOLEAN, cause : Causes, wrote : SUBSET Objects]
    BY <1>0, <1>4 DEF MutationTypeOK
  <2>3. events \in Seq(Event) /\ silent \in SUBSET Objects /\ quiet \in SUBSET Objects
    BY <1>0 DEF MutationTypeOK
  <2>4. silent' \in SUBSET Objects
    BY <1>4, <2>3
  <2>5. outbox' \in Seq(Event)
    <3>1. <<>> \in Seq(Event)
      BY EmptySeq
    <3> QED
      BY <1>4, <2>3, <3>1
  <2> QED
    BY <1>0, <1>2, <1>6, <1>7, <2>1, <2>2, <2>4, <2>5 DEF MutationTypeOK
<1>10. IdleInv'
  BY <1>2 DEF IdleInv
<1>11. StateInv'
  <2>1. Consistent(View)'
    BY <1>2, <1>6, <1>8 DEF Consistent
  <2> QED
    BY <1>0, <1>2, <2>1 DEF StateInv
<1>12. PlanInv'
  BY <1>2, NoPart DEF PlanInv, Has
<1>13. EventInv'
  BY <1>2, NoneTold DEF EventInv
<1>14. MirrorInv'
  <2>1. SUFFICES ASSUME NEW o \in Objects, o \notin silent'
                 PROVE  IF Tells(outbox', o) THEN Says(outbox', o, db'[o])
                        ELSE mirror'[o] = db'[o]
    BY DEF MirrorInv
  <2>2. CASE db' = db /\ outbox' = <<>> /\ silent' = silent
    BY <1>0, <1>2, <1>3, <2>1, <2>2 DEF MirrorInv
  <2>3. CASE db' = View /\ outbox' = events /\ silent' = (silent \ dirty) \cup quiet
    <3>1. CASE o \in dirty
      <4>1. Says(events, o, tx[o]) /\ db'[o] = tx[o]
        BY <1>0, <2>1, <2>3, <3>1 DEF EventInv, View
      <4>2. Tells(events, o)
        BY <4>1 DEF Says, Tells
      <4> QED
        BY <2>3, <4>1, <4>2
    <3>2. CASE o \notin dirty
      <4>1. ~Tells(events, o) /\ db'[o] = db[o] /\ o \notin silent
        BY <1>0, <2>1, <2>3, <3>2 DEF EventInv, View
      <4>2. mirror[o] = db[o]
        BY <1>0, <1>3, <2>1, <4>1, NoneTold DEF MirrorInv
      <4> QED
        BY <1>2, <2>3, <4>1, <4>2
    <3> QED
      BY <3>1, <3>2
  <2> QED
    BY <1>4, <2>2, <2>3
<1>15. LinkInv'
  BY <1>2 DEF LinkInv
<1>16. LinksAsAsked'
  <2>1. SUFFICES ASSUME raced = 0, Relating, answer'.ok
                 PROVE  Linked(db', Root) = Promise
    BY <1>2 DEF LinksAsAsked, Answered, Relating, Promise, Root, Linked
  <2>2. db' = View /\ todo = <<>>
    BY <1>4, <2>1
  <2>3. Final = {i \in Items : View[i] = Root}
    BY <2>2, NoPart DEF Final, Has
  <2>4. Final = Promise
    BY <1>0, <1>2, <2>1 DEF LinkInv
  <2> QED
    BY <2>2, <2>3, <2>4 DEF Linked
<1> QED
  BY <1>9, <1>10, <1>11, <1>12, <1>13, <1>14, <1>15, <1>16 DEF MutationInv

LEMMA LoadedKeeps ==
  ASSUME MutationInv, Loaded PROVE MutationInv'
<1>0. /\ MutationTypeOK /\ IdleInv /\ StateInv /\ PlanInv /\ EventInv /\ MirrorInv
      /\ LinkInv
  BY DEF MutationInv
<1>1. /\ phase = "load" /\ todo # <<>> /\ Step.do \in Lookups /\ phase' = "write"
      /\ copy' = View[IF Step.do = "add" THEN Root ELSE Step.obj] /\ copy' # Gone
      /\ UNCHANGED <<todo, leaving, tx, dirty, quiet, events>>
      /\ UNCHANGED <<schema, ask, had, served, db, outbox, mirror, answer, raced, silent>>
  BY DEF Loaded, Running, work, Quietly
<1>2. View' = View /\ Step' = Step /\ Root' = Root
  BY <1>1 DEF View, Step, Root
<1>3. View \in [Objects -> Value] /\ Root \in Objects
  BY <1>0, Bases
<1>4. Step \in Sound
  BY <1>0, <1>1, AskedOfTail DEF StateInv, Step
<1>5. MutationTypeOK'
  <2>1. copy' \in Value
    BY <1>1, <1>3, <1>4 DEF Sound, Statement
  <2>2. Consistent(db)'
    BY <1>0, <1>1 DEF MutationTypeOK, Consistent
  <2> QED
    BY <1>0, <1>1, <2>1, <2>2 DEF MutationTypeOK
<1>6. IdleInv'
  BY <1>0, <1>1 DEF IdleInv
<1>7. StateInv'
  <2>1. Consistent(View) /\ Consistent(View)'
    BY <1>0, <1>1, <1>2 DEF StateInv, Consistent
  <2>2. Step.do = "save" => copy' = Nobody
    BY <1>1, <1>4, <2>1 DEF Sound, Consistent, ItemSteps
  <2>3. Step.do = "edit" /\ copy' = Nobody => schema.nullable
    BY <1>1, <1>4, <2>1 DEF Sound, Consistent, ItemSteps
  <2> QED
    BY <1>0, <1>1, <1>2, <2>1, <2>2, <2>3 DEF StateInv
<1>8. PlanInv'
  BY <1>0, <1>1 DEF PlanInv, Relating
<1>9. EventInv' /\ MirrorInv'
  BY <1>0, <1>1 DEF EventInv, MirrorInv
<1>10. LinkInv'
  <2>1. Final' = Final /\ Promise' = Promise /\ Relating' = Relating
    BY <1>1, <1>2 DEF Final, Promise, Relating
  <2>2. Step.do = "edit" => copy' = View[Step.obj]
    BY <1>1
  <2> QED
    BY <1>0, <1>1, <1>2, <2>1, <2>2 DEF LinkInv
<1>11. LinksAsAsked'
  BY <1>1 DEF LinksAsAsked, Answered
<1> QED
  BY <1>5, <1>6, <1>7, <1>8, <1>9, <1>10, <1>11 DEF MutationInv

\* After any other statement the next one is to be loaded: what remains to be seen
\* is that the transaction still sees consistent records, and the links.
LEMMA AdvanceKeeps ==
  ASSUME MutationInv, todo # <<>>, Advance, Quietly, phase # "idle"
  PROVE  /\ Step \in Sound /\ IdleInv' /\ MirrorInv' /\ LinksAsAsked'
         /\ \A v : Asked(todo, v) = Asked(todo', v) \cup
                     IF Step.do = v THEN {Step.obj} ELSE {}
         /\ Consistent(View)' /\ (leaving' # {} => schema.nullable) => StateInv'
         /\ (Step.do = "nullable" => schema.nullable) => PlanInv'
         /\ /\ leaving' \in SUBSET Items /\ tx' \in [Objects -> Value]
            /\ dirty' \in SUBSET Objects /\ quiet' \in SUBSET dirty' /\ events' \in Seq(Event)
            => MutationTypeOK'
         /\ (Relating /\ raced = 0 => Final' = Promise) => LinkInv'
<1>0. /\ MutationTypeOK /\ IdleInv /\ StateInv /\ PlanInv /\ MirrorInv
  BY DEF MutationInv
<1>1. /\ phase' = "load" /\ todo' = Tail(todo) /\ copy' = Gone
      /\ UNCHANGED <<schema, ask, had, served, db, outbox, mirror, answer, raced, silent>>
  BY DEF Advance, work, Quietly
<1>2. /\ Step \in Sound /\ todo' \in Seq(Sound)
      /\ \A v : Asked(todo, v) = Asked(todo', v) \cup IF Step.do = v THEN {Step.obj} ELSE {}
  BY <1>0, <1>1, AskedOfTail DEF StateInv, Step
<1>3. IdleInv' /\ MirrorInv' /\ LinksAsAsked'
  BY <1>0, <1>1 DEF IdleInv, MirrorInv, LinksAsAsked, Answered
<1>4. ASSUME Consistent(View)', leaving' # {} => schema.nullable PROVE StateInv'
  BY <1>0, <1>1, <1>2, <1>4 DEF StateInv
<1>5. ASSUME Step.do = "nullable" => schema.nullable PROVE PlanInv'
  <2>1. Relating' = Relating
    BY <1>1 DEF Relating
  <2>2. CASE ~Relating
    BY <1>0, <1>2, <2>1, <2>2 DEF PlanInv, Has
  <2>3. CASE Relating
    <3>1. /\ Part(todo, 0, 7)
          /\ Has(todo, "unlink") => schema.nullable \/ Has(todo, "nullable")
          /\ Has(todo, "existing") => Has(todo, "detach") /\ ask.replace
      BY <1>0, <2>3 DEF PlanInv
    <3>2. /\ Part(todo', 0, 7)
          /\ \A v \in DOMAIN Rank : Rank[v] < Rank[Step.do] => Asked(todo, v) = {}
      BY <1>1, <3>1, PartOfTail DEF Step
    <3>3. Has(todo', "unlink") => schema.nullable \/ Has(todo', "nullable")
      BY <1>2, <1>5, <3>1 DEF Has
    <3>4. Has(todo', "existing") => Has(todo', "detach") /\ ask.replace
      <4>1. Step.do = "detach" => Asked(todo, "existing") = {}
        BY <3>2 DEF Rank
      <4> QED
        BY <1>2, <3>1, <4>1 DEF Has
    <3> QED
      BY <1>1, <2>1, <2>3, <3>2, <3>3, <3>4 DEF PlanInv
  <2> QED
    BY <2>2, <2>3
<1>6. ASSUME leaving' \in SUBSET Items, tx' \in [Objects -> Value], dirty' \in SUBSET Objects,
             quiet' \in SUBSET dirty', events' \in Seq(Event)
      PROVE  MutationTypeOK'
  <2>1. todo' \in Seq(Statement)
    BY <1>2 DEF Sound
  <2>2. Consistent(db)'
    BY <1>0, <1>1 DEF MutationTypeOK, Consistent
  <2> QED
    BY <1>0, <1>1, <1>6, <2>1, <2>2 DEF MutationTypeOK, Value
<1>7. ASSUME Relating /\ raced = 0 => Final' = Promise PROVE LinkInv'
  BY <1>1, <1>7 DEF LinkInv, Relating, Promise
<1> QED
  BY <1>2, <1>3, <1>4, <1>5, <1>6, <1>7

LEMMA PassedKeeps ==
  ASSUME MutationInv, Passed PROVE MutationInv'
<1>0. MutationTypeOK /\ StateInv /\ EventInv /\ LinkInv
  BY DEF MutationInv
<1>1. /\ todo # <<>> /\ phase # "idle" /\ Advance /\ Quietly
      /\ Step.do \in {"find", "nullable"} /\ (Step.do = "nullable" => schema.nullable)
      /\ UNCHANGED <<leaving, tx, dirty, quiet, events, db, schema, ask>>
  BY DEF Passed, Running, Advance, Quietly, work
<1>2. View' = View /\ Root' = Root
  BY <1>1 DEF View, Root
<1>3. MutationTypeOK' /\ IdleInv' /\ PlanInv' /\ MirrorInv' /\ LinksAsAsked'
  BY <1>0, <1>1, AdvanceKeeps DEF MutationTypeOK
<1>4. StateInv'
  BY <1>0, <1>1, <1>2, AdvanceKeeps DEF StateInv, Consistent
<1>5. EventInv'
  BY <1>0, <1>1 DEF EventInv
<1>6. LinkInv'
  <2>1. ASSUME Relating, raced = 0 PROVE Final' = Promise
    <3>1. \A v \in {"link", "add", "unlink", "existing", "detach"} :
            Asked(todo, v) = Asked(todo', v)
      BY <1>1, AdvanceKeeps
    <3>2. Final' = Final
      BY <1>1, <1>2, <3>1 DEF Final, Has
    <3> QED
      BY <1>0, <1>1, <2>1, <3>2 DEF LinkInv
  <2> QED
    BY <1>1, <2>1, AdvanceKeeps
<1> QED
  BY <1>3, <1>4, <1>5, <1>6 DEF MutationInv

LEMMA NotedKeeps ==
  ASSUME MutationInv, Noted PROVE MutationInv'
<1>0. MutationTypeOK /\ StateInv /\ PlanInv /\ EventInv /\ LinkInv
  BY DEF MutationInv
<1>1. /\ todo # <<>> /\ phase # "idle" /\ Advance /\ Quietly /\ todo' = Tail(todo)
      /\ Step.do = "existing" /\ leaving' = Linked(View, Root) \ ask.set
      /\ leaving' # {} => schema.nullable
      /\ UNCHANGED <<tx, dirty, quiet, events, db, schema, ask>>
  BY DEF Noted, Running, Advance, Quietly, work
<1>2. View' = View /\ Root' = Root
  BY <1>1 DEF View, Root
<1>3. leaving' \in SUBSET Items
  BY <1>1 DEF Linked
<1>4. MutationTypeOK' /\ IdleInv' /\ PlanInv' /\ MirrorInv' /\ LinksAsAsked'
  BY <1>0, <1>1, <1>3, AdvanceKeeps DEF MutationTypeOK
<1>5. StateInv'
  BY <1>0, <1>1, <1>2, AdvanceKeeps DEF StateInv, Consistent
<1>6. EventInv'
  BY <1>0, <1>1 DEF EventInv
<1>7. LinkInv'
  <2>1. ASSUME Relating, raced = 0 PROVE Final' = Promise
    <3>0. \A v : Asked(todo, v) = Asked(todo', v) \cup IF Step.do = v THEN {Step.obj} ELSE {}
      BY <1>1, AdvanceKeeps
    <3>1. /\ Asked(todo, "link") = Asked(todo', "link")
          /\ Asked(todo, "add") = Asked(todo', "add")
          /\ Asked(todo, "unlink") = Asked(todo', "unlink")
          /\ Asked(todo, "detach") = Asked(todo', "detach")
      <4>1. Step.do = "existing"
        BY <1>1
      <4> QED
        BY <3>0, <4>1
    <3>2. Has(todo, "existing")
      BY <1>1, AdvanceKeeps DEF Has
    <3>3. Asked(todo', "existing") = {}
      BY <1>0, <1>1, <2>1, PartOfTail DEF PlanInv, ItemSteps, Step
    <3>4. Has(todo', "detach") /\ ask.replace
      BY <1>0, <2>1, <3>1, <3>2 DEF PlanInv, Has
    <3>5. Final = Promise /\ Promise = ask.set
      BY <1>0, <1>1, <2>1, <3>4 DEF LinkInv, Promise
    <3>6. Final = {i \in Items : i \in Asked(todo, "link") \cup Asked(todo, "add")}
      BY <3>2 DEF Final
    <3>7. Final' = {i \in Items :
            \/ i \in Asked(todo, "link") \cup Asked(todo, "add")
            \/ View[i] = Root /\ i \notin Asked(todo, "unlink") /\ i \in ask.set}
      BY <1>1, <1>2, <3>1, <3>3, <3>4 DEF Final, Has, Linked
    <3> QED
      BY <3>5, <3>6, <3>7
  <2> QED
    BY <1>1, <2>1, AdvanceKeeps
<1> QED
  BY <1>4, <1>5, <1>6, <1>7 DEF MutationInv

LEMMA DetachKeeps ==
  ASSUME MutationInv, Detach PROVE MutationInv'
<1> DEFINE out == {i \in leaving : View[i] = Root}
<1>0. MutationTypeOK /\ StateInv /\ PlanInv /\ EventInv /\ LinkInv
  BY DEF MutationInv
<1>1. /\ todo # <<>> /\ phase # "idle" /\ Advance /\ Quietly /\ todo' = Tail(todo)
      /\ Step.do = "detach"
      /\ tx' = [o \in Objects |-> IF o \in out THEN Nobody ELSE tx[o]]
      /\ dirty' = dirty \cup out /\ quiet' = quiet \cup out
      /\ leaving' = {}
      /\ UNCHANGED <<events, db, schema, ask>>
  BY DEF Detach, Running, Advance, Quietly, work
<1>2. /\ out \subseteq Items /\ out \subseteq Objects /\ out \subseteq leaving
      /\ \A o \in out : View[o] = Root
  BY <1>0 DEF MutationTypeOK, Objects
<1>3. out # {} => schema.nullable
  BY <1>0 DEF StateInv
<1>4. \A i \in leaving : View[i] = Root => i \in out
  OBVIOUS
<1>5. Root' = Root
  BY <1>1 DEF Root
<1> HIDE DEF out
<1>6. \A o \in Objects : View'[o] = IF o \in out THEN Nobody ELSE View[o]
  BY <1>1 DEF View
<1>7. /\ Root \in Roots /\ View \in [Objects -> Value] /\ Nobody \notin Objects /\ Nobody # Gone
      /\ \A o \in Objects : (o \in Roots) # (o \in Items)
      /\ Nobody \notin Roots
  BY <1>0, Bases DEF Objects
<1>8. MutationTypeOK' /\ IdleInv' /\ PlanInv' /\ MirrorInv' /\ LinksAsAsked'
  <2>1. tx' \in [Objects -> Value]
    BY <1>0, <1>1 DEF MutationTypeOK, Value
  <2>2. dirty' \in SUBSET Objects /\ quiet' \in SUBSET dirty' /\ events' \in Seq(Event)
    BY <1>0, <1>1, <1>2 DEF MutationTypeOK
  <2> QED
    BY <1>1, <2>1, <2>2, AdvanceKeeps
<1>9. StateInv'
  <2>1. Consistent(View)
    BY <1>0 DEF StateInv
  <2>2. \A r \in Roots : View'[r] = View[r]
    BY <1>2, <1>6, <1>7 DEF Objects
  <2>3. \A i \in Items : View'[i] = View[i] \/ (View'[i] = Nobody /\ schema.nullable)
    BY <1>3, <1>6 DEF Objects
  <2>4. Consistent(View)'
    BY <1>1, <1>7, <2>1, <2>2, <2>3 DEF Consistent
  <2> QED
    BY <1>1, <2>4, AdvanceKeeps
<1>10. EventInv'
  BY <1>0, <1>1 DEF EventInv
<1>11. LinkInv'
  <2>1. ASSUME Relating, raced = 0 PROVE Final' = Promise
    <3>1. \A v : Asked(todo, v) = Asked(todo', v) \cup IF Step.do = v THEN {Step.obj} ELSE {}
      BY <1>1, AdvanceKeeps
    <3>2. /\ Asked(todo, "link") = Asked(todo', "link")
          /\ Asked(todo, "add") = Asked(todo', "add")
          /\ Asked(todo, "unlink") = Asked(todo', "unlink")
          /\ Asked(todo, "existing") = Asked(todo', "existing")
      <4>1. Step.do = "detach"
        BY <1>1
      <4> QED
        BY <3>1, <4>1
    <3>3. Has(todo, "detach")
      BY <1>1, <3>1 DEF Has
    <3>4. Asked(todo', "detach") = {} /\ Asked(todo, "existing") = {}
      <4>1. /\ Step.do \notin ItemSteps => Asked(todo', Step.do) = {}
            /\ \A v \in DOMAIN Rank : Rank[v] < Rank[Step.do] => Asked(todo, v) = {}
        BY <1>0, <1>1, <2>1, PartOfTail DEF PlanInv, Step
      <4> QED
        BY <1>1, <4>1 DEF ItemSteps, Rank
    <3>5. ASSUME NEW i \in Items
          PROVE  (View[i] = Root /\ i \notin leaving) <=> View'[i] = Root
      BY <1>2, <1>4, <1>6, <1>7 DEF Objects
    <3>6. Final' = Final
      BY <1>5, <3>2, <3>3, <3>4, <3>5 DEF Final, Has
    <3> QED
      BY <1>0, <1>1, <2>1, <3>6 DEF LinkInv
  <2> QED
    BY <1>1, <2>1, AdvanceKeeps
<1> QED
  BY <1>8, <1>9, <1>10, <1>11 DEF MutationInv

LEMMA SaveKeeps ==
  ASSUME MutationInv, Save PROVE MutationInv'
<1> DEFINE o == Step.obj  v == Saves[Step.do]  e == [obj |-> o, value |-> v]
<1>0. MutationTypeOK /\ StateInv /\ PlanInv /\ EventInv /\ LinkInv
  BY DEF MutationInv
<1>1. /\ todo # <<>> /\ phase # "idle" /\ Advance /\ Quietly
      /\ Step.do \in {"save", "edit", "link", "add", "unlink", "store"}
      /\ Step.do = "store" \/ phase = "write"
      /\ Accepts(v) /\ tx' = [tx EXCEPT ![o] = v]
      /\ dirty' = dirty \cup {o} /\ quiet' = quiet \ {o}
      /\ events' = Append(events, e)
      /\ leaving' = leaving
      /\ UNCHANGED <<db, schema, ask>> /\ todo' = Tail(todo)
  BY DEF Save, Ready, Running, Advance, Quietly, work, Saves, Lookups
<1>2. Step \in Sound
  BY <1>1, AdvanceKeeps
<1>3. /\ Root \in Roots /\ View \in [Objects -> Value] /\ Nobody \notin Objects /\ Nobody # Gone
      /\ \A x \in Objects : (x \in Roots) # (x \in Items)
      /\ Nobody \notin Roots /\ Gone \notin Roots /\ Root' = Root
      /\ Nobody \in Value /\ Root \in Value
  BY <1>0, <1>1, Bases DEF Objects, Value, Root
<1>4. /\ Step.do \in {"link", "add"} => v = Root
      /\ Step.do \in {"unlink", "store"} => v = Nobody
      /\ Step.do \in {"save", "edit"} => v = copy
  BY DEF Saves
<1>5. /\ o \in Objects
      /\ Step.do \in {"save", "store"} => o \in Roots
      /\ Step.do \in {"link", "add", "unlink", "edit"} => o \in Items
  BY <1>2 DEF Sound, Statement, ItemSteps
<1>6. /\ v \in Value /\ v # Gone
      /\ o \in Roots => v = Nobody
      /\ v \in Roots => View[v] # Gone
      /\ o \in Items /\ v = Nobody => schema.nullable
  <2>1. copy \in Value
    BY <1>0 DEF MutationTypeOK
  <2>2. /\ phase = "write" => copy # Gone
        /\ Step.do = "save" /\ phase = "write" => copy = Nobody
        /\ Step.do = "edit" /\ phase = "write" /\ copy = Nobody => schema.nullable
    BY <1>0 DEF StateInv
  <2>3. Step.do = "unlink" => schema.nullable
    <3>1. SUFFICES ASSUME Step.do = "unlink" PROVE schema.nullable
      OBVIOUS
    <3>2. Has(todo, "unlink")
      BY <1>1, <3>1, AdvanceKeeps DEF Has
    <3>3. /\ Part(todo, 0, 7) /\ (schema.nullable \/ Has(todo, "nullable"))
      BY <1>0, <3>2 DEF PlanInv
    <3>4. Asked(todo, "nullable") = {}
      BY <1>1, <3>1, <3>3, PartOfTail DEF Rank, Step
    <3> QED
      BY <3>3, <3>4 DEF Has
  <2>4. v \in Roots => View[v] # Gone
    BY <1>1 DEF Accepts
  <2> HIDE DEF v, o
  <2>5. v \in Value /\ v # Gone
    BY <1>1, <1>3, <1>4, <2>1, <2>2
  <2>6. o \in Roots => v = Nobody
    BY <1>1, <1>3, <1>4, <1>5, <2>2
  <2>7. o \in Items /\ v = Nobody => schema.nullable
    BY <1>1, <1>3, <1>4, <1>5, <2>2, <2>3
  <2> QED
    BY <2>4, <2>5, <2>6, <2>7
<1> HIDE DEF o, v
<1>7. \A x \in Objects : View'[x] = IF x = o THEN v ELSE View[x]
  BY <1>0, <1>1, <1>5 DEF View, MutationTypeOK
<1>8. e \in Event /\ e.obj = o /\ e.value = v /\ events \in Seq(Event)
  BY <1>0, <1>5, <1>6 DEF Event, MutationTypeOK
<1> HIDE DEF e
<1>9. MutationTypeOK' /\ IdleInv' /\ PlanInv' /\ MirrorInv' /\ LinksAsAsked'
  <2>1. tx' \in [Objects -> Value]
    BY <1>0, <1>1, <1>5, <1>6 DEF MutationTypeOK
  <2>2. dirty' \in SUBSET Objects /\ quiet' \in SUBSET dirty' /\ leaving' \in SUBSET Items
    BY <1>0, <1>1, <1>5 DEF MutationTypeOK
  <2>3. events' \in Seq(Event)
    BY <1>1, <1>8, ToldOfAppend
  <2>4. Step.do # "nullable"
    BY <1>1
  <2> QED
    BY <1>1, <2>1, <2>2, <2>3, <2>4, AdvanceKeeps
<1>10. StateInv'
  <2>1. Consistent(View) /\ (leaving' # {} => schema.nullable)
    BY <1>0, <1>1 DEF StateInv
  <2>2. \A r \in Roots : View'[r] = View[r] \/ (View'[r] = Nobody /\ r = o)
    BY <1>6, <1>7 DEF Objects
  <2>3. ASSUME NEW i \in Items
        PROVE  \/ View'[i] = View[i]
               \/ /\ View'[i] \in Roots => View[View'[i]] # Gone
                  /\ View'[i] = Nobody => schema.nullable
    BY <1>6, <1>7 DEF Objects
  <2>4. Consistent(View)'
    <3>1. \A r \in Roots : View'[r] \in {Nobody, Gone}
      BY <2>1, <2>2 DEF Consistent
    <3>2. ASSUME NEW i \in Items
          PROVE  /\ View'[i] \in Roots => View'[View'[i]] # Gone
                 /\ View'[i] = Nobody => schema'.nullable
      <4>1. View'[i] \in Roots => View[View'[i]] # Gone
        BY <2>1, <2>3 DEF Consistent
      <4>2. View'[i] = Nobody => schema.nullable
        BY <2>1, <2>3 DEF Consistent
      <4> QED
        BY <1>1, <1>3, <2>2, <4>1, <4>2
    <3> QED
      BY <3>1, <3>2 DEF Consistent
  <2> QED
    BY <1>1, <2>1, <2>4, AdvanceKeeps
<1>11. EventInv'
  <2>1. SUFFICES ASSUME NEW x \in Objects
                 PROVE  /\ Tells(events', x) => x \in dirty'
                        /\ x \in dirty' \ quiet' => Says(events', x, tx'[x])
    BY DEF EventInv
  <2>2. tx'[x] = IF x = o THEN v ELSE tx[x]
    BY <1>0, <1>1, <1>5 DEF MutationTypeOK
  <2>3. CASE x = o
    BY <1>1, <1>8, <2>2, <2>3, ToldOfAppend
  <2>4. CASE x # o
    <3>1. /\ Tells(events', x) <=> Tells(events, x)
          /\ Says(events', x, tx[x]) <=> Says(events, x, tx[x])
      BY <1>1, <1>8, <2>4, ToldOfAppend
    <3> QED
      BY <1>0, <1>1, <2>2, <2>4, <3>1 DEF EventInv
  <2> QED
    BY <2>3, <2>4
<1>12. LinkInv'
  <2>1. ASSUME Relating, raced = 0 PROVE Final' = Promise
    <3>1. \A w : Asked(todo, w) = Asked(todo', w) \cup IF Step.do = w THEN {o} ELSE {}
      BY <1>1, AdvanceKeeps DEF o
    <3>2. \A w \in DOMAIN Rank : Rank[w] < Rank[Step.do] => Asked(todo, w) = {}
      BY <1>0, <1>1, <2>1, PartOfTail DEF PlanInv, Step
    <3>3. Final = Promise
      BY <1>0, <1>1, <2>1 DEF LinkInv
    <3>4. /\ Asked(todo', "existing") = Asked(todo, "existing")
          /\ Asked(todo', "detach") = Asked(todo, "detach")
      BY <1>1, <3>1
    <3>5. CASE Step.do \in {"save", "store", "edit"}
      <4>1. \A i \in Items : View'[i] = View[i]
        <5>1. Step.do = "edit" => v = View[o]
          BY <1>0, <1>1, <1>4, <2>1 DEF LinkInv, o
        <5> QED
          BY <1>3, <1>5, <1>7, <3>5, <5>1 DEF Objects
      <4>2. \A w \in {"link", "add", "unlink"} : Asked(todo', w) = Asked(todo, w)
        BY <3>1, <3>5
      <4>3. Final' = Final
        BY <1>1, <1>3, <3>4, <4>1, <4>2 DEF Final, Has
      <4> QED
        BY <3>3, <4>3
    <3>6. CASE Step.do \in {"link", "add"}
      <4>1. \A w \in {"existing", "detach", "unlink"} : Asked(todo, w) = {} /\ Asked(todo', w) = {}
        BY <3>1, <3>2, <3>6 DEF Rank
      <4>2. /\ o \in Items /\ o \in Asked(todo, "link") \cup Asked(todo, "add")
            /\ Asked(todo, "link") \cup Asked(todo, "add")
                 = Asked(todo', "link") \cup Asked(todo', "add") \cup {o}
        BY <1>5, <3>1, <3>6
      <4>3. \A i \in Items : View'[i] = IF i = o THEN Root ELSE View[i]
        BY <1>4, <1>7, <3>6 DEF Objects
      <4>4. Final' = Final
        BY <1>1, <1>3, <4>1, <4>2, <4>3 DEF Final, Has
      <4> QED
        BY <3>3, <4>4
    <3>7. CASE Step.do = "unlink"
      <4>1. \A w \in {"existing", "detach"} : Asked(todo, w) = {} /\ Asked(todo', w) = {}
        BY <3>1, <3>2, <3>7 DEF Rank
      <4>2. /\ Asked(todo, "link") = Asked(todo', "link")
            /\ Asked(todo, "add") = Asked(todo', "add")
            /\ Asked(todo, "unlink") = Asked(todo', "unlink") \cup {o}
        BY <3>1, <3>7
      <4>3. \A i \in Items : View'[i] = IF i = o THEN Nobody ELSE View[i]
        BY <1>4, <1>7, <3>7 DEF Objects
      <4>4. Final' = Final
        BY <1>1, <1>3, <4>1, <4>2, <4>3 DEF Final, Has
      <4> QED
        BY <3>3, <4>4
    <3> QED
      BY <1>1, <3>5, <3>6, <3>7
  <2> QED
    BY <1>1, <2>1, AdvanceKeeps
<1> QED
  BY <1>9, <1>10, <1>11, <1>12 DEF MutationInv

LEMMA ErasedKeeps ==
  ASSUME MutationInv, Erased PROVE MutationInv'
<1> DEFINE o == Step.obj  deps == Linked(View, o)
           gone == {o} \cup IF schema.on_delete = "cascade" THEN deps ELSE {}
           known == ask.kind = "delete"
           e == [obj |-> IF known THEN o ELSE Nobody, value |-> Gone]
<1>0. MutationTypeOK /\ StateInv /\ PlanInv /\ EventInv
  BY DEF MutationInv
<1>1. /\ todo # <<>> /\ phase # "idle" /\ Advance /\ Quietly /\ todo' = Tail(todo)
      /\ Step.do \in {"delete", "remove"}
      /\ schema.on_delete = "protect" => deps = {}
      /\ leaving' = leaving /\ UNCHANGED <<db, schema, ask>>
  BY DEF Erased, Ready, Running, Advance, Quietly, work
<1>2. \/ schema.on_delete = "protect" /\ deps # {}
      \/ /\ tx' = [x \in Objects |-> IF x \in gone THEN Gone
                                     ELSE IF x \in deps THEN Nobody ELSE tx[x]]
         /\ dirty' = dirty \cup gone \cup deps
         /\ quiet' = (quiet \cup gone \cup deps) \ IF known THEN {o} ELSE {}
         /\ events' = Append(events, e)
  BY DEF Erased, Delete
<1>3. /\ tx' = [x \in Objects |-> IF x \in gone THEN Gone
                                  ELSE IF x \in deps THEN Nobody ELSE tx[x]]
      /\ dirty' = dirty \cup gone \cup deps
      /\ quiet' = (quiet \cup gone \cup deps) \ IF known THEN {o} ELSE {}
      /\ events' = Append(events, e)
  BY <1>1, <1>2
<1>4. Step \in Sound
  BY <1>1, AdvanceKeeps
<1>5. /\ View \in [Objects -> Value] /\ Nobody \notin Objects /\ Nobody # Gone
      /\ \A x \in Objects : (x \in Roots) # (x \in Items)
      /\ Nobody \notin Roots /\ Gone \notin Roots
      /\ Nobody \in Value /\ Gone \in Value
      /\ schema.on_delete = "set_null" => schema.nullable
  BY <1>0, Bases DEF Objects, Value
<1>6. o \in Roots /\ o \in Objects
  BY <1>1, <1>4 DEF Sound, Objects, ItemSteps
<1>7. /\ deps \subseteq Items /\ \A x \in Items : x \in deps <=> View[x] = o
      /\ gone \subseteq {o} \cup deps /\ o \in gone
      /\ deps \ gone # {} => schema.nullable
  <2>1. schema.on_delete \in {"cascade", "set_null", "protect"}
    BY <1>0, SchemasAssumption DEF MutationTypeOK
  <2> QED
    BY <1>1, <1>5, <2>1 DEF Linked
<1>8. e \in Event /\ e.value = Gone /\ e.obj = IF known THEN o ELSE Nobody
  BY <1>5, <1>6 DEF Event
<1>9. events \in Seq(Event)
  BY <1>0 DEF MutationTypeOK
<1> HIDE DEF o, deps, gone, known, e
<1>10. \A x \in Objects : View'[x] = IF x \in gone THEN Gone
                                     ELSE IF x \in deps THEN Nobody ELSE View[x]
  BY <1>1, <1>3, <1>7 DEF View
<1>11. MutationTypeOK' /\ IdleInv' /\ PlanInv' /\ MirrorInv' /\ LinksAsAsked'
  <2>1. tx' \in [Objects -> Value]
    BY <1>0, <1>3, <1>5 DEF MutationTypeOK
  <2>2. dirty' \in SUBSET Objects /\ quiet' \in SUBSET dirty' /\ leaving' \in SUBSET Items
    BY <1>0, <1>1, <1>3, <1>6, <1>7 DEF MutationTypeOK, Objects
  <2>3. events' \in Seq(Event)
    BY <1>3, <1>8, <1>9, ToldOfAppend
  <2>4. Step.do # "nullable"
    BY <1>1
  <2> QED
    BY <1>1, <2>1, <2>2, <2>3, <2>4, AdvanceKeeps
<1>12. StateInv'
  <2>1. Consistent(View) /\ (leaving' # {} => schema.nullable)
    BY <1>0, <1>1 DEF StateInv
  <2>2. \A r \in Roots : View'[r] = IF r = o THEN Gone ELSE View[r]
    BY <1>5, <1>7, <1>10 DEF Objects
  <2>3. ASSUME NEW i \in Items
        PROVE  \/ View'[i] = View[i] /\ View[i] # o
               \/ View'[i] = Gone
               \/ View'[i] = Nobody /\ schema.nullable
    BY <1>5, <1>6, <1>7, <1>10 DEF Objects
  <2>4. Consistent(View)'
    BY <1>1, <1>5, <2>1, <2>2, <2>3 DEF Consistent
  <2> QED
    BY <1>1, <2>1, <2>4, AdvanceKeeps
<1>13. EventInv'
  <2>1. SUFFICES ASSUME NEW x \in Objects
                 PROVE  /\ Tells(events', x) => x \in dirty'
                        /\ x \in dirty' \ quiet' => Says(events', x, tx'[x])
    BY DEF EventInv
  <2>2. CASE x = e.obj
    <3>1. known /\ x = o
      BY <1>5, <1>8, <2>2
    <3> QED
      BY <1>3, <1>6, <1>7, <1>8, <1>9, <2>2, <3>1, ToldOfAppend
  <2>3. CASE x # e.obj
    <3>1. /\ Tells(events', x) <=> Tells(events, x)
          /\ Says(events', x, tx[x]) <=> Says(events, x, tx[x])
      BY <1>3, <1>8, <1>9, <2>3, ToldOfAppend
    <3>2. x \notin quiet' => x \notin gone /\ x \notin deps /\ x \notin quiet
      BY <1>3, <1>8, <2>3
    <3>3. x \in dirty' \ quiet' => x \in dirty \ quiet /\ tx'[x] = tx[x]
      BY <1>3, <3>2
    <3> QED
      BY <1>0, <1>3, <3>1, <3>3 DEF EventInv
  <2> QED
    BY <2>2, <2>3
<1>14. LinkInv'
  <2>1. ~Relating
    <3>1. Relating => Part(todo, 0, 7) /\ todo # <<>>
      BY <1>0, <1>1 DEF PlanInv
    <3>2. Relating => Step.do \in DOMAIN Rank
      BY <3>1, PartOfTail DEF Step
    <3> QED
      BY <1>1, <3>2 DEF Rank
  <2> QED
    BY <1>1, <2>1, AdvanceKeeps
<1> QED
  BY <1>11, <1>12, <1>13, <1>14 DEF MutationInv

LEMMA DispatchKeeps ==
  ASSUME MutationInv, Dispatch PROVE MutationInv'
<1> DEFINE e == Head(outbox)
<1>0. /\ MutationTypeOK /\ IdleInv /\ StateInv /\ PlanInv /\ EventInv /\ MirrorInv
      /\ LinkInv /\ LinksAsAsked
  BY DEF MutationInv
<1>1. /\ outbox # <<>> /\ outbox' = Tail(outbox)
      /\ mirror' = IF e.obj = Nobody THEN mirror ELSE [mirror EXCEPT ![e.obj] = e.value]
      /\ UNCHANGED <<db, phase, todo, copy, leaving, tx, dirty, quiet, events, answer,
                     raced, silent, schema, ask, had, served>>
  BY DEF Dispatch, work
<1>2. outbox \in Seq(Event) /\ mirror \in [Objects -> Value]
  BY <1>0 DEF MutationTypeOK
<1>3. /\ e \in Event /\ Tail(outbox) \in Seq(Event)
      /\ \A o : Tells(outbox, o) <=> Tells(Tail(outbox), o) \/ o = e.obj
      /\ \A o, v : Says(outbox, o, v) =>
           IF Tells(Tail(outbox), o) THEN Says(Tail(outbox), o, v) ELSE e.value = v
  BY <1>1, <1>2, ToldOfTail
<1> HIDE DEF e
<1>4. phase = "idle"
  BY <1>0, <1>1 DEF IdleInv
<1>5. View' = View /\ Step' = Step /\ Root' = Root
  BY <1>1 DEF View, Step, Root
<1>6. MutationTypeOK'
  <2>1. mirror' \in [Objects -> Value]
    BY <1>1, <1>2, <1>3 DEF Event
  <2>2. Consistent(db)'
    BY <1>0, <1>1 DEF MutationTypeOK, Consistent
  <2> QED
    BY <1>0, <1>1, <1>3, <2>1, <2>2 DEF MutationTypeOK
<1>7. IdleInv'
  BY <1>0, <1>1, <1>4 DEF IdleInv
<1>8. StateInv'
  BY <1>0, <1>1, <1>4, <1>5 DEF StateInv, Consistent
<1>9. PlanInv'
  BY <1>0, <1>1 DEF PlanInv, Relating
<1>10. EventInv'
  BY <1>0, <1>1 DEF EventInv
<1>11. MirrorInv'
  <2>1. SUFFICES ASSUME NEW o \in Objects, o \notin silent
                 PROVE  IF Tells(outbox', o) THEN Says(outbox', o, db[o])
                        ELSE mirror'[o] = db[o]
    BY <1>1 DEF MirrorInv
  <2>2. IF Tells(outbox, o) THEN Says(outbox, o, db[o]) ELSE mirror[o] = db[o]
    BY <1>0, <2>1 DEF MirrorInv
  <2>3. CASE Tells(outbox', o)
    BY <1>1, <1>3, <2>2, <2>3
  <2>4. CASE ~Tells(outbox', o) /\ o = e.obj
    <3>1. e.value = db[o]
      BY <1>1, <1>3, <2>2, <2>4
    <3>2. e.obj # Nobody
      BY <2>1, <2>4, ObjectsAssumption
    <3> QED
      BY <1>1, <1>2, <2>1, <2>4, <3>1, <3>2
  <2>5. CASE ~Tells(outbox', o) /\ o # e.obj
    BY <1>1, <1>2, <1>3, <2>1, <2>2, <2>5
  <2> QED
    BY <2>3, <2>4, <2>5
<1>12. LinkInv' /\ LinksAsAsked'
  BY <1>0, <1>1, <1>4, <1>5 DEF LinkInv, LinksAsAsked, Answered, Linked
<1> QED
  BY <1>6, <1>7, <1>8, <1>9, <1>10, <1>11, <1>12 DEF MutationInv

LEMMA CrashKeeps ==
  ASSUME MutationInv, Crash PROVE MutationInv'
<1>0. /\ MutationTypeOK /\ IdleInv /\ StateInv /\ MirrorInv /\ LinksAsAsked
  BY DEF MutationInv
<1>1. /\ outbox' = <<>>
      /\ silent' = silent \cup ({outbox[n].obj : n \in DOMAIN outbox} \ {Nobody})
      /\ answer' = IF phase = "idle" THEN answer
                   ELSE [ok |-> FALSE, cause |-> "crash", wrote |-> {}]
      /\ phase' = "idle" /\ todo' = <<>> /\ copy' = Gone
      /\ leaving' = {} /\ tx' = Nothing /\ dirty' = {} /\ quiet' = {} /\ events' = <<>>
      /\ UNCHANGED <<db, mirror, raced, schema, ask, had, served>>
  BY DEF Crash, Leave, work
<1>2. db \in [Objects -> Value] /\ Consistent(db) /\ outbox \in Seq(Event)
  BY <1>0 DEF MutationTypeOK
<1>3. Consistent(db)' /\ View' = db
  BY <1>1, <1>2 DEF Consistent, View
<1>4. MutationTypeOK'
  <2>1. tx' \in [Objects -> Value] /\ copy' \in Value
    BY <1>1 DEF Nothing, Value
  <2>2. answer' \in [ok : BOOLEAN, cause : Causes, wrote : SUBSET Objects]
    BY <1>0, <1>1 DEF MutationTypeOK, Causes
  <2>3. \A n \in DOMAIN outbox : outbox[n] \in Event
    BY <1>2
  <2>4. silent' \in SUBSET Objects
    BY <1>0, <1>1, <2>3 DEF MutationTypeOK, Event
  <2> QED
    BY <1>0, <1>1, <1>3, <2>1, <2>2, <2>4 DEF MutationTypeOK
<1>5. IdleInv'
  BY <1>1 DEF IdleInv
<1>6. StateInv'
  <2>1. Consistent(View)'
    BY <1>1, <1>2, <1>3 DEF Consistent
  <2> QED
    BY <1>0, <1>1, <2>1 DEF StateInv
<1>7. PlanInv'
  BY <1>1, NoPart DEF PlanInv, Has
<1>8. EventInv'
  BY <1>1, NoneTold DEF EventInv
<1>9. MirrorInv'
  <2>1. SUFFICES ASSUME NEW o \in Objects, o \notin silent' PROVE mirror[o] = db[o]
    BY <1>1, NoneTold DEF MirrorInv
  <2>2. o # Nobody
    BY <2>1, ObjectsAssumption
  <2>3. o \notin silent /\ ~Tells(outbox, o)
    BY <1>1, <2>1, <2>2 DEF Tells
  <2> QED
    BY <1>0, <2>1, <2>3 DEF MirrorInv
<1>10. LinkInv'
  BY <1>1 DEF LinkInv
<1>11. LinksAsAsked'
  <2>1. Root' = Root
    BY <1>1 DEF Root
  <2> QED
    BY <1>0, <1>1, <2>1 DEF LinksAsAsked, Answered, Linked
<1> QED
  BY <1>4, <1>5, <1>6, <1>7, <1>8, <1>9, <1>10, <1>11 DEF MutationInv

LEMMA ElsewhereKeeps ==
  ASSUME MutationInv, Elsewhere PROVE MutationInv'
<1>0. /\ MutationTypeOK /\ IdleInv /\ StateInv /\ PlanInv /\ EventInv /\ MirrorInv
  BY DEF MutationInv
<1>1. /\ raced < MaxRaces /\ raced' = raced + 1
      /\ UNCHANGED <<phase, todo, copy, leaving, tx, dirty, quiet, events, outbox, mirror,
                     answer, schema, ask, had, served>>
  BY DEF Elsewhere, work
<1>2. PICK o \in Objects, v \in Value, w \in {Nobody, Gone} :
        LET deps == IF v = Gone THEN Linked(db, o) ELSE {}
            d == [x \in Objects |-> IF x = o THEN v ELSE IF x \in deps THEN w ELSE db[x]]
        IN /\ v # db[o] /\ Consistent(d) /\ o \notin New
           /\ ({o} \cup deps) \cap dirty = {}
           /\ v = Gone => \A x \in dirty : tx[x] # o
           /\ v \in dirty => tx[v] # Gone
           /\ db' = d
           /\ silent' = silent \cup {o} \cup deps
  BY DEF Elsewhere
<1> DEFINE deps == IF v = Gone THEN Linked(db, o) ELSE {}
<1>3. /\ db' = [x \in Objects |-> IF x = o THEN v ELSE IF x \in deps THEN w ELSE db[x]]
      /\ Consistent(db') /\ o \notin dirty /\ deps \cap dirty = {}
      /\ v = Gone => \A x \in dirty : tx[x] # o
      /\ v \in dirty => tx[v] # Gone
      /\ silent' = silent \cup {o} \cup deps
  BY <1>2
<1>4. deps \subseteq Items
  BY DEF Linked
<1> HIDE DEF deps
<1>5. /\ raced \in Nat /\ raced' \in 0 .. MaxRaces /\ raced' # 0
  BY <1>0, <1>1, BoundAssumption DEF MutationTypeOK
<1>6. /\ View \in [Objects -> Value] /\ Nobody \notin Objects /\ Nobody # Gone
      /\ \A x \in Objects : (x \in Roots) # (x \in Items)
      /\ Nobody \notin Roots /\ Gone \notin Roots
      /\ Nobody \in Value /\ Gone \in Value
  BY <1>0, Bases DEF Objects, Value
<1>7. db' \in [Objects -> Value]
  BY <1>0, <1>3, <1>6 DEF MutationTypeOK
<1>8. MutationTypeOK'
  <2>1. silent' \in SUBSET Objects
    BY <1>0, <1>3, <1>4 DEF MutationTypeOK, Objects
  <2>2. Consistent(db)'
    BY <1>1, <1>3 DEF Consistent
  <2> QED
    BY <1>0, <1>1, <1>5, <1>7, <2>1, <2>2 DEF MutationTypeOK
<1>9. IdleInv'
  BY <1>0, <1>1 DEF IdleInv
<1>10. StateInv'
  <2>1. \A x \in Objects : View'[x] = IF x \in dirty THEN View[x] ELSE db'[x]
    BY <1>1, <1>3 DEF View
  <2>2. Consistent(View) /\ Consistent(db')
    BY <1>0, <1>3 DEF StateInv
  <2>3. \A x \in Objects : x \in dirty => View[x] = tx[x]
    BY DEF View
  <2>4. \A x \in Objects : x \notin dirty => View[x] = db[x]
    BY DEF View
  <2>5. \A r \in Roots : View'[r] \in {Nobody, Gone}
    BY <2>1, <2>2 DEF Consistent, Objects
  <2>6. ASSUME NEW i \in Items, View'[i] \in Roots PROVE View'[View'[i]] # Gone
    <3> DEFINE r == View'[i]
    <3>0. r \in Roots /\ r \in Objects /\ i \in Objects /\ r \notin deps
      BY <1>4, <1>6, <2>6 DEF Objects
    <3> HIDE DEF r
    <3>1. CASE i \in dirty
      <4>1. tx[i] = r /\ View[i] = r /\ View[r] # Gone
        BY <2>1, <2>2, <2>3, <3>0, <3>1 DEF Consistent, r
      <4>2. r \notin dirty => db'[r] = IF r = o THEN v ELSE View[r]
        BY <1>3, <2>4, <3>0
      <4> QED
        BY <1>3, <2>1, <3>0, <3>1, <4>1, <4>2 DEF r
    <3>2. CASE i \notin dirty
      <4>1. db'[i] = r /\ db'[r] # Gone
        BY <2>1, <2>2, <3>0, <3>2 DEF Consistent, r
      <4>2. r \in dirty => View[r] # Gone
        <5>1. CASE i = o
          BY <1>3, <2>3, <3>0, <4>1, <5>1
        <5>2. CASE i # o
          <6>1. i \notin deps
            BY <1>3, <1>6, <3>0, <4>1, <5>2
          <6>2. View[i] = r
            BY <1>3, <2>4, <3>0, <3>2, <4>1, <5>2, <6>1
          <6> QED
            BY <2>2, <3>0, <6>2 DEF Consistent
        <5> QED
          BY <5>1, <5>2
      <4> QED
        BY <2>1, <3>0, <4>1, <4>2 DEF r
    <3> QED
      BY <3>1, <3>2
  <2>7. ASSUME NEW i \in Items, View'[i] = Nobody PROVE schema.nullable
    <3>1. View[i] = Nobody \/ db'[i] = Nobody
      BY <2>1, <2>7 DEF Objects
    <3> QED
      BY <2>2, <3>1 DEF Consistent
  <2>8. Consistent(View)'
    BY <1>1, <2>5, <2>6, <2>7 DEF Consistent
  <2> QED
    BY <1>0, <1>1, <2>8 DEF StateInv, Step
<1>11. PlanInv'
  BY <1>0, <1>1 DEF PlanInv, Relating
<1>12. EventInv'
  BY <1>0, <1>1 DEF EventInv
<1>13. MirrorInv'
  <2>1. \A x \in Objects \ silent' : x \notin silent /\ db'[x] = db[x]
    BY <1>3
  <2> QED
    BY <1>0, <1>1, <2>1 DEF MirrorInv
<1>14. LinkInv' /\ LinksAsAsked'
  BY <1>5 DEF LinkInv, LinksAsAsked, Answered
<1> QED
  BY <1>8, <1>9, <1>10, <1>11, <1>12, <1>13, <1>14 DEF MutationInv
-----------------------------------------------------------------------------
(* The theorems *)

\* A delete is one statement: as long as it has not run, nothing is written.
AloneInv ==
  ask.kind = "delete" =>
    todo = <<>> \/ (Tail(todo) = <<>> /\ dirty = {} /\ events = <<>>)

LEMMA MutationStep ==
  ASSUME MutationInv, [MutationNext]_mutationVars PROVE MutationInv'
<1>1. CASE MutationNext
  BY <1>1, Ways, BeginKeeps, EndedKeeps, LoadedKeeps, PassedKeeps, SaveKeeps, NotedKeeps,
     DetachKeeps, ErasedKeeps, DispatchKeeps, CrashKeeps, ElsewhereKeeps
<1>2. CASE UNCHANGED mutationVars
  <2>1. /\ UNCHANGED <<schema, db, ask, phase, todo, copy, leaving, tx, dirty, quiet, events,
                       outbox, mirror, answer, had, raced, silent, served>>
        /\ MutationTypeOK /\ IdleInv /\ StateInv /\ PlanInv /\ EventInv /\ MirrorInv
        /\ LinkInv /\ LinksAsAsked
    BY <1>2 DEF mutationVars, MutationInv
  <2>2. View' = View /\ Step' = Step /\ Root' = Root
    BY <2>1 DEF View, Step, Root
  <2>3. Relating' = Relating /\ Promise' = Promise /\ Final' = Final
    BY <2>1, <2>2 DEF Relating, Promise, Final
  <2>4. MutationTypeOK'
    BY <2>1 DEF MutationTypeOK, Consistent
  <2>5. StateInv'
    BY <2>1, <2>2 DEF StateInv, Consistent
  <2>6. IdleInv' /\ PlanInv' /\ EventInv' /\ MirrorInv'
    BY <2>1, <2>3 DEF IdleInv, PlanInv, EventInv, MirrorInv
  <2>7. LinkInv' /\ LinksAsAsked'
    BY <2>1, <2>2, <2>3 DEF LinkInv, LinksAsAsked, Answered, Linked
  <2> QED
    BY <2>4, <2>5, <2>6, <2>7 DEF MutationInv
<1> QED
  BY <1>1, <1>2

\* The inductive invariant of the mutations.
THEOREM MutationInvariant == MutationSpec => []MutationInv
<1>1. MutationInit => MutationInv
  BY MutationInitInv
<1>2. MutationInv /\ [MutationNext]_mutationVars => MutationInv'
  BY MutationStep
<1> QED
  BY <1>1, <1>2, PTL DEF MutationSpec

\* The state of a mutation, of its transaction and of what is announced has its
\* type, and what is committed is consistent: no item refers to a root that does
\* not exist, and none is without a root unless its foreign key may be null.
THEOREM MutationTypes == MutationSpec => []MutationTypeOK
<1>1. MutationInv => MutationTypeOK
  BY DEF MutationInv
<1> QED
  BY <1>1, MutationInvariant, PTL

\* Whoever applies the events knows the committed state of every record whose
\* latest change was announced.
THEOREM EventsTellTheDatabase == MutationSpec => []MirrorFollows
<1>1. MutationInv => MirrorFollows
  BY NoneTold DEF MutationInv, MirrorInv, MirrorFollows
<1> QED
  BY <1>1, MutationInvariant, PTL

\* A create or update that succeeds leaves the links its operators ask for, if
\* nothing else was committed meanwhile.
THEOREM LinksFollowTheRequest == MutationSpec => []LinksAsAsked
<1>1. MutationInv => LinksAsAsked
  BY DEF MutationInv
<1> QED
  BY <1>1, MutationInvariant, PTL

LEMMA AloneStep ==
  ASSUME MutationInv, AloneInv, [MutationNext]_mutationVars PROVE AloneInv'
<1>1. CASE Begin
  <2>1. dirty' = {} /\ events' = <<>> /\ ask' \in Asks
    BY <1>1 DEF Begin, MutationInv, IdleInv
  <2>2. ask'.kind = "delete" => todo' = <<Do("delete", CHOOSE r \in ask'.roots : TRUE)>>
    BY <1>1 DEF Begin, Plan
  <2>3. ASSUME NEW x PROVE Tail(<<x>>) = <<>>
    <3> DEFINE s == <<x>>
    <3>1. s \in Seq({x}) /\ s # <<>> /\ Len(s) = 1
      OBVIOUS
    <3> HIDE DEF s
    <3>2. Tail(s) \in Seq({x}) /\ Len(Tail(s)) = 0
      BY <3>1, HeadTailProperties
    <3> QED
      BY <3>2, EmptySeq DEF s
  <2> QED
    BY <2>1, <2>2, <2>3 DEF AloneInv
<1>2. CASE Ended \/ Crash
  BY <1>2 DEF Ended, Crash, Leave, AloneInv
<1>3. CASE Passed \/ Save \/ Noted \/ Detach \/ Erased
  <2>1. todo # <<>> /\ todo' = Tail(todo) /\ ask' = ask
    BY <1>3 DEF Passed, Save, Noted, Detach, Erased, Ready, Running, Advance, work
  <2> QED
    BY <2>1 DEF AloneInv
<1>4. CASE Loaded \/ Dispatch \/ Elsewhere \/ UNCHANGED mutationVars
  <2>1. UNCHANGED <<ask, todo, dirty, events>>
    BY <1>4 DEF Loaded, Dispatch, Elsewhere, work, mutationVars
  <2> QED
    BY <2>1 DEF AloneInv
<1> QED
  BY <1>1, <1>2, <1>3, <1>4, Ways

LEMMA FailureStep ==
  ASSUME MutationInv, AloneInv, MutationNext,
         phase # "idle", phase' = "idle", ~answer'.ok,
         \/ ask.kind = "delete" \/ answer'.cause \in {"database", "crash"}
         \/ ask.kind \in {"bulk_delete", "method"} /\ answer'.cause # "not found"
  PROVE  db' = db /\ outbox' = <<>>
<1>1. ASSUME NEW cause \in Causes \ {"crash"}, Fail(cause), todo # <<>>
      PROVE  db' = db /\ outbox' = <<>>
  <2>1. CASE RollsBack(cause)
    BY <1>1, <2>1 DEF Fail, RollBack, Dropped
  <2>2. CASE ~RollsBack(cause)
    <3>0. CommitTx(FALSE, cause)
      BY <1>1, <2>2 DEF Fail
    <3>1. db' = View /\ outbox' = events /\ answer'.cause = cause
      BY <3>0 DEF CommitTx
    <3>2. ask.kind = "delete"
      BY <1>1, <2>2, <3>1 DEF RollsBack
    <3>3. dirty = {} /\ events = <<>>
      BY <1>1, <3>2 DEF AloneInv
    <3>4. db = View
      BY <3>3 DEF View, MutationInv, MutationTypeOK
    <3> QED
      BY <3>1, <3>3, <3>4
  <2> QED
    BY <2>1, <2>2
<1>2. CASE Crash
  BY <1>2 DEF Crash
<1>3. \/ LookUp \/ Find \/ Refused \/ AssertNullable \/ ReadExisting \/ Delete \/ Crash
  <2>1. ~Begin /\ ~Dispatch /\ ~Elsewhere
    BY DEF Begin, Dispatch, Elsewhere
  <2>2. ~Save /\ ~Detach
    BY DEF Save, Detach, Advance
  <2>3. ~Finish
    <3>1. CommitTx(TRUE, "none") => answer'.ok
      BY DEF CommitTx
    <3> QED
      BY <3>1 DEF Finish
  <2> QED
    BY <2>1, <2>2, <2>3 DEF MutationNext
<1>4. CASE LookUp \/ Find \/ Refused \/ AssertNullable \/ ReadExisting \/ Delete
  <2>1. todo # <<>>
    BY <1>4 DEF LookUp, Find, Refused, AssertNullable, ReadExisting, Delete, Ready, Running
  <2>2. \E cause \in Causes \ {"crash"} : Fail(cause)
    <3>1. CASE LookUp
      BY <3>1 DEF LookUp, Causes
    <3>2. CASE Find \/ AssertNullable \/ ReadExisting \/ Delete
      <4>1. Fail("not found") \/ Fail("invalid") \/ Fail("error")
        BY <3>2 DEF Find, AssertNullable, ReadExisting, Delete, Advance
      <4> QED
        BY <4>1 DEF Causes
    <3>3. CASE Refused
      BY <3>3 DEF Refused, Causes
    <3> QED
      BY <1>4, <3>1, <3>2, <3>3
  <2> QED
    BY <1>1, <2>1, <2>2
<1> QED
  BY <1>2, <1>3, <1>4

\* A delete, bulk_delete or method that fails, whatever it had written, and any
\* mutation the database refuses or a crash ends, commits and announces nothing.
THEOREM FailuresRollBack == MutationSpec => FailureRollsBack
<1>1. MutationInit => AloneInv
  BY DEF MutationInit, AloneInv
<1>2. MutationInv /\ AloneInv /\ [MutationNext]_mutationVars => AloneInv'
  BY AloneStep
<1>3. MutationSpec => []AloneInv
  BY <1>1, <1>2, MutationInvariant, PTL DEF MutationSpec
<1>4. MutationInv /\ AloneInv /\ [MutationNext]_mutationVars
      => [phase # "idle" /\ phase' = "idle" /\ ~answer'.ok
          /\ \/ ask.kind = "delete" \/ answer'.cause \in {"database", "crash"}
             \/ ask.kind \in {"bulk_delete", "method"} /\ answer'.cause # "not found"
          => db' = db /\ outbox' = <<>>]_mutationVars
  BY FailureStep
<1> QED
  BY <1>3, <1>4, MutationInvariant, PTL DEF MutationSpec, FailureRollsBack
=============================================================================
