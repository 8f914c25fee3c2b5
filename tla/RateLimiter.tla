---------------------------- MODULE RateLimiter ----------------------------
(***************************************************************************)
(* core/rate_limiting.py: the fixed window counters that RateLimiter.check *)
(* keeps in the Django cache for one client (one identifier) and one       *)
(* context, and the requests that are checked against them: once by the    *)
(* HTTP middleware, where it is installed, and once more before each root  *)
(* field of the query.                                                     *)
(*                                                                         *)
(* The HTTP middleware also tells the event bus of a refusal, see EventBus.*)
(*                                                                         *)
(* A counter is a cache entry.  Each access to the cache is a step, so     *)
(* that requests of several threads interleave between them, and the entry *)
(* can expire there.                                                       *)
(***************************************************************************)
EXTENDS Naturals, Sequences, FiniteSets

CONSTANTS Threads,   \* the threads of the web server
          Limits,    \* limit of each enabled rule of the context, in order
          Window,    \* window_seconds of the rules, in ticks
          Http,      \* whether the HTTP middleware may be (TRUE) or be not installed
          Fields     \* bound: root fields of a query

ASSUME LimitsAssumption == Limits \in Seq(Nat \ {0})
ASSUME WindowAssumption == Window \in Nat \ {0}
ASSUME ThreadsAssumption == IsFiniteSet(Threads) /\ Fields \in Nat \ {0}
ASSUME HttpAssumption == Http \subseteq BOOLEAN

VARIABLES
  http,      \* the HTTP middleware is installed
  counter,   \* per rule: the cache entry, count and remaining lifetime
  used,      \* history, per rule: requests let through in the lifetime of the
             \* entry (a request that the failing cache lets through has none)
  thread,    \* per thread: position and rule in check, layer, count it saw
  checked    \* per thread: its request is marked as checked

vars == <<http, counter, used, thread, checked>>

Rules == DOMAIN Limits
N == Cardinality(Threads)
Most(r) == Limits[r] + 2 * (N - 1)
Positions == {"idle", "check", "get", "add", "incr", "set", "allowed", "refused"}
Layers == 0 .. Fields    \* 0: the HTTP middleware, f: root field f

TypeOK ==
  /\ http \in Http
  /\ counter \in [Rules -> [count : Nat, left : 0 .. Window]]
  /\ used \in [Rules -> Nat]
  /\ thread \in [Threads -> [pc : Positions, rule : Nat, layer : Layers, seen : Nat]]
  /\ checked \in [Threads -> BOOLEAN]

Waiting == [pc |-> "idle", rule |-> 1, layer |-> 0, seen |-> 0]

Init ==
  /\ http \in Http
  /\ counter = [r \in Rules |-> [count |-> 0, left |-> 0]]
  /\ used = [r \in Rules |-> 0]
  /\ thread = [t \in Threads |-> Waiting]
  /\ checked = [t \in Threads |-> FALSE]
-----------------------------------------------------------------------------
At(t, pc) == thread[t].pc = pc
Goto(t, pc) == thread' = [thread EXCEPT ![t].pc = pc]
Rule(t) == thread[t].rule
Live(r) == counter[r].left > 0

\* A request arrives; without the HTTP middleware its first check is that of
\* its first field.
Arrive(t) ==
  /\ At(t, "idle")
  /\ thread' = [thread EXCEPT ![t] = [Waiting EXCEPT !.pc = "check",
                                                    !.layer = IF http THEN 0 ELSE 1]]
  /\ checked' = [checked EXCEPT ![t] = FALSE]
  /\ UNCHANGED <<counter, used>>

\* _mark_checked: the second check of a request lets it pass, whatever the
\* first one said.
Check(t) ==
  /\ At(t, "check")
  /\ thread' = [thread EXCEPT ![t].pc = IF checked[t] \/ Limits = << >>
                                        THEN "allowed" ELSE "get",
                              ![t].rule = 1]
  /\ checked' = [checked EXCEPT ![t] = TRUE]
  /\ UNCHANGED <<counter, used>>

\* Mutant of Get: a refusal renews the window.
GetTouching(t) ==
  LET r == Rule(t) IN
  /\ At(t, "get")
  /\ IF ~Live(r) THEN Goto(t, "add") /\ UNCHANGED counter
     ELSE IF counter[r].count + 1 > Limits[r]
     THEN /\ Goto(t, "refused")
          /\ counter' = [counter EXCEPT ![r].left = Window]
     ELSE /\ thread' = [thread EXCEPT ![t].pc = "incr", ![t].seen = counter[r].count]
          /\ UNCHANGED counter
  /\ UNCHANGED <<used, checked>>
\* _consume reads the counter and decides; an error of the cache lets pass.
Get(t) ==
  LET r == Rule(t) IN
  /\ At(t, "get")
  /\ \/ /\ ~Live(r)
        /\ Goto(t, "add")
     \/ /\ Live(r) /\ counter[r].count + 1 > Limits[r]
        /\ Goto(t, "refused")
     \/ /\ Live(r) /\ counter[r].count + 1 <= Limits[r]
        /\ thread' = [thread EXCEPT ![t].pc = "incr", ![t].seen = counter[r].count]
  /\ UNCHANGED <<counter, used, checked>>

\* The rule lets the request pass: on to the next one.
Pass(t) ==
  thread' = [thread EXCEPT ![t].pc = IF Rule(t) = Len(Limits) THEN "allowed" ELSE "get",
                           ![t].rule = IF Rule(t) = Len(Limits) THEN 1 ELSE @ + 1,
                           ![t].seen = 0]
Open(r, count) ==
  /\ counter' = [counter EXCEPT ![r] = [count |-> count, left |-> Window]]
  /\ used' = [used EXCEPT ![r] = 1]

\* cache.add opens the window, or does nothing when another request has.
Add(t) ==
  LET r == Rule(t) IN
  /\ At(t, "add") /\ Pass(t)
  /\ IF Live(r) THEN used' = [used EXCEPT ![r] = @ + 1] /\ UNCHANGED counter
     ELSE Open(r, 1)
  /\ UNCHANGED checked

\* Mutant of Incr: the count that was read is written back.
IncrLost(t) ==
  LET r == Rule(t) IN
  /\ At(t, "incr") /\ Pass(t)
  /\ IF Live(r) THEN /\ counter' = [counter EXCEPT ![r].count = thread[t].seen + 1]
                     /\ used' = [used EXCEPT ![r] = @ + 1]
     ELSE Open(r, thread[t].seen + 1)
  /\ UNCHANGED checked
\* cache.incr leaves the lifetime alone, and raises when the entry is gone.
Incr(t) ==
  LET r == Rule(t) IN
  /\ At(t, "incr")
  /\ IF Live(r)
     THEN /\ Pass(t)
          /\ counter' = [counter EXCEPT ![r].count = @ + 1]
          /\ used' = [used EXCEPT ![r] = @ + 1]
     ELSE Goto(t, "set") /\ UNCHANGED <<counter, used>>
  /\ UNCHANGED checked

\* The fallback opens a new window with the count of the old one, and closes
\* one that was opened in between.
SetAnew(t) ==
  LET r == Rule(t) IN
  /\ At(t, "set") /\ Pass(t) /\ Open(r, thread[t].seen + 1)
  /\ UNCHANGED checked

\* The cache raises: in get the rule lets the request pass, uncounted; incr is
\* replaced by the fallback; from add and set the exception ends the field or
\* the request.
CacheError(t) ==
  /\ \/ At(t, "get") /\ Pass(t)
     \/ At(t, "incr") /\ Goto(t, "set")
     \/ (At(t, "add") \/ At(t, "set")) /\ Goto(t, "refused")
  /\ UNCHANGED <<counter, used, checked>>

\* Mutant of Last: one more layer than the query has fields.
LastOff(t) == thread[t].layer > Fields
Last(t) == thread[t].layer = Fields
Onward(t) == thread' = [thread EXCEPT ![t] = [Waiting EXCEPT !.pc = "check",
                                                            !.layer = thread[t].layer + 1]]
Over(t) == thread' = [thread EXCEPT ![t] = Waiting]
           /\ checked' = [checked EXCEPT ![t] = FALSE]

\* On to the first field, or to the next one.
Proceed(t) ==
  /\ At(t, "allowed")
  /\ IF Last(t) THEN Over(t) ELSE Onward(t) /\ UNCHANGED checked
  /\ UNCHANGED <<counter, used>>

\* The middleware answers 429 and the request is over; a field ends with
\* PermissionError, and the next field is checked.
Refuse(t) ==
  /\ At(t, "refused")
  /\ IF Last(t) \/ thread[t].layer = 0 THEN Over(t) ELSE Onward(t) /\ UNCHANGED checked
  /\ UNCHANGED <<counter, used>>

Tick ==
  /\ \E r \in Rules : Live(r)
  /\ counter' = [r \in Rules |->
       IF counter[r].left <= 1 THEN [count |-> 0, left |-> 0]
       ELSE [counter[r] EXCEPT !.left = @ - 1]]
  /\ used' = [r \in Rules |-> IF counter[r].left <= 1 THEN 0 ELSE used[r]]
  /\ UNCHANGED <<thread, checked>>

Step(t) ==
  \/ Check(t) \/ Get(t) \/ Add(t) \/ Incr(t) \/ SetAnew(t)
  \/ Proceed(t) \/ Refuse(t)

Next ==
  \/ \E t \in Threads : (Arrive(t) \/ CacheError(t) \/ Step(t)) /\ UNCHANGED http
  \/ Tick /\ UNCHANGED http

\* Time passes.
Spec == Init /\ [][Next]_vars /\ WF_vars(Tick /\ UNCHANGED http)
-----------------------------------------------------------------------------
\* However the requests of the threads interleave, a rule lets through no more
\* than its limit plus two for every other thread in the lifetime of a
\* counter: one that found no counter when the window was opened and was not
\* counted, and one that read the count before the last place was taken.
WindowBounded == \A r \in Rules : Live(r) => used[r] <= Most(r)

\* The window is fixed, not sliding: it ends however many requests arrive, and
\* a refused client is not refused for ever.
WindowEnds == \A r \in Rules : Live(r) ~> ~Live(r)
=============================================================================
