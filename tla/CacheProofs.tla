---------------------------- MODULE CacheProofs ----------------------------
(***************************************************************************)
(* Theorems about what rail-django keeps in caches: the counters of        *)
(* RateLimiter, for any number of threads, rules and root fields, any      *)
(* limits and any window; and the entries of VersionedCache, for any       *)
(* number of requests and changes, any lifetime and both caches.           *)
(***************************************************************************)
EXTENDS RateLimiter, VersionedCache, TLAPS, FiniteSetTheorems
-----------------------------------------------------------------------------
(* The counters of the rate limiter *)

\* The threads that found no counter of rule r, and those that read it and are
\* about to raise it.
Adding(r) == {t \in Threads : At(t, "add") /\ Rule(t) = r}
Counting(r) == {t \in Threads : At(t, "incr") /\ Rule(t) = r}

\* A thread inside _consume works on an enabled rule, and what it read leaves
\* room for it.
PlaceInv ==
  \A t \in Threads :
    /\ thread[t].pc \in {"get", "add", "incr", "set"} => Rule(t) \in Rules
    /\ thread[t].pc \in {"incr", "set"} => thread[t].seen + 1 <= Limits[Rule(t)]

\* While a counter lives, the threads that read it may raise it one over the
\* limit each, but the first; and only threads that found no counter before it
\* was opened, another one than its opener, pass without raising it.
CountInv ==
  \A r \in Rules : Live(r) =>
    /\ counter[r].count + Cardinality(Counting(r)) <= Limits[r] + (N - 1)
    /\ used[r] + Cardinality(Adding(r)) <= counter[r].count + (N - 1)

IInv == TypeOK /\ PlaceInv /\ CountInv
-----------------------------------------------------------------------------
LEMMA RuleNumbers ==
  /\ Len(Limits) \in Nat /\ Rules = 1 .. Len(Limits)
  /\ \A r \in Rules : r \in Nat /\ Limits[r] \in Nat /\ Limits[r] >= 1
  /\ Limits # << >> => 1 \in Rules
BY LimitsAssumption DEF Rules

\* Sets of threads that differ in one thread.
LEMMA OneMoves ==
  ASSUME NEW S \in SUBSET Threads, NEW T \in SUBSET Threads, NEW t \in Threads,
         T \ {t} = S \ {t}
  PROVE  /\ Cardinality(S) \in Nat /\ Cardinality(T) \in Nat /\ N \in Nat
         /\ Cardinality(T) <= N
         /\ t \notin T => Cardinality(T) <= Cardinality(S) /\ Cardinality(T) <= N - 1
         /\ t \in S /\ t \notin T => Cardinality(T) = Cardinality(S) - 1
         /\ Cardinality(T) <= Cardinality(S) + 1
<1>1. IsFiniteSet(Threads) /\ IsFiniteSet(S) /\ IsFiniteSet(T)
  BY ThreadsAssumption, FS_Subset
<1>2. Cardinality(S) \in Nat /\ Cardinality(T) \in Nat /\ N \in Nat
  BY <1>1, FS_CardinalityType DEF N
<1>3. Cardinality(T) <= N
  BY <1>1, FS_Subset DEF N
<1>4. Cardinality(S \ {t}) = IF t \in S THEN Cardinality(S) - 1 ELSE Cardinality(S)
  BY <1>1, FS_RemoveElement
<1>5. Cardinality(T \ {t}) = IF t \in T THEN Cardinality(T) - 1 ELSE Cardinality(T)
  BY <1>1, FS_RemoveElement
<1>6. t \notin T => Cardinality(T) <= N - 1
  <2>1. SUFFICES ASSUME t \notin T PROVE Cardinality(T) <= N - 1
    OBVIOUS
  <2>2. T \in SUBSET (Threads \ {t})
    BY <2>1
  <2>3. Cardinality(Threads \ {t}) = N - 1 /\ IsFiniteSet(Threads \ {t})
    BY <1>1, FS_RemoveElement DEF N
  <2> QED BY <2>2, <2>3, FS_Subset
<1>7. Cardinality(T \ {t}) = Cardinality(S \ {t})
  OBVIOUS
<1> DEFINE a == Cardinality(S)  b == Cardinality(T)
<1>8. a \in Nat /\ b \in Nat /\ N \in Nat
  BY <1>2
<1>9. (IF t \in S THEN a - 1 ELSE a) = (IF t \in T THEN b - 1 ELSE b)
  BY <1>4, <1>5, <1>7
<1> HIDE DEF a, b
<1>10. /\ t \notin T => b <= a
       /\ t \in S /\ t \notin T => b = a - 1
       /\ b <= a + 1
  BY <1>8, <1>9
<1> QED BY <1>2, <1>3, <1>6, <1>10 DEF a, b

\* A step of one thread moves that thread only.
LEMMA ThreadMoves ==
  ASSUME NEW t \in Threads, \A u \in Threads \ {t} : thread'[u] = thread[u],
         NEW r
  PROVE  /\ Adding(r)' \ {t} = Adding(r) \ {t} /\ Counting(r)' \ {t} = Counting(r) \ {t}
         /\ Adding(r)' \in SUBSET Threads /\ Counting(r)' \in SUBSET Threads
         /\ Adding(r) \in SUBSET Threads /\ Counting(r) \in SUBSET Threads
BY DEF Adding, Counting, At, Rule

\* Steps that leave the counters alone, of a thread that does not come to raise
\* or open one that lives.
LEMMA CountKept ==
  ASSUME IInv, NEW t \in Threads, \A u \in Threads \ {t} : thread'[u] = thread[u],
         UNCHANGED <<counter, used>>,
         \A r \in Rules : Live(r) => t \notin Adding(r)' /\ t \notin Counting(r)'
  PROVE  CountInv'
<1> SUFFICES ASSUME NEW r \in Rules, Live(r)
             PROVE  /\ counter[r].count + Cardinality(Counting(r)') <= Limits[r] + (N - 1)
                    /\ used[r] + Cardinality(Adding(r)') <= counter[r].count + (N - 1)
  BY DEF CountInv, Live
<1>1. t \notin Adding(r)' /\ t \notin Counting(r)'
  OBVIOUS
<1>2. /\ Cardinality(Adding(r)') \in Nat /\ Cardinality(Adding(r)) \in Nat
      /\ Cardinality(Adding(r)') <= Cardinality(Adding(r))
  BY <1>1, ThreadMoves, OneMoves
<1>3. /\ Cardinality(Counting(r)') \in Nat /\ Cardinality(Counting(r)) \in Nat /\ N \in Nat
      /\ Cardinality(Counting(r)') <= Cardinality(Counting(r))
  BY <1>1, ThreadMoves, OneMoves
<1>4. /\ counter[r].count + Cardinality(Counting(r)) <= Limits[r] + (N - 1)
      /\ used[r] + Cardinality(Adding(r)) <= counter[r].count + (N - 1)
  BY DEF IInv, CountInv
<1>5. counter[r].count \in Nat /\ used[r] \in Nat /\ Limits[r] \in Nat
  BY RuleNumbers DEF IInv, TypeOK
<1> HIDE DEF Live
<1> QED BY <1>2, <1>3, <1>4, <1>5

\* A thread that opens a counter passes it.
LEMMA CountOpened ==
  ASSUME IInv, NEW t \in Threads, \A u \in Threads \ {t} : thread'[u] = thread[u],
         NEW s \in Rules, NEW n \in Nat, 1 <= n, n <= Limits[s], Open(s, n),
         \A r \in Rules : t \notin Adding(r)' /\ t \notin Counting(r)'
  PROVE  CountInv'
<1> SUFFICES ASSUME NEW r \in Rules, Live(r)'
             PROVE  /\ counter'[r].count + Cardinality(Counting(r)') <= Limits[r] + (N - 1)
                    /\ used'[r] + Cardinality(Adding(r)') <= counter'[r].count + (N - 1)
  BY DEF CountInv
<1>1. /\ Cardinality(Adding(r)') \in Nat /\ Cardinality(Adding(r)) \in Nat
      /\ Cardinality(Adding(r)') <= Cardinality(Adding(r))
      /\ Cardinality(Adding(r)') <= N - 1
  BY ThreadMoves, OneMoves
<1>2. /\ Cardinality(Counting(r)') \in Nat /\ Cardinality(Counting(r)) \in Nat /\ N \in Nat
      /\ Cardinality(Counting(r)') <= Cardinality(Counting(r))
      /\ Cardinality(Counting(r)') <= N - 1
  BY ThreadMoves, OneMoves
<1>3. counter[r].count \in Nat /\ used[r] \in Nat /\ Limits[r] \in Nat
  BY RuleNumbers DEF IInv, TypeOK
<1>4. CASE r = s
  <2>1. counter'[r].count = n /\ used'[r] = 1
    BY <1>4 DEF Open, IInv, TypeOK
  <2> QED BY <1>1, <1>2, <1>3, <1>4, <2>1
<1>5. CASE r # s
  <2>1. counter'[r] = counter[r] /\ used'[r] = used[r]
    BY <1>5 DEF Open, IInv, TypeOK
  <2>2. /\ counter[r].count + Cardinality(Counting(r)) <= Limits[r] + (N - 1)
        /\ used[r] + Cardinality(Adding(r)) <= counter[r].count + (N - 1)
    BY <2>1 DEF IInv, CountInv, Live
  <2> QED BY <1>1, <1>2, <1>3, <2>1, <2>2
<1> QED BY <1>4, <1>5

\* What a step of thread t does to its own record.
LEMMA ThreadTypes ==
  ASSUME TypeOK, NEW t \in Threads
  PROVE  /\ thread[t] \in [pc : Positions, rule : Nat, layer : Layers, seen : Nat]
         /\ DOMAIN thread = Threads
BY DEF TypeOK

\* A step of thread t that gives it a well typed record.
LEMMA ThreadStep ==
  ASSUME TypeOK, NEW t \in Threads,
         NEW new \in [pc : Positions, rule : Nat, layer : Layers, seen : Nat],
         thread' = [thread EXCEPT ![t] = new]
  PROVE  /\ thread' \in [Threads -> [pc : Positions, rule : Nat, layer : Layers, seen : Nat]]
         /\ \A u \in Threads \ {t} : thread'[u] = thread[u]
         /\ thread'[t] = new
BY DEF TypeOK

\* Pass goes on to the next rule, or lets the request through.
LEMMA PassMoves ==
  ASSUME IInv, NEW t \in Threads, Rule(t) \in Rules, Pass(t)
  PROVE  /\ thread' \in [Threads -> [pc : Positions, rule : Nat, layer : Layers, seen : Nat]]
         /\ \A u \in Threads \ {t} : thread'[u] = thread[u]
         /\ thread'[t].pc \in {"allowed", "get"}
         /\ thread'[t].pc = "get" => thread'[t].rule \in Rules
<1> DEFINE last == Rule(t) = Len(Limits)
           place == IF last THEN "allowed" ELSE "get"
           next == IF last THEN 1 ELSE thread[t].rule + 1
           new == [thread[t] EXCEPT !.pc = place, !.rule = next, !.seen = 0]
<1>1. TypeOK /\ Rule(t) = thread[t].rule
  BY DEF IInv, Rule
<1>2. thread[t] \in [pc : Positions, rule : Nat, layer : Layers, seen : Nat]
  BY <1>1, ThreadTypes
<1>3. thread' = [thread EXCEPT ![t] = new]
  BY <1>1 DEF Pass, TypeOK
<1>4. new \in [pc : Positions, rule : Nat, layer : Layers, seen : Nat]
  <2>1. place \in Positions
    BY DEF Positions
  <2>2. thread[t].rule \in Nat /\ next \in Nat
    BY <1>2
  <2> HIDE DEF place, next
  <2> QED BY <1>2, <2>1, <2>2
<1>5. new.pc = place /\ new.rule = next
  BY <1>2
<1>6. ~last => thread[t].rule + 1 \in Rules
  BY <1>1, RuleNumbers
<1> HIDE DEF new
<1>7. /\ thread' \in [Threads -> [pc : Positions, rule : Nat, layer : Layers, seen : Nat]]
      /\ \A u \in Threads \ {t} : thread'[u] = thread[u]
      /\ thread'[t] = new
  BY <1>1, <1>3, <1>4, ThreadStep
<1> QED BY <1>5, <1>6, <1>7

\* The other threads keep their places.
LEMMA PlaceKept ==
  ASSUME PlaceInv, NEW t \in Threads, \A u \in Threads \ {t} : thread'[u] = thread[u],
         thread'[t].pc \in {"get", "add", "incr", "set"} => thread'[t].rule \in Rules,
         thread'[t].pc \in {"incr", "set"} => thread'[t].seen + 1 <= Limits[thread'[t].rule]
  PROVE  PlaceInv'
BY DEF PlaceInv, Rule, Rules
-----------------------------------------------------------------------------
\* Where thread t is after a step that is not one of _consume's.
LEMMA CheckStep ==
  ASSUME IInv, NEW t \in Threads, Arrive(t) \/ Check(t) \/ Proceed(t) \/ Refuse(t)
  PROVE  /\ thread' \in [Threads -> [pc : Positions, rule : Nat, layer : Layers, seen : Nat]]
         /\ checked' \in [Threads -> BOOLEAN]
         /\ \A u \in Threads \ {t} : thread'[u] = thread[u]
         /\ thread'[t].pc \in {"idle", "check", "allowed", "get"}
         /\ thread'[t].pc = "get" => thread'[t].rule \in Rules
         /\ UNCHANGED <<counter, used>>
<1> DEFINE Thread == [pc : Positions, rule : Nat, layer : Layers, seen : Nat]
<1>1. TypeOK /\ thread[t] \in Thread /\ Fields \in Nat \ {0} /\ DOMAIN thread = Threads
  BY ThreadTypes, ThreadsAssumption DEF IInv
<1>2. Waiting \in Thread /\ Waiting.pc = "idle"
  BY <1>1 DEF Waiting, Positions, Layers
<1>3. \A l \in Layers : LET new == [Waiting EXCEPT !.pc = "check", !.layer = l]
                        IN new \in Thread /\ new.pc = "check"
  BY <1>2 DEF Positions
<1>4. CASE Arrive(t)
  <2> DEFINE l == IF http THEN 0 ELSE 1
             new == [Waiting EXCEPT !.pc = "check", !.layer = l]
  <2>1. l \in Layers
    BY <1>1 DEF Layers
  <2>2. new \in Thread /\ new.pc = "check"
    <3> HIDE DEF l
    <3> QED BY <1>3, <2>1
  <2>3. thread' = [thread EXCEPT ![t] = new]
    BY <1>4 DEF Arrive
  <2> HIDE DEF new
  <2>4. thread'[t] = new /\ thread' \in [Threads -> Thread]
        /\ \A u \in Threads \ {t} : thread'[u] = thread[u]
    BY <1>1, <2>2, <2>3, ThreadStep
  <2> QED BY <1>1, <1>4, <2>2, <2>4 DEF Arrive, TypeOK
<1>5. CASE Check(t)
  <2> DEFINE place == IF checked[t] \/ Limits = << >> THEN "allowed" ELSE "get"
             new == [thread[t] EXCEPT !.pc = place, !.rule = 1]
  <2>1. thread' = [thread EXCEPT ![t] = new]
    BY <1>1, <1>5 DEF Check, TypeOK
  <2>2. new \in Thread /\ new.pc = place /\ new.rule = 1
    <3>1. place \in Positions
      BY DEF Positions
    <3> HIDE DEF place
    <3> QED BY <1>1, <3>1
  <2>3. place = "get" => 1 \in Rules
    BY RuleNumbers
  <2> HIDE DEF new
  <2>4. thread'[t] = new /\ thread' \in [Threads -> Thread]
        /\ \A u \in Threads \ {t} : thread'[u] = thread[u]
    BY <1>1, <2>1, <2>2, ThreadStep
  <2> QED BY <1>1, <1>5, <2>2, <2>3, <2>4 DEF Check, TypeOK
<1>6. CASE Proceed(t) \/ Refuse(t)
  <2>1. \/ Over(t)
        \/ Onward(t) /\ ~Last(t) /\ UNCHANGED checked
    BY <1>6 DEF Proceed, Refuse
  <2>2. UNCHANGED <<counter, used>>
    BY <1>6 DEF Proceed, Refuse
  <2>3. CASE Over(t)
    <3>1. thread' = [thread EXCEPT ![t] = Waiting]
      BY <2>3 DEF Over
    <3>2. thread'[t] = Waiting /\ thread' \in [Threads -> Thread]
          /\ \A u \in Threads \ {t} : thread'[u] = thread[u]
      BY <1>1, <1>2, <3>1, ThreadStep
    <3> QED BY <1>1, <1>2, <2>2, <2>3, <3>2 DEF Over, TypeOK
  <2>4. CASE Onward(t) /\ ~Last(t) /\ UNCHANGED checked
    <3> DEFINE l == thread[t].layer + 1
               new == [Waiting EXCEPT !.pc = "check", !.layer = l]
    <3>1. l \in Layers
      BY <1>1, <2>4 DEF Layers, Last
    <3>2. new \in Thread /\ new.pc = "check"
      <4> HIDE DEF l
      <4> QED BY <1>3, <3>1
    <3>3. thread' = [thread EXCEPT ![t] = new]
      BY <2>4 DEF Onward
    <3> HIDE DEF new
    <3>4. thread'[t] = new /\ thread' \in [Threads -> Thread]
          /\ \A u \in Threads \ {t} : thread'[u] = thread[u]
      BY <1>1, <3>2, <3>3, ThreadStep
    <3> QED BY <1>1, <2>2, <2>4, <3>2, <3>4 DEF TypeOK
  <2> QED BY <2>1, <2>3, <2>4
<1> QED BY <1>4, <1>5, <1>6

\* A thread that goes to another place of _consume with nothing else changed.
LEMMA GotoMoves ==
  ASSUME TypeOK, NEW t \in Threads, NEW p \in Positions, Goto(t, p)
  PROVE  /\ thread' \in [Threads -> [pc : Positions, rule : Nat, layer : Layers, seen : Nat]]
         /\ \A u \in Threads \ {t} : thread'[u] = thread[u]
         /\ thread'[t].pc = p /\ thread'[t].rule = thread[t].rule
         /\ thread'[t].seen = thread[t].seen
BY DEF Goto, TypeOK

\* The counters keep their type.
LEMMA OpenTypes ==
  ASSUME TypeOK, NEW s \in Rules, NEW n \in Nat, Open(s, n)
  PROVE  /\ counter' \in [Rules -> [count : Nat, left : 0 .. Window]]
         /\ used' \in [Rules -> Nat]
BY WindowAssumption DEF Open, TypeOK

\* A thread elsewhere is not among those that come to open or raise a counter.
LEMMA NotCounting ==
  ASSUME NEW t \in Threads, thread'[t].pc \notin {"add", "incr"}
  PROVE  \A r : t \notin Adding(r)' /\ t \notin Counting(r)'
BY DEF Adding, Counting, At

\* A request that is let through is counted, unless it found no counter before
\* the one it now meets was opened.
LEMMA CountUsed ==
  ASSUME IInv, NEW t \in Threads, \A u \in Threads \ {t} : thread'[u] = thread[u],
         \A r \in Rules : t \notin Adding(r)' /\ t \notin Counting(r)',
         NEW s \in Rules, used' = [used EXCEPT ![s] = @ + 1],
         \/ t \in Adding(s) /\ UNCHANGED counter
         \/ t \in Counting(s) /\ counter' = [counter EXCEPT ![s].count = @ + 1]
  PROVE  CountInv'
<1> SUFFICES ASSUME NEW r \in Rules, Live(r)'
             PROVE  /\ counter'[r].count + Cardinality(Counting(r)') <= Limits[r] + (N - 1)
                    /\ used'[r] + Cardinality(Adding(r)') <= counter'[r].count + (N - 1)
  BY DEF CountInv
<1>1. /\ Cardinality(Adding(r)') \in Nat /\ Cardinality(Adding(r)) \in Nat
      /\ Cardinality(Adding(r)') <= Cardinality(Adding(r))
      /\ t \in Adding(r) => Cardinality(Adding(r)') = Cardinality(Adding(r)) - 1
  BY ThreadMoves, OneMoves
<1>2. /\ Cardinality(Counting(r)') \in Nat /\ Cardinality(Counting(r)) \in Nat /\ N \in Nat
      /\ Cardinality(Counting(r)') <= Cardinality(Counting(r))
      /\ t \in Counting(r) => Cardinality(Counting(r)') = Cardinality(Counting(r)) - 1
  BY ThreadMoves, OneMoves
<1>3. /\ counter \in [Rules -> [count : Nat, left : 0 .. Window]] /\ used \in [Rules -> Nat]
      /\ Limits[r] \in Nat /\ counter[r].count \in Nat /\ used[r] \in Nat
  BY RuleNumbers DEF IInv, TypeOK
<1>4. counter'[r].left = counter[r].left
  BY <1>3
<1>5. /\ counter[r].count + Cardinality(Counting(r)) <= Limits[r] + (N - 1)
      /\ used[r] + Cardinality(Adding(r)) <= counter[r].count + (N - 1)
  BY <1>4 DEF IInv, CountInv, Live
<1>6. CASE r # s
  <2>1. counter'[r].count = counter[r].count /\ used'[r] = used[r]
    BY <1>3, <1>6
  <2> QED BY <1>1, <1>2, <1>3, <1>5, <2>1
<1>7. CASE r = s /\ t \in Adding(s) /\ UNCHANGED counter
  <2>1. used'[r] = used[r] + 1 /\ counter'[r].count = counter[r].count
    BY <1>3, <1>7
  <2> QED BY <1>1, <1>2, <1>3, <1>5, <1>7, <2>1
<1>8. CASE r = s /\ t \in Counting(s) /\ counter' = [counter EXCEPT ![s].count = @ + 1]
  <2>1. used'[r] = used[r] + 1 /\ counter'[r].count = counter[r].count + 1
    BY <1>3, <1>8
  <2> QED BY <1>1, <1>2, <1>3, <1>5, <1>8, <2>1
<1> QED BY <1>6, <1>7, <1>8

\* Steps of _consume.
LEMMA ConsumeStep ==
  ASSUME IInv, NEW t \in Threads,
         Get(t) \/ Add(t) \/ Incr(t) \/ SetAnew(t) \/ CacheError(t), UNCHANGED http
  PROVE  IInv'
<1> DEFINE r == Rule(t)
           Thread == [pc : Positions, rule : Nat, layer : Layers, seen : Nat]
<1>0. /\ TypeOK /\ PlaceInv /\ CountInv /\ r \in Rules /\ r = thread[t].rule
      /\ thread[t] \in Thread /\ N \in Nat
  <2>1. thread[t].pc \in {"get", "add", "incr", "set"}
    BY DEF Get, Add, Incr, SetAnew, CacheError, At
  <2>2. N \in Nat
    BY OneMoves
  <2> QED BY <2>1, <2>2, ThreadTypes DEF IInv, PlaceInv, Rule
<1>1. UNCHANGED checked
  BY DEF Get, Add, Incr, SetAnew, CacheError
<1>2. ASSUME Pass(t)
      PROVE  /\ thread' \in [Threads -> Thread] /\ PlaceInv'
             /\ \A u \in Threads \ {t} : thread'[u] = thread[u]
             /\ \A q \in Rules : t \notin Adding(q)' /\ t \notin Counting(q)'
  <2>1. /\ thread' \in [Threads -> Thread]
        /\ \A u \in Threads \ {t} : thread'[u] = thread[u]
        /\ thread'[t].pc \in {"allowed", "get"}
        /\ thread'[t].pc = "get" => thread'[t].rule \in Rules
    BY <1>0, <1>2, PassMoves
  <2>2. thread'[t].pc \notin {"add", "incr", "set"}
    BY <2>1
  <2> QED BY <1>0, <2>1, <2>2, PlaceKept, NotCounting
<1>3. ASSUME NEW p \in {"add", "refused", "set"}, Goto(t, p), UNCHANGED <<counter, used>>,
             p = "add" => ~Live(r), p = "set" => thread[t].pc = "incr"
      PROVE  IInv'
  <2>1. p \in Positions
    BY DEF Positions
  <2>2. /\ thread' \in [Threads -> Thread]
        /\ \A u \in Threads \ {t} : thread'[u] = thread[u]
        /\ thread'[t].pc = p /\ thread'[t].rule = r /\ thread'[t].seen = thread[t].seen
    BY <1>0, <1>3, <2>1, GotoMoves
  <2>3. TypeOK'
    BY <1>0, <1>1, <1>3, <2>2 DEF TypeOK
  <2>4. p = "set" => thread[t].seen + 1 <= Limits[r]
    BY <1>0, <1>3 DEF PlaceInv, Rule
  <2>5. PlaceInv'
    BY <1>0, <2>2, <2>4, PlaceKept
  <2>6. \A q \in Rules : Live(q) => t \notin Adding(q)' /\ t \notin Counting(q)'
    BY <1>3, <2>2 DEF Adding, Counting, At, Rule
  <2>7. CountInv'
    BY <1>3, <2>2, <2>6, CountKept
  <2> QED BY <2>3, <2>5, <2>7 DEF IInv
<1>4. ASSUME NEW n \in Nat, 1 <= n, n <= Limits[r], Open(r, n), Pass(t) PROVE IInv'
  <2>1. counter' \in [Rules -> [count : Nat, left : 0 .. Window]] /\ used' \in [Rules -> Nat]
    BY <1>0, <1>4, OpenTypes
  <2>2. TypeOK'
    BY <1>0, <1>1, <1>2, <1>4, <2>1 DEF TypeOK
  <2>3. CountInv'
    BY <1>0, <1>2, <1>4, CountOpened
  <2> QED BY <1>2, <1>4, <2>2, <2>3 DEF IInv
<1>5. ASSUME Pass(t), used' = [used EXCEPT ![r] = @ + 1],
             \/ t \in Adding(r) /\ UNCHANGED counter
             \/ t \in Counting(r) /\ counter' = [counter EXCEPT ![r].count = @ + 1]
      PROVE  IInv'
  <2>1. used' \in [Rules -> Nat]
    BY <1>0, <1>5 DEF TypeOK
  <2>2. counter' \in [Rules -> [count : Nat, left : 0 .. Window]]
    BY <1>0, <1>5 DEF TypeOK
  <2>3. TypeOK'
    BY <1>0, <1>1, <1>2, <1>5, <2>1, <2>2 DEF TypeOK
  <2>4. CountInv'
    BY <1>0, <1>2, <1>5, CountUsed
  <2> QED BY <1>2, <1>5, <2>3, <2>4 DEF IInv
<1>6. CASE Get(t)
  <2>1. CASE ~Live(r) /\ Goto(t, "add")
    BY <1>3, <1>6, <2>1 DEF Get
  <2>2. CASE Goto(t, "refused")
    BY <1>3, <1>6, <2>2 DEF Get
  <2>3. CASE /\ Live(r) /\ counter[r].count + 1 <= Limits[r]
             /\ thread' = [thread EXCEPT ![t].pc = "incr", ![t].seen = counter[r].count]
    <3>1. UNCHANGED <<counter, used>>
      BY <1>6 DEF Get
    <3>2. counter[r].count \in Nat /\ used[r] \in Nat /\ "incr" \in Positions
      BY <1>0 DEF TypeOK, Positions
    <3>3. /\ thread' \in [Threads -> Thread]
          /\ \A u \in Threads \ {t} : thread'[u] = thread[u]
          /\ thread'[t].pc = "incr" /\ thread'[t].rule = r
          /\ thread'[t].seen = counter[r].count
      BY <1>0, <2>3, <3>2 DEF TypeOK
    <3>4. TypeOK'
      BY <1>0, <1>1, <3>1, <3>3 DEF TypeOK
    <3>5. PlaceInv'
      BY <1>0, <2>3, <3>3, PlaceKept
    <3>6. ASSUME NEW q \in Rules, Live(q)
          PROVE  /\ counter[q].count + Cardinality(Counting(q)') <= Limits[q] + (N - 1)
                 /\ used[q] + Cardinality(Adding(q)') <= counter[q].count + (N - 1)
      <4>1. t \notin Adding(q)' /\ (q # r => t \notin Counting(q)')
        BY <3>3 DEF Adding, Counting, At, Rule
      <4>2. /\ Cardinality(Adding(q)') \in Nat /\ Cardinality(Adding(q)) \in Nat
            /\ Cardinality(Adding(q)') <= Cardinality(Adding(q))
        BY <3>3, <4>1, ThreadMoves, OneMoves
      <4>3. /\ Cardinality(Counting(q)') \in Nat /\ Cardinality(Counting(q)) \in Nat
            /\ q # r => Cardinality(Counting(q)') <= Cardinality(Counting(q))
            /\ Cardinality(Counting(q)') <= N
        BY <3>3, <4>1, ThreadMoves, OneMoves
      <4>4. /\ counter[q].count + Cardinality(Counting(q)) <= Limits[q] + (N - 1)
            /\ used[q] + Cardinality(Adding(q)) <= counter[q].count + (N - 1)
        BY <1>0, <3>6 DEF CountInv
      <4>5. counter[q].count \in Nat /\ used[q] \in Nat /\ Limits[q] \in Nat
        BY <1>0, RuleNumbers DEF TypeOK
      <4> QED BY <1>0, <2>3, <4>2, <4>3, <4>4, <4>5
    <3>7. CountInv'
      BY <3>1, <3>6 DEF CountInv, Live
    <3> QED BY <3>4, <3>5, <3>7 DEF IInv
  <2> QED BY <1>6, <2>1, <2>2, <2>3 DEF Get
<1>7. CASE Add(t)
  <2>1. CASE Live(r)
    <3>1. t \in Adding(r)
      BY <1>7 DEF Add, Adding
    <3> QED BY <1>5, <1>7, <2>1, <3>1 DEF Add
  <2>2. CASE ~Live(r)
    <3>1. 1 <= Limits[r]
      BY <1>0, RuleNumbers
    <3> QED BY <1>4, <1>7, <2>2, <3>1 DEF Add
  <2> QED BY <2>1, <2>2
<1>8. CASE Incr(t)
  <2>1. CASE Live(r)
    <3>1. t \in Counting(r)
      BY <1>8 DEF Incr, Counting
    <3> QED BY <1>5, <1>8, <2>1, <3>1 DEF Incr
  <2>2. CASE ~Live(r)
    BY <1>3, <1>8, <2>2 DEF Incr, At
  <2> QED BY <2>1, <2>2
<1>9. CASE SetAnew(t)
  <2>1. thread[t].seen + 1 <= Limits[r] /\ thread[t].seen + 1 \in Nat /\ 1 <= thread[t].seen + 1
    BY <1>0, <1>9 DEF SetAnew, At, PlaceInv, Rule
  <2>2. Open(r, thread[t].seen + 1) /\ Pass(t)
    BY <1>9 DEF SetAnew
  <2> QED BY <1>4, <2>1, <2>2
<1>10. CASE CacheError(t)
  <2>1. CASE Pass(t)
    <3>1. UNCHANGED <<counter, used>>
      BY <1>10 DEF CacheError
    <3>2. TypeOK'
      BY <1>0, <1>1, <1>2, <2>1, <3>1 DEF TypeOK
    <3>3. CountInv'
      BY <1>2, <2>1, <3>1, CountKept
    <3> QED BY <1>2, <2>1, <3>2, <3>3 DEF IInv
  <2>2. CASE At(t, "incr") /\ Goto(t, "set")
    BY <1>3, <1>10, <2>2 DEF CacheError, At
  <2>3. CASE Goto(t, "refused")
    BY <1>3, <1>10, <2>3 DEF CacheError
  <2> QED BY <1>10, <2>1, <2>2, <2>3 DEF CacheError
<1> QED BY <1>6, <1>7, <1>8, <1>9, <1>10

\* Time passes: counters that end take their history with them.
LEMMA TickStep == ASSUME IInv, Tick, UNCHANGED http PROVE IInv'
<1>1. TypeOK'
  BY WindowAssumption DEF IInv, TypeOK, Tick
<1>2. PlaceInv'
  BY DEF IInv, PlaceInv, Tick, Rule
<1>3. CountInv'
  <2> SUFFICES ASSUME NEW r \in Rules, Live(r)'
               PROVE  /\ counter'[r].count + Cardinality(Counting(r)') <= Limits[r] + (N - 1)
                      /\ used'[r] + Cardinality(Adding(r)') <= counter'[r].count + (N - 1)
    BY DEF CountInv
  <2>1. counter \in [Rules -> [count : Nat, left : 0 .. Window]]
    BY DEF IInv, TypeOK
  <2>2. counter'[r].count = counter[r].count /\ used'[r] = used[r] /\ Live(r)
    BY <2>1, WindowAssumption DEF Tick, Live
  <2>3. Counting(r)' = Counting(r) /\ Adding(r)' = Adding(r)
    BY DEF Tick, Counting, Adding, At, Rule
  <2> QED BY <2>2, <2>3 DEF IInv, CountInv
<1> QED BY <1>1, <1>2, <1>3 DEF IInv

LEMMA LimiterInit == Init => IInv
<1> SUFFICES ASSUME Init PROVE IInv
  OBVIOUS
<1>1. Waiting \in [pc : Positions, rule : Nat, layer : Layers, seen : Nat]
  BY ThreadsAssumption DEF Waiting, Positions, Layers
<1>2. TypeOK
  BY <1>1, WindowAssumption DEF Init, TypeOK
<1>3. PlaceInv
  BY DEF Init, PlaceInv, Waiting
<1>4. CountInv
  BY DEF Init, CountInv, Live
<1> QED BY <1>2, <1>3, <1>4 DEF IInv

LEMMA LimiterStep == IInv /\ [Next]_vars => IInv'
<1> SUFFICES ASSUME IInv, [Next]_vars PROVE IInv'
  OBVIOUS
<1>1. ASSUME NEW t \in Threads, UNCHANGED http,
             Arrive(t) \/ Check(t) \/ Proceed(t) \/ Refuse(t)
      PROVE  IInv'
  <2>1. /\ thread' \in [Threads -> [pc : Positions, rule : Nat, layer : Layers, seen : Nat]]
        /\ checked' \in [Threads -> BOOLEAN]
        /\ \A u \in Threads \ {t} : thread'[u] = thread[u]
        /\ thread'[t].pc \in {"idle", "check", "allowed", "get"}
        /\ thread'[t].pc = "get" => thread'[t].rule \in Rules
        /\ UNCHANGED <<counter, used>>
    BY <1>1, CheckStep
  <2>2. TypeOK'
    BY <1>1, <2>1 DEF IInv, TypeOK
  <2>3. PlaceInv'
    BY <2>1, PlaceKept DEF IInv
  <2>4. CountInv'
    BY <2>1, NotCounting, CountKept
  <2> QED BY <2>2, <2>3, <2>4 DEF IInv
<1>2. ASSUME NEW t \in Threads, UNCHANGED http,
             Get(t) \/ Add(t) \/ Incr(t) \/ SetAnew(t) \/ CacheError(t)
      PROVE  IInv'
  BY <1>2, ConsumeStep
<1>3. CASE Tick /\ UNCHANGED http
  BY <1>3, TickStep
<1>4. CASE UNCHANGED vars
  BY <1>4 DEF vars, IInv, TypeOK, PlaceInv, CountInv, Live, Counting, Adding, At, Rule
<1> QED BY <1>1, <1>2, <1>3, <1>4 DEF Next, Step

\* The inductive invariant of the rate limiter.
THEOREM LimiterInvariant == Spec => []IInv
BY LimiterInit, LimiterStep, PTL DEF Spec

\* Every variable keeps its type, for any threads, rules, fields and window.
THEOREM TypeCorrect == Spec => []TypeOK
<1>1. IInv => TypeOK
  BY DEF IInv
<1> QED BY <1>1, LimiterInvariant, PTL

\* However many threads check at once, and wherever the cache fails or a
\* counter expires between its accesses, a rule lets through no more than its
\* limit plus two for every other thread in the lifetime of a counter.
THEOREM WindowIsBounded == Spec => []WindowBounded
<1>1. IInv => WindowBounded
  <2> SUFFICES ASSUME IInv, NEW r \in Rules, Live(r) PROVE used[r] <= Most(r)
    BY DEF WindowBounded
  <2>1. /\ Cardinality(Counting(r)) \in Nat /\ Cardinality(Adding(r)) \in Nat /\ N \in Nat
    <3>1. IsFiniteSet(Threads) /\ Counting(r) \in SUBSET Threads /\ Adding(r) \in SUBSET Threads
      BY ThreadsAssumption DEF Counting, Adding
    <3> QED BY <3>1, FS_Subset, FS_CardinalityType DEF N
  <2>2. /\ counter[r].count + Cardinality(Counting(r)) <= Limits[r] + (N - 1)
        /\ used[r] + Cardinality(Adding(r)) <= counter[r].count + (N - 1)
    BY DEF IInv, CountInv
  <2>3. counter[r].count \in Nat /\ used[r] \in Nat /\ Limits[r] \in Nat
    BY RuleNumbers DEF IInv, TypeOK
  <2> QED BY <2>1, <2>2, <2>3 DEF Most
<1> QED BY <1>1, LimiterInvariant, PTL
-----------------------------------------------------------------------------
(* The caches with a version in their keys *)

Request == [pc : Places, checks : Nat, floor : Value, memo : Value \cup {Unknown},
            key : Version, answer : Value, why : Causes]
CacheEntry == [value : Value, left : Lifetime, why : Causes]

\* A request that uses a key it read, one that has computed an answer, and an
\* entry that nothing excuses.
Reading(x) == x.pc \in {"look", "evaluate", "stamp", "store"}
Holding(x) == x.pc \in {"stamp", "store"}
Trusted(e) == e.left > 0 /\ e.why = "none"

Bumping == {"bump", "get", "set"}

\* What is counted, and what is known of the numbers given out: the data never
\* outruns the changes begun, the versions the invalidations made; nothing is
\* stored or looked for under a number that was not given out.
BookInv ==
  /\ told <= data /\ data <= change.tries
  /\ change.pc # "idle" /\ change.atomic => data < change.tries
  /\ change.pc = "commit" => change.atomic
  /\ change.pc \in Bumping <=> change.bumps > 0
  /\ change.bumps > 0 => change.tries > 0
  /\ change.seen <= newest
  /\ newest <= MaxBumps * change.tries + 1 - change.bumps
  /\ version.left > 0 => version.number <= newest
  /\ kind = "query" /\ version.left = 0 => newest = 0
  /\ \A v \in Version : v > newest => entry[v].left = 0
  /\ \A c \in Clients : /\ client[c].floor <= told
                        /\ Reading(client[c]) => client[c].key <= newest
                        /\ client[c].pc = "stamp" => kind = "query"

\* What is stored, or is about to be stored, under the current version knows of
\* every change announced; and in a transaction that has invalidated there is no
\* such thing.
CurrentInv ==
  version.left > 0 =>
    /\ Trusted(entry[version.number]) =>
         entry[version.number].value >= told /\ change.pc # "commit"
    /\ \A c \in Clients :
         Holding(client[c]) /\ client[c].key = version.number /\ client[c].why = "none"
           => client[c].answer >= told /\ change.pc # "commit"

\* So is what is under the key of a request, for the changes announced before it
\* began.
ReaderInv ==
  \A c \in Clients : Reading(client[c]) =>
    /\ Trusted(entry[client[c].key]) => entry[client[c].key].value >= client[c].floor
    /\ \A d \in Clients :
         Holding(client[d]) /\ client[d].key = client[c].key /\ client[d].why = "none"
           => client[d].answer >= client[c].floor

CacheInv == CacheTypeOK /\ BookInv /\ CurrentInv /\ ReaderInv /\ StaleHasCause
-----------------------------------------------------------------------------
LEMMA CacheNumbers ==
  /\ Ttl \in Nat \ {0} /\ MaxChanges \in Nat /\ MaxBumps \in Nat \ {0}
  /\ MaxBumps * MaxChanges \in Nat /\ MaxVersion = MaxBumps * MaxChanges + 1
  /\ Value = 0 .. MaxChanges /\ Version = 1 .. MaxVersion /\ Lifetime = 0 .. Ttl
  /\ MaxVersion \in Nat /\ 1 \in Version /\ Ttl \in Lifetime /\ 0 \in Lifetime
  /\ 0 \in Value
<1>1. /\ Ttl \in Nat \ {0} /\ MaxChanges \in Nat /\ MaxBumps \in Nat \ {0}
  BY BoundsAssumption
<1>2. MaxBumps * MaxChanges \in Nat
  BY <1>1
<1> QED
  BY <1>1, <1>2 DEF MaxVersion, Value, Version, Lifetime

\* The invalidations of the changes begun, in the bound on all of them.
LEMMA Products ==
  ASSUME CacheTypeOK
  PROVE  /\ MaxBumps * change.tries \in Nat
         /\ MaxBumps * change.tries <= MaxBumps * MaxChanges
         /\ MaxBumps * (change.tries + 1) = MaxBumps * change.tries + MaxBumps
         /\ change.tries > 0 => MaxBumps <= MaxBumps * change.tries
<1>1. /\ MaxChanges \in Nat /\ MaxBumps \in Nat /\ change.tries \in Nat
      /\ change.tries <= MaxChanges
  BY CacheNumbers DEF CacheTypeOK, Progress
<1>2. \A a, b, n \in Nat : a <= b => n * a <= n * b
  OBVIOUS
<1>3. \A n \in Nat : n * 1 = n /\ \A a \in Nat : n * a \in Nat /\ n * (a + 1) = n * a + n
  OBVIOUS
<1>4. change.tries > 0 => 1 <= change.tries
  BY <1>1
<1> QED
  BY <1>1, <1>2, <1>3, <1>4

LEMMA CacheTypes ==
  ASSUME CacheTypeOK
  PROVE  /\ kind \in {"permission", "query"}
         /\ Version \subseteq Nat /\ (\A v \in Version : v > 0) /\ Value \subseteq Nat
         /\ newest \in Nat /\ newest \in Version \cup {0}
         /\ version.number \in Version /\ version.left \in Lifetime /\ version.left \in Nat
         /\ data \in Nat /\ told \in Nat /\ data \in Value /\ told \in Value
         /\ change.tries \in Nat /\ change.tries <= MaxChanges
         /\ change.bumps \in Nat /\ change.bumps <= MaxBumps /\ change.atomic \in BOOLEAN
         /\ change.pc \in Steps /\ change.seen \in Nat /\ change.seen \in Version \cup {0}
<1>1. /\ kind \in Kinds /\ newest \in Version \cup {0} /\ data \in Value /\ told \in Value
      /\ version.number \in Version /\ version.left \in Lifetime
      /\ change.tries \in Value /\ change.bumps \in 0 .. MaxBumps
      /\ change.atomic \in BOOLEAN /\ change.pc \in Steps
      /\ change.seen \in Version \cup {0}
  BY DEF CacheTypeOK, Progress
<1>2. kind \in {"permission", "query"}
  BY <1>1, KindsAssumption
<1>3. Version \subseteq Nat /\ (\A v \in Version : v > 0) /\ Value \subseteq Nat
  BY CacheNumbers
<1> QED
  BY <1>1, <1>2, <1>3, CacheNumbers

LEMMA RequestTypes ==
  ASSUME CacheTypeOK, NEW c \in Clients
  PROVE  /\ client[c] \in Request
         /\ client[c].pc \in Places /\ client[c].checks \in Nat
         /\ client[c].floor \in Value /\ client[c].memo \in Value \cup {Unknown}
         /\ client[c].key \in Version /\ client[c].answer \in Value
         /\ client[c].why \in Causes
BY DEF CacheTypeOK, Request

LEMMA IdleTypes == Idle \in Request /\ NoEntry \in CacheEntry
BY CacheNumbers DEF Idle, NoEntry, Request, CacheEntry, Places, Causes

LEMMA CacheStarts == ASSUME CacheInit PROVE CacheInv
<1>1. CacheTypeOK
  <2>1. client \in [Clients -> Request] /\ entry \in [Version -> CacheEntry]
    BY IdleTypes DEF CacheInit
  <2>2. change \in Progress
    BY CacheNumbers DEF CacheInit, Progress, Steps
  <2>3. version \in [number : Version, left : Lifetime]
    BY CacheNumbers DEF CacheInit
  <2> QED
    BY <2>1, <2>2, <2>3, CacheNumbers DEF CacheInit, CacheTypeOK, Request, CacheEntry
<1>2. /\ \A c \in Clients : client[c].pc = "idle" /\ client[c].floor = 0
      /\ \A v \in Version : entry[v].left = 0
      /\ version.left = 0
  BY DEF CacheInit, Idle, NoEntry
<1>3. \A c \in Clients : ~Reading(client[c]) /\ ~Holding(client[c]) /\ client[c].pc # "answer"
  BY <1>2 DEF Reading, Holding
<1>4. BookInv
  <2>1. MaxBumps * 0 = 0
    BY CacheNumbers
  <2> QED
    BY <1>2, <1>3, <2>1 DEF CacheInit, BookInv, Bumping
<1>5. CurrentInv /\ ReaderInv /\ StaleHasCause
  BY <1>2, <1>3 DEF CurrentInv, ReaderInv, StaleHasCause
<1> QED
  BY <1>1, <1>4, <1>5 DEF CacheInv
-----------------------------------------------------------------------------
(* A number is given out *)

\* What is stored under the numbers from this one on is excused from then on.
LEMMA GivenEntries ==
  ASSUME CacheTypeOK, BookInv, NEW number \in Version, number <= newest + 1,
         NEW left \in Lifetime, left > 0,
         Give(number, left), entry' = Entries(number)
  PROVE  /\ version' \in [number : Version, left : Lifetime]
         /\ version'.number = number /\ version'.left = left
         /\ newest' \in Version /\ newest <= newest' /\ number <= newest'
         /\ newest' = newest \/ newest' = newest + 1
         /\ newest = 0 => newest' = 1
         /\ number <= newest => newest' = newest
         /\ entry' \in [Version -> CacheEntry]
         /\ \A v \in Version : entry'[v].left > 0 =>
              /\ entry[v].left > 0 /\ entry'[v].value = entry[v].value
              /\ entry'[v].why = "none" => entry[v].why = "none" /\ v < number
         /\ \A v \in Version : v > newest' => entry'[v].left = 0
<1>1. newest \in Nat /\ number \in Nat /\ number > 0 /\ Version \subseteq Nat
  BY CacheTypes
<1>2. /\ version' = [number |-> number, left |-> left]
      /\ newest' = IF number > newest THEN number ELSE newest
  BY DEF Give
<1>3. /\ version' \in [number : Version, left : Lifetime]
      /\ version'.number = number /\ version'.left = left
  BY <1>2
<1>4. /\ newest' \in Version /\ newest <= newest' /\ number <= newest'
      /\ newest' = newest \/ newest' = newest + 1
      /\ newest = 0 => newest' = 1
      /\ number <= newest => newest' = newest
  BY <1>1, <1>2 DEF CacheTypeOK
<1>5. ASSUME NEW v \in Version
      PROVE  /\ entry'[v] \in CacheEntry
             /\ entry'[v].left > 0 =>
                  /\ entry[v].left > 0 /\ entry'[v].value = entry[v].value
                  /\ entry'[v].why = "none" => entry[v].why = "none" /\ v < number
             /\ entry[v].left = 0 => entry'[v].left = 0
  <2>1. entry[v] \in CacheEntry
    BY DEF CacheTypeOK, CacheEntry
  <2>2. CASE entry[v].left = 0
    <3>1. entry'[v] = NoEntry
      BY <2>2 DEF Entries
    <3> QED
      BY <3>1, IdleTypes DEF NoEntry
  <2>3. CASE entry[v].left # 0
    <3> DEFINE why == Outlived(entry[v].why, v, number)
    <3>1. entry'[v] = [entry[v] EXCEPT !.why = why]
      BY <2>3 DEF Entries
    <3>2. why \in Causes /\ (why = "none" => entry[v].why = "none" /\ v < number)
      <4>0. ~(v > newest)
        BY <2>3 DEF BookInv
      <4>1. v <= newest /\ v \in Nat
        BY <1>1, <4>0
      <4> QED
        BY <1>1, <2>1, <4>1 DEF Outlived, Again, CacheEntry, Causes
    <3> HIDE DEF why
    <3>3. /\ entry'[v] \in CacheEntry /\ entry'[v].why = why
          /\ entry'[v].left = entry[v].left /\ entry'[v].value = entry[v].value
      BY <2>1, <3>1, <3>2 DEF CacheEntry
    <3>4. entry[v].left > 0
      BY <2>1, <2>3, CacheNumbers DEF CacheEntry
    <3> QED
      BY <2>3, <3>2, <3>3, <3>4
  <2> QED
    BY <2>2, <2>3
<1>6. entry' \in [Version -> CacheEntry]
  <2>1. \A v \in Version : entry'[v] \in CacheEntry
    BY <1>5
  <2>2. entry' = [v \in Version |-> entry'[v]]
    BY DEF Entries
  <2> QED
    BY <2>1, <2>2
<1>7. \A v \in Version : v > newest' => entry'[v].left = 0
  <2> SUFFICES ASSUME NEW v \in Version, v > newest' PROVE entry'[v].left = 0
    OBVIOUS
  <2>1. v > newest
    BY <1>1, <1>4
  <2> QED
    BY <1>5, <2>1 DEF BookInv
<1> QED
  BY <1>3, <1>4, <1>5, <1>6, <1>7

\* Two requests that differ in nothing but the excuse.
AsBefore(x, y) ==
  /\ x.pc = y.pc /\ x.checks = y.checks /\ x.floor = y.floor /\ x.memo = y.memo
  /\ x.key = y.key /\ x.answer = y.answer

\* What is about to be stored under them is excused as well.
LEMMA GivenRequests ==
  ASSUME CacheTypeOK, BookInv, NEW number \in Version, number <= newest + 1
  PROVE  /\ InFlight(number) \in [Clients -> Request]
         /\ \A c \in Clients :
              /\ AsBefore(InFlight(number)[c], client[c])
              /\ InFlight(number)[c].why = "none" =>
                   client[c].why = "none" /\ (Reading(client[c]) => client[c].key < number)
              /\ client[c].pc = "answer" => InFlight(number)[c] = client[c]
<1>1. newest \in Nat /\ number \in Nat /\ Version \subseteq Nat
  BY CacheTypes
<1>2. ASSUME NEW c \in Clients
      PROVE  /\ InFlight(number)[c] \in Request
             /\ AsBefore(InFlight(number)[c], client[c])
             /\ InFlight(number)[c].why = "none" =>
                  client[c].why = "none" /\ (Reading(client[c]) => client[c].key < number)
             /\ client[c].pc = "answer" => InFlight(number)[c] = client[c]
  <2> DEFINE why == Outlived(client[c].why, client[c].key, number)  new == InFlight(number)[c]
  <2>1. client[c] \in Request /\ client[c].key \in Nat
    BY <1>1, RequestTypes
  <2>2. CASE Reading(client[c])
    <3>1. new = [client[c] EXCEPT !.why = why]
      BY <2>2 DEF InFlight, Reading
    <3>2. why \in Causes /\ (why = "none" => client[c].why = "none" /\ client[c].key < number)
      <4>1. client[c].key <= newest
        BY <2>2 DEF BookInv
      <4> QED
        BY <1>1, <2>1, <4>1 DEF Outlived, Again, Request, Causes
    <3> HIDE DEF why, new
    <3>3. new \in Request /\ AsBefore(new, client[c]) /\ new.why = why
      BY <2>1, <3>1, <3>2 DEF Request, AsBefore
    <3>4. client[c].pc # "answer"
      BY <2>2 DEF Reading
    <3> QED
      BY <3>2, <3>3, <3>4 DEF new
  <2>3. CASE ~Reading(client[c])
    <3>1. new = client[c]
      BY <2>3 DEF InFlight, Reading
    <3> QED
      BY <2>1, <2>3, <3>1 DEF AsBefore
  <2> QED
    BY <2>2, <2>3
<1>3. InFlight(number) = [c \in Clients |-> InFlight(number)[c]]
  BY DEF InFlight
<1> HIDE DEF InFlight
<1> QED
  BY <1>2, <1>3
-----------------------------------------------------------------------------
(* The kinds of steps *)

\* An invalidation gives a number out, and excuses what it has to.
LEMMA BumpGives ==
  ASSUME CacheTypeOK, BookInv,
         \/ /\ change.pc = "bump" /\ Bump
            /\ kind = "query" \/ version.left > 0
         \/ change.pc = "set" /\ Renew(change.seen + 1, Ttl)
  PROVE  \E number \in Version, left \in Lifetime :
           /\ left > 0 /\ number <= newest + 1
           /\ Give(number, left) /\ entry' = Entries(number) /\ client' = InFlight(number)
<1>1. /\ newest \in Nat /\ newest + 1 <= MaxVersion /\ MaxVersion \in Nat
      /\ version.number \in Nat /\ version.left \in Lifetime /\ version.number > 0
      /\ kind \in {"permission", "query"} /\ change.seen \in Nat
  <2>1. change.bumps > 0 /\ change.bumps \in Nat /\ newest \in Nat
    BY CacheTypes DEF BookInv, Bumping
  <2>2. newest <= MaxBumps * change.tries
    BY <2>1, Products DEF BookInv
  <2> DEFINE m == MaxBumps * change.tries  M == MaxBumps * MaxChanges
  <2>3. m \in Nat /\ M \in Nat /\ m <= M /\ MaxVersion = M + 1 /\ newest <= m
    BY <2>2, Products, CacheNumbers
  <2> HIDE DEF m, M
  <2>4. newest + 1 <= MaxVersion /\ MaxVersion \in Nat
    BY <2>1, <2>3
  <2> QED
    BY <2>1, <2>4, CacheTypes
<1>2. Ttl \in Lifetime /\ Ttl > 0
  BY CacheNumbers
<1>3. \A n \in Nat : n <= newest => n + 1 \in Version /\ n + 1 <= newest + 1
  BY <1>1, CacheNumbers
<1>4. change.seen <= newest /\ (version.left > 0 => version.number <= newest)
  BY DEF BookInv
<1>5. \E n \in Nat, left \in Lifetime :
        left > 0 /\ n <= newest /\ Renew(n + 1, left)
  <2>1. newest <= newest
    BY <1>1
  <2> QED
    BY <1>1, <1>2, <1>4, <2>1 DEF Bump
<1> HIDE DEF Renew
<1>6. PICK n \in Nat, left \in Lifetime : left > 0 /\ n <= newest /\ Renew(n + 1, left)
  BY <1>5
<1> QED
  BY <1>3, <1>6 DEF Renew

\* A request that found no version writes the first one: over none, over itself,
\* or over a later one.
LEMMA FirstGives ==
  ASSUME CacheTypeOK, BookInv, NEW c \in Clients, SetFirst(c)
  PROVE  LET new == [client[c] EXCEPT !.pc = "look", !.key = 1, !.why = "none"]
         IN /\ 1 \in Version /\ 1 <= newest + 1 /\ (newest = 0 \/ 1 <= newest)
            /\ UNCHANGED Shared /\ client[c].pc = "first"
            /\ \/ /\ version.left > 0 /\ version.number = 1
                  /\ version' = [version EXCEPT !.left = Ttl]
                  /\ client' = [client EXCEPT ![c] = new] /\ UNCHANGED <<newest, entry>>
               \/ /\ Give(1, Ttl) /\ entry' = Entries(1)
                  /\ client' = [InFlight(1) EXCEPT ![c] = new]
BY CacheTypes, CacheNumbers DEF SetFirst, Update

\* So does reading the query cache's version if it is missing, which is the first
\* one then.
LEMMA ReadGives ==
  ASSUME CacheTypeOK, BookInv, NEW c \in Clients, Key(c)
  PROVE  /\ Current \in Version /\ UNCHANGED Shared /\ client[c].pc = "key"
         /\ \/ /\ version.left > 0 /\ Current = version.number
               /\ client' = [client EXCEPT ![c] = Keyed(c)]
               /\ UNCHANGED <<version, newest, entry>>
            \/ /\ version.left = 0 /\ Current <= newest + 1 /\ newest = 0
               /\ Give(Current, Ttl) /\ entry' = Entries(Current)
               /\ client' = [InFlight(Current) EXCEPT ![c] = Keyed(c)]
<1>1. /\ version.left \in Nat /\ kind \in {"permission", "query"} /\ newest \in Nat
      /\ version.number \in Version
  BY CacheTypes
<1>2. CASE version.left > 0
  BY <1>1, <1>2 DEF Key, Update, Current
<1>3. CASE version.left = 0
  <2>1. First = 1 /\ Current = First /\ newest = 0 /\ ~(version.left > 0)
    BY <1>1, <1>3 DEF Key, First, BookInv, Current
  <2> QED
    BY <1>1, <1>3, <2>1, CacheNumbers DEF Key
<1> QED
  BY <1>1, <1>2, <1>3
-----------------------------------------------------------------------------
(* Types and books *)

\* A request goes on, and nothing else changes.
LEMMA UpdateTypes ==
  ASSUME CacheTypeOK, BookInv, NEW c \in Clients, NEW new \in Request,
         Update(c, new), UNCHANGED <<version, newest, entry>>, UNCHANGED Shared,
         new.floor <= told, Reading(new) => new.key <= newest,
         new.pc = "stamp" => kind = "query"
  PROVE  CacheTypeOK' /\ BookInv'
<1>1. /\ client \in [Clients -> Request]
      /\ client' = [client EXCEPT ![c] = new]
      /\ UNCHANGED <<kind, data, change, told, version, newest, entry>>
  BY DEF Update, CacheTypeOK, Request, Shared
<1>2. client' \in [Clients -> Request] /\ client'[c] = new
      /\ \A d \in Clients : d # c => client'[d] = client[d]
  BY <1>1
<1>3. CacheTypeOK'
  BY <1>1, <1>2 DEF CacheTypeOK, Request
<1>4. \A d \in Clients : /\ client'[d].floor <= told
                         /\ Reading(client'[d]) => client'[d].key <= newest
                         /\ client'[d].pc = "stamp" => kind = "query"
  <2> SUFFICES ASSUME NEW d \in Clients
               PROVE  /\ client'[d].floor <= told
                      /\ Reading(client'[d]) => client'[d].key <= newest
                      /\ client'[d].pc = "stamp" => kind = "query"
    OBVIOUS
  <2>1. CASE d = c
    BY <1>2, <2>1
  <2>2. CASE d # c
    BY <1>2, <2>2 DEF BookInv
  <2> QED
    BY <2>1, <2>2
<1> QED
  BY <1>1, <1>3, <1>4 DEF BookInv, Reading

\* A number is given out, to a request that goes on or to none.
LEMMA RenewTypes ==
  ASSUME CacheTypeOK, BookInv, UNCHANGED kind,
         NEW number \in Version, number <= newest + 1, NEW left \in Lifetime, left > 0,
         Give(number, left), entry' = Entries(number),
         client' \in [Clients -> Request],
         \A c \in Clients : AsBefore(client'[c], client[c])
            \/ (/\ client'[c].floor <= told /\ client'[c].key <= number
                /\ client'[c].pc = "stamp" => kind = "query"),
         change' \in Progress,
         UNCHANGED data, told' \in {told, data}, change'.tries = change.tries,
         change'.atomic = change.atomic,
         change'.pc # "idle" /\ change'.atomic => data < change.tries,
         change'.pc = "commit" => change'.atomic,
         change'.pc \in Bumping <=> change'.bumps > 0, change'.seen <= newest,
         change'.bumps <= change.bumps,
         number <= newest \/ newest = 0 \/ change'.bumps < change.bumps
  PROVE  CacheTypeOK' /\ BookInv'
<1>1. /\ version' \in [number : Version, left : Lifetime]
      /\ version'.number = number /\ version'.left = left
      /\ newest' \in Version /\ newest <= newest' /\ number <= newest'
      /\ newest' = newest \/ newest' = newest + 1
      /\ newest = 0 => newest' = 1
      /\ number <= newest => newest' = newest
      /\ entry' \in [Version -> CacheEntry]
      /\ \A v \in Version : v > newest' => entry'[v].left = 0
  BY GivenEntries
<1>2. CacheTypeOK'
  <2>1. told' \in Value
    BY CacheTypes
  <2> QED
    BY <1>1, <2>1 DEF CacheTypeOK, Request, CacheEntry
<1>3. newest' <= MaxBumps * change'.tries + 1 - change'.bumps
  <2> DEFINE m == MaxBumps * change.tries
  <2>1. /\ m \in Nat /\ newest \in Nat /\ newest' \in Nat
        /\ change.bumps \in Nat /\ change'.bumps \in Nat
        /\ newest <= m + 1 - change.bumps
        /\ change.bumps > 0 => change.bumps <= m
    <3>1. change.bumps > 0 => change.tries > 0
      BY DEF BookInv
    <3>2. change'.bumps \in Nat /\ newest' \in Nat
      <4>1. change'.bumps \in 0 .. MaxBumps
        BY DEF Progress
      <4> QED
        BY <1>1, <4>1, CacheTypes, CacheNumbers
    <3>3. newest <= m + 1 - change.bumps
      BY DEF BookInv
    <3>4. /\ m \in Nat /\ (change.tries > 0 => MaxBumps <= m)
          /\ newest \in Nat /\ change.bumps \in Nat /\ change.bumps <= MaxBumps
          /\ MaxBumps \in Nat
      BY Products, CacheTypes, CacheNumbers
    <3> HIDE DEF m
    <3> QED
      BY <3>1, <3>2, <3>3, <3>4
  <2>2. MaxBumps * change'.tries = m
    OBVIOUS
  <2> HIDE DEF m
  <2>3. newest' <= m + 1 - change'.bumps
    <3>1. CASE newest = 0
      BY <1>1, <2>1, <3>1
    <3>2. CASE change'.bumps < change.bumps
      BY <1>1, <2>1, <3>2
    <3>3. CASE number <= newest
      BY <1>1, <2>1, <3>3
    <3> QED
      BY <3>1, <3>2, <3>3
  <2> QED
    BY <2>2, <2>3
<1>4. told <= told' /\ told' <= data
  BY CacheTypes DEF BookInv
<1>5. \A c \in Clients : /\ client'[c].floor <= told'
                         /\ Reading(client'[c]) => client'[c].key <= newest'
                         /\ client'[c].pc = "stamp" => kind = "query"
  <2> SUFFICES ASSUME NEW c \in Clients
               PROVE  /\ client'[c].floor <= told'
                      /\ Reading(client'[c]) => client'[c].key <= newest'
                      /\ client'[c].pc = "stamp" => kind = "query"
    OBVIOUS
  <2>1. /\ client'[c].floor \in Nat /\ client'[c].key \in Nat /\ told \in Nat /\ told' \in Nat
        /\ number \in Nat /\ newest \in Nat /\ newest' \in Nat
    <3>1. client'[c] \in Request
      OBVIOUS
    <3>2. client'[c].floor \in Value /\ client'[c].key \in Version
      BY <3>1 DEF Request
    <3>3. client'[c].floor \in Nat /\ client'[c].key \in Nat
      BY <3>2, CacheTypes
    <3>4. told \in Nat /\ told' \in Nat /\ newest \in Nat /\ newest' \in Nat /\ number \in Nat
      BY <1>1, CacheTypes
    <3> QED
      BY <3>3, <3>4
  <2>2. CASE AsBefore(client'[c], client[c])
    <3>1. /\ client'[c].floor <= told /\ (Reading(client'[c]) => client'[c].key <= newest)
          /\ client'[c].pc = "stamp" => kind = "query"
      BY <2>2 DEF BookInv, AsBefore, Reading
    <3> QED
      BY <1>1, <1>4, <2>1, <3>1
  <2>3. CASE /\ client'[c].floor <= told /\ client'[c].key <= number
             /\ client'[c].pc = "stamp" => kind = "query"
    BY <1>1, <1>4, <2>1, <2>3
  <2> QED
    BY <2>2, <2>3
<1>6. told' <= data' /\ data' <= change'.tries
  BY <1>4 DEF BookInv
<1>7. version'.left > 0 /\ version'.number <= newest' /\ ~(version'.left = 0)
  BY <1>1
<1>8. change'.bumps > 0 => change'.tries > 0
  <2>1. change'.bumps \in Nat /\ change.bumps \in Nat
    <3>1. change'.bumps \in 0 .. MaxBumps
      BY DEF Progress
    <3> QED
      BY <3>1, CacheTypes, CacheNumbers
  <2>2. change'.bumps > 0 => change.bumps > 0
    BY <2>1
  <2> QED
    BY <2>2 DEF BookInv
<1>9. BookInv'
  <2>1. change'.pc # "idle" /\ change'.atomic => data' < change'.tries
    OBVIOUS
  <2>2. change'.seen <= newest'
    <3>1. change'.seen \in Version \cup {0} /\ newest \in Nat /\ newest' \in Nat
      BY <1>1, CacheTypes DEF Progress
    <3>2. change'.seen \in Nat
      BY <3>1, CacheTypes
    <3> QED
      BY <1>1, <3>1, <3>2
  <2> QED
    BY <1>1, <1>3, <1>5, <1>6, <1>7, <1>8, <2>1, <2>2 DEF BookInv
<1> QED
  BY <1>2, <1>9
-----------------------------------------------------------------------------
\* The data changes, in a transaction or not.
LEMMA ChangeTypes ==
  ASSUME CacheTypeOK, BookInv,
         \/ \E atomic \in BOOLEAN, bumps \in 1 .. MaxBumps : Change(atomic, bumps)
         \/ Commit \/ Rollback
  PROVE  CacheTypeOK' /\ BookInv'
<1>1. UNCHANGED <<kind, version, newest, entry, client>>
  BY DEF Change, Commit, Rollback
<1> DEFINE Changes == Progress
<1>2. ASSUME change' \in Changes, data' \in Value, told' \in Value PROVE CacheTypeOK'
  BY <1>1, <1>2 DEF CacheTypeOK
<1>3. /\ change \in Changes /\ data \in Nat /\ told \in Nat /\ MaxBumps \in Nat
      /\ change.tries \in Nat /\ change.bumps \in Nat /\ newest \in Nat
      /\ MaxChanges \in Nat /\ Value = 0 .. MaxChanges /\ change.tries <= MaxChanges
  BY CacheTypes, CacheNumbers DEF CacheTypeOK
<1>4. ASSUME NEW atomic \in BOOLEAN, NEW bumps \in 1 .. MaxBumps, Change(atomic, bumps)
      PROVE  CacheTypeOK' /\ BookInv'
  <2>1. /\ change.pc = "idle" /\ change.tries < MaxChanges /\ UNCHANGED told
        /\ change' = [pc |-> "bump", atomic |-> atomic, bumps |-> bumps,
                      tries |-> change.tries + 1, seen |-> 0]
        /\ data' = (IF atomic THEN data ELSE data + 1)
    BY <1>4 DEF Change
  <2>2. change.tries + 1 \in Value /\ bumps \in 0 .. MaxBumps /\ bumps \in Nat /\ bumps > 0
    BY <1>3, <2>1
  <2>3. /\ change' \in Changes /\ change'.pc = "bump" /\ change'.atomic = atomic
        /\ change'.bumps = bumps /\ change'.tries = change.tries + 1 /\ change'.seen = 0
    BY <2>1, <2>2 DEF Progress, Steps
  <2>4. change.bumps = 0 /\ told <= data /\ data <= change.tries
    BY <1>3, <2>1 DEF BookInv, Bumping
  <2>5. told <= data' /\ data' <= change'.tries /\ (atomic => data' < change'.tries)
        /\ data' \in Value
    BY <1>3, <2>1, <2>3, <2>4
  <2>6. newest <= MaxBumps * change'.tries + 1 - change'.bumps
    <3> DEFINE m == MaxBumps * change.tries
    <3>1. m \in Nat /\ MaxBumps * (change.tries + 1) = m + MaxBumps /\ newest <= m + 1
      BY <1>3, <2>4, Products DEF BookInv
    <3> HIDE DEF m
    <3>2. newest <= m + MaxBumps + 1 - bumps
      BY <1>3, <2>2, <3>1
    <3> QED
      BY <2>3, <3>1, <3>2
  <2>7. CacheTypeOK'
    BY <1>2, <1>3, <2>1, <2>3, <2>5 DEF CacheTypeOK
  <2>8. change'.bumps > 0 /\ change'.tries > 0
    BY <1>3, <2>2, <2>3
  <2> HIDE DEF Changes
  <2>9. BookInv'
    <3>1. change'.pc \in Bumping /\ change'.seen <= newest
      BY <1>3, <2>3 DEF Bumping
    <3> QED
      BY <1>1, <2>1, <2>3, <2>5, <2>6, <2>8, <3>1 DEF BookInv
  <2> QED
    BY <2>7, <2>9
<1>5. CASE Commit \/ Rollback
  <2>1. /\ change.pc = "commit" /\ change' = [change EXCEPT !.pc = "idle", !.atomic = FALSE]
        /\ \/ data' = data + 1 /\ told' = data + 1
           \/ UNCHANGED <<data, told>>
    BY <1>5 DEF Commit, Rollback
  <2>2. /\ change' \in Changes /\ change'.pc = "idle" /\ change'.atomic = FALSE
        /\ change'.bumps = change.bumps /\ change'.tries = change.tries
        /\ change'.seen = change.seen
    BY <1>3, <2>1 DEF Progress, Steps
  <2>3. /\ data < change.tries /\ told <= data /\ ~(change.bumps > 0)
        /\ change'.pc \notin Bumping
    BY <2>1, <2>2 DEF BookInv, Bumping
  <2>4. /\ data' \in Value /\ told' \in Value /\ told' <= data'
        /\ data' <= change.tries /\ told <= told'
    BY <1>3, <2>1, <2>3
  <2>5. CacheTypeOK'
    BY <1>2, <2>2, <2>4
  <2>6. \A c \in Clients : client'[c].floor <= told'
    <3> SUFFICES ASSUME NEW c \in Clients PROVE client'[c].floor <= told'
      OBVIOUS
    <3>1. client[c].floor \in Nat /\ client[c].floor <= told /\ told' \in Nat
      <4>1. client[c].floor \in Value /\ client[c].floor <= told
        BY RequestTypes DEF BookInv
      <4> QED
        BY <2>4, <4>1, CacheTypes
    <3> QED
      BY <1>1, <1>3, <2>4, <3>1
  <2> HIDE DEF Changes
  <2>7. BookInv'
    BY <1>1, <2>2, <2>3, <2>4, <2>6 DEF BookInv
  <2> QED
    BY <2>5, <2>7
<1> QED
  BY <1>4, <1>5

\* What an invalidation that is over leaves of the change.
LEMMA ChangeAfter ==
  ASSUME CacheTypeOK, BookInv, change.pc \in Bumping, Invalidated
  PROVE  /\ change' \in Progress /\ UNCHANGED <<kind, data>> /\ told' \in {told, data}
         /\ change'.tries = change.tries /\ change'.atomic = change.atomic
         /\ change'.pc \in Bumping <=> change'.bumps > 0
         /\ change'.pc = "commit" => change'.atomic
         /\ change'.pc # "idle" /\ change'.atomic => data < change.tries
         /\ change'.bumps < change.bumps /\ change'.bumps <= change.bumps
         /\ change'.seen <= newest
<1> DEFINE pc == IF change.bumps > 1 THEN "bump"
                 ELSE IF change.atomic THEN "commit" ELSE "idle"
           bumps == change.bumps - 1
<1>1. /\ UNCHANGED <<kind, data>> /\ told' \in {told, data}
      /\ change' = [change EXCEPT !.bumps = bumps, !.seen = 0, !.pc = pc]
  BY DEF Invalidated
<1>2. /\ change.bumps \in Nat /\ change.bumps > 0 /\ bumps \in 0 .. MaxBumps
      /\ bumps < change.bumps /\ bumps <= change.bumps
      /\ change \in Progress /\ newest \in Nat
      /\ change.atomic => data < change.tries
  <2>1. change.bumps > 0 /\ (change.atomic => data < change.tries)
    BY DEF BookInv, Bumping
  <2>2. change.bumps \in Nat /\ change.bumps <= MaxBumps /\ MaxBumps \in Nat
    BY CacheTypes, CacheNumbers
  <2> QED
    BY <2>1, <2>2, CacheTypes DEF CacheTypeOK
<1>3. /\ pc \in Steps /\ (pc \in Bumping <=> bumps > 0)
      /\ pc = "commit" => change.atomic
  BY <1>2 DEF Steps, Bumping
<1> HIDE DEF pc, bumps
<1>4. /\ change' \in Progress /\ change'.bumps = bumps /\ change'.pc = pc
      /\ change'.seen = 0 /\ change'.tries = change.tries /\ change'.atomic = change.atomic
  BY <1>1, <1>2, <1>3 DEF Progress
<1> QED
  BY <1>1, <1>2, <1>3, <1>4

LEMMA InvalidateTypes ==
  ASSUME CacheTypeOK, BookInv, Invalidate \/ SetNext PROVE CacheTypeOK' /\ BookInv'
<1>1. change.pc \in Bumping /\ Invalidated
  BY DEF Invalidate, SetNext, Bumping
<1>2. PICK number \in Version, left \in Lifetime :
        /\ left > 0 /\ number <= newest + 1
        /\ Give(number, left) /\ entry' = Entries(number) /\ client' = InFlight(number)
  BY BumpGives DEF Invalidate, SetNext
<1>3. /\ client' \in [Clients -> Request]
      /\ \A c \in Clients : AsBefore(client'[c], client[c])
  BY <1>2, GivenRequests
<1> QED
  BY <1>1, <1>2, <1>3, ChangeAfter, RenewTypes

\* What the except clause of an invalidation does before it sets the version.
LEMMA FallbackTypes ==
  ASSUME CacheTypeOK, BookInv, IncrFails \/ GetVersion
  PROVE  /\ CacheTypeOK' /\ BookInv' /\ UNCHANGED <<told, version, entry, client>>
         /\ change'.pc # "commit"
<1> DEFINE pc == IF change.pc = "bump" THEN "get" ELSE "set"
<1>1. /\ UNCHANGED <<kind, data, told, version, newest, entry, client>>
      /\ change.pc \in {"bump", "get"}
  BY DEF IncrFails, GetVersion
<1>2. PICK seen \in Version \cup {0} :
        change' = [change EXCEPT !.pc = pc, !.seen = seen] /\ seen <= newest
  <2>1. CASE IncrFails
    <3>1. change' = [change EXCEPT !.pc = pc, !.seen = change.seen]
      BY <2>1 DEF IncrFails, CacheTypeOK, Progress
    <3> QED
      BY <3>1, CacheTypes DEF BookInv
  <2>2. CASE GetVersion
    <3> DEFINE seen == IF version.left > 0 THEN version.number ELSE 0
    <3>1. change' = [change EXCEPT !.pc = pc, !.seen = seen]
      BY <2>2 DEF GetVersion
    <3>2. seen \in Version \cup {0} /\ seen <= newest
      BY CacheTypes DEF BookInv
    <3> HIDE DEF seen
    <3> QED
      BY <3>1, <3>2
  <2> QED
    BY <2>1, <2>2
<1>3. pc \in Steps /\ pc \in Bumping /\ pc # "commit" /\ pc # "idle"
  BY DEF Steps, Bumping
<1> HIDE DEF pc
<1>4. /\ change \in Progress /\ change' \in Progress /\ change'.pc = pc
      /\ change'.seen = seen /\ change'.bumps = change.bumps
      /\ change'.tries = change.tries /\ change'.atomic = change.atomic
  BY <1>2, <1>3 DEF CacheTypeOK, Progress
<1>5. CacheTypeOK'
  BY <1>1, <1>4 DEF CacheTypeOK
<1>6. change.bumps > 0 /\ change.pc # "idle"
  BY <1>1 DEF BookInv, Bumping
<1>7. BookInv'
  BY <1>1, <1>2, <1>3, <1>4, <1>6 DEF BookInv
<1> QED
  BY <1>1, <1>3, <1>4, <1>5, <1>7

\* A number that is given to a request that reads or writes the version.
LEMMA GivenTypes ==
  ASSUME CacheTypeOK, BookInv, NEW c \in Clients, NEW new \in Request,
         NEW number \in Version, number <= newest + 1, newest = 0 \/ number <= newest,
         Give(number, Ttl), entry' = Entries(number),
         client' = [InFlight(number) EXCEPT ![c] = new], UNCHANGED Shared,
         new.floor <= told, new.key = number, new.pc # "stamp"
  PROVE  CacheTypeOK' /\ BookInv'
<1>1. UNCHANGED <<kind, data, change, told>>
  BY DEF Shared
<1>2. /\ InFlight(number) \in [Clients -> Request]
      /\ \A d \in Clients : AsBefore(InFlight(number)[d], client[d])
  BY GivenRequests
<1>3. /\ client' \in [Clients -> Request]
      /\ \A d \in Clients : AsBefore(client'[d], client[d])
            \/ (/\ client'[d].floor <= told /\ client'[d].key <= number
                /\ client'[d].pc # "stamp")
  <2>1. client'[c] = new /\ \A d \in Clients : d # c => client'[d] = InFlight(number)[d]
    BY <1>2
  <2>2. number <= number
    BY CacheTypes
  <2>3. client' \in [Clients -> Request]
    BY <1>2
  <2> QED
    BY <1>2, <2>1, <2>2, <2>3
<1>4. /\ change' \in Progress
      /\ change'.pc # "idle" /\ change'.atomic => data < change.tries
      /\ change'.pc = "commit" => change'.atomic
      /\ change'.pc \in Bumping <=> change'.bumps > 0
      /\ change'.bumps <= change.bumps /\ change'.seen <= newest
      /\ change'.tries = change.tries /\ change'.atomic = change.atomic
  BY <1>1, CacheTypes DEF CacheTypeOK, BookInv
<1>5. Ttl \in Lifetime /\ Ttl > 0
  BY CacheNumbers
<1> QED
  BY <1>1, <1>3, <1>4, <1>5, RenewTypes

\* A request reads a version, which may have to be created.
LEMMA KeyTypes ==
  ASSUME CacheTypeOK, BookInv, NEW c \in Clients, Key(c) PROVE CacheTypeOK' /\ BookInv'
<1>1. Current \in Version /\ UNCHANGED Shared
  BY ReadGives
<1>2. /\ Keyed(c) \in Request /\ Keyed(c).pc = "look" /\ Keyed(c).key = Current
      /\ Keyed(c).floor = client[c].floor /\ client[c].floor <= told
  BY <1>1, RequestTypes DEF Keyed, Request, Places, Causes, BookInv
<1> HIDE DEF Keyed
<1>3. CASE /\ version.left > 0 /\ Current = version.number
           /\ client' = [client EXCEPT ![c] = Keyed(c)]
           /\ UNCHANGED <<version, newest, entry>>
  <2>1. Keyed(c).key <= newest
    BY <1>2, <1>3 DEF BookInv
  <2> QED
    BY <1>1, <1>2, <1>3, <2>1, UpdateTypes DEF Update
<1>4. CASE /\ version.left = 0 /\ Current <= newest + 1 /\ newest = 0
           /\ Give(Current, Ttl) /\ entry' = Entries(Current)
           /\ client' = [InFlight(Current) EXCEPT ![c] = Keyed(c)]
  BY <1>1, <1>2, <1>4, GivenTypes
<1> QED
  BY <1>3, <1>4, ReadGives

\* A request writes the first version.
LEMMA FirstTypes ==
  ASSUME CacheTypeOK, BookInv, NEW c \in Clients, SetFirst(c)
  PROVE  CacheTypeOK' /\ BookInv'
<1> DEFINE new == [client[c] EXCEPT !.pc = "look", !.key = 1, !.why = "none"]
<1>1. /\ 1 \in Version /\ 1 <= newest + 1 /\ (newest = 0 \/ 1 <= newest)
      /\ UNCHANGED Shared
  BY FirstGives
<1>2. /\ \/ /\ version.left > 0 /\ version.number = 1
            /\ version' = [version EXCEPT !.left = Ttl]
            /\ client' = [client EXCEPT ![c] = new] /\ UNCHANGED <<newest, entry>>
         \/ /\ Give(1, Ttl) /\ entry' = Entries(1)
            /\ client' = [InFlight(1) EXCEPT ![c] = new]
  BY FirstGives
<1>3. /\ new \in Request /\ new.pc = "look" /\ new.key = 1
      /\ new.floor = client[c].floor /\ client[c].floor <= told
  BY <1>1, RequestTypes DEF Request, Places, Causes, BookInv
<1> HIDE DEF new
<1>4. CASE Give(1, Ttl) /\ entry' = Entries(1) /\ client' = [InFlight(1) EXCEPT ![c] = new]
  BY <1>1, <1>3, <1>4, GivenTypes
<1>5. CASE /\ version.left > 0 /\ version.number = 1
           /\ version' = [version EXCEPT !.left = Ttl]
           /\ client' = [client EXCEPT ![c] = new] /\ UNCHANGED <<newest, entry>>
  <2>1. UNCHANGED <<kind, data, change, told, newest, entry>> /\ 1 <= newest
    BY <1>1, <1>5 DEF Shared, BookInv
  <2>2. /\ client' \in [Clients -> Request] /\ client'[c] = new
        /\ \A d \in Clients : d # c => client'[d] = client[d]
    BY <1>3, <1>5 DEF CacheTypeOK, Request
  <2>3. /\ version' \in [number : Version, left : Lifetime]
        /\ version'.number = version.number /\ version'.left = Ttl
    BY <1>5, CacheNumbers DEF CacheTypeOK
  <2>4. CacheTypeOK'
    BY <2>1, <2>2, <2>3 DEF CacheTypeOK, Request
  <2>5. \A d \in Clients : /\ client'[d].floor <= told
                           /\ Reading(client'[d]) => client'[d].key <= newest
                           /\ client'[d].pc = "stamp" => kind = "query"
    BY <1>3, <2>1, <2>2 DEF BookInv
  <2>6. version'.number <= newest /\ version'.left > 0 /\ ~(version'.left = 0)
    BY <1>5, <2>1, <2>3, CacheNumbers
  <2> QED
    BY <2>1, <2>4, <2>5, <2>6 DEF BookInv
<1> QED
  BY <1>2, <1>4, <1>5
-----------------------------------------------------------------------------
\* What evaluating finds: the data, or what the user object remembers, and then
\* an excuse for it if there has to be one.
LEMMA EvaluateMoves ==
  ASSUME CacheTypeOK, NEW c \in Clients, Evaluate(c)
  PROVE  \E new \in Request :
           /\ client' = [client EXCEPT ![c] = new]
           /\ client[c].pc = "evaluate" /\ new.pc \in {"stamp", "store"}
           /\ new.pc = "stamp" => kind = "query"
           /\ new.floor = client[c].floor /\ new.key = client[c].key
           /\ new.why = "none" => new.answer >= data /\ change.pc # "commit"
<1> DEFINE answer == IF Remembers(c) THEN client[c].memo ELSE data
           why == IF client[c].why # "none" THEN client[c].why
                  ELSE IF Remembers(c) /\ answer < data THEN "memo"
                  ELSE IF change.pc = "commit" THEN "uncommitted" ELSE "none"
           pc == IF kind = "query" THEN "stamp" ELSE "store"
           memo == IF kind = "query" THEN client[c].memo ELSE answer
           new == [client[c] EXCEPT !.pc = pc, !.answer = answer, !.why = why, !.memo = memo]
<1>1. client' = [client EXCEPT ![c] = new] /\ client[c].pc = "evaluate"
  BY DEF Evaluate, Update
<1>2. answer \in Value /\ answer \in Nat /\ data \in Nat
  BY RequestTypes, CacheTypes DEF Remembers
<1>3. why = "none" => answer >= data /\ change.pc # "commit"
  BY <1>2 DEF Remembers
<1>4. why \in Causes /\ pc \in Places /\ memo \in Value \cup {Unknown} /\ 0 \in Nat
  BY <1>2, RequestTypes DEF Causes, Places
<1>5. pc \in {"stamp", "store"} /\ (pc = "stamp" => kind = "query")
  OBVIOUS
<1> HIDE DEF answer, why, pc, memo
<1>6. /\ new \in Request /\ new.pc = pc /\ new.answer = answer /\ new.why = why
      /\ new.floor = client[c].floor /\ new.key = client[c].key
  <2>1. client[c] \in Request
    BY RequestTypes
  <2> QED
    BY <1>2, <1>4, <2>1 DEF Request
<1> HIDE DEF new
<1> QED
  BY <1>1, <1>3, <1>5, <1>6

\* The steps of a request that find no version or need none: what it becomes.
LEMMA AskMoves ==
  ASSUME CacheTypeOK, BookInv, NEW c \in Clients,
         Begin(c) \/ KeyMissing(c) \/ Look(c) \/ Answer(c)
  PROVE  \E new \in Request :
           /\ client' = [client EXCEPT ![c] = new]
           /\ UNCHANGED <<version, newest, entry>> /\ UNCHANGED Shared
           /\ new.floor <= told /\ ~Holding(new)
           /\ Reading(new) => /\ client[c].pc = "look" /\ new.key = client[c].key
                              /\ new.floor = client[c].floor
           /\ new.pc = "answer" =>
                /\ client[c].pc = "look" /\ new.floor = client[c].floor
                /\ Found(c).left > 0 /\ new.answer = Found(c).value /\ new.why = Found(c).why
<1>1. /\ client[c].floor \in Value /\ client[c].floor <= told /\ told \in Value
      /\ client[c].memo \in Value \cup {Unknown} /\ client[c].checks \in Nat
      /\ 0 <= told
  BY RequestTypes, CacheTypes DEF BookInv
<1>2. /\ Idle \in Request /\ "key" \in Places /\ "answer" \in Places /\ "first" \in Places
      /\ "evaluate" \in Places /\ client[c] \in Request
  BY IdleTypes, RequestTypes DEF Places
<1>3. CASE Begin(c)
  <2> DEFINE new == [Idle EXCEPT !.pc = "key", !.checks = Checks[c], !.floor = told]
  <2>1. /\ client' = [client EXCEPT ![c] = new]
        /\ UNCHANGED <<version, newest, entry>> /\ UNCHANGED Shared
    BY <1>3 DEF Begin, Update
  <2>2. Checks[c] \in Nat
    BY BoundsAssumption
  <2>3. new \in Request /\ new.pc = "key" /\ new.floor = told
    BY <1>1, <2>2, <1>2 DEF Request
  <2> HIDE DEF new
  <2>4. told <= told
    BY CacheTypes
  <2> QED
    BY <2>1, <2>3, <2>4 DEF Holding, Reading
<1>4. CASE Look(c)
  <2> DEFINE new == [client[c] EXCEPT !.pc = "answer", !.answer = Found(c).value,
                                      !.why = Found(c).why]
             moved == [client[c] EXCEPT !.pc = "evaluate"]
  <2>1. /\ client[c].pc = "look" /\ UNCHANGED <<version, newest, entry>> /\ UNCHANGED Shared
        /\ \/ Found(c).left > 0 /\ client' = [client EXCEPT ![c] = new]
           \/ client' = [client EXCEPT ![c] = moved]
    BY <1>4 DEF Look, Update
  <2>2. Found(c).value \in Value /\ Found(c).why \in Causes
    BY RequestTypes DEF CacheTypeOK, Found
  <2>3. /\ new \in Request /\ new.pc = "answer" /\ new.answer = Found(c).value
        /\ new.why = Found(c).why /\ new.floor = client[c].floor
    BY <1>2, <2>2 DEF Request
  <2>4. /\ moved \in Request /\ moved.pc = "evaluate" /\ moved.floor = client[c].floor
        /\ moved.key = client[c].key
    BY <1>2 DEF Request
  <2> HIDE DEF new, moved
  <2>5. CASE client' = [client EXCEPT ![c] = moved]
    BY <1>1, <2>1, <2>4, <2>5 DEF Holding, Reading
  <2>6. CASE Found(c).left > 0 /\ client' = [client EXCEPT ![c] = new]
    BY <1>1, <2>1, <2>3, <2>6 DEF Holding, Reading
  <2> QED
    BY <2>1, <2>5, <2>6
<1>5. CASE Answer(c)
  <2> DEFINE more == [Idle EXCEPT !.pc = "key", !.checks = client[c].checks - 1,
                       !.floor = client[c].floor, !.memo = client[c].memo]
  <2>1. /\ UNCHANGED <<version, newest, entry>> /\ UNCHANGED Shared
        /\ \/ client[c].checks > 1 /\ client' = [client EXCEPT ![c] = more]
           \/ client' = [client EXCEPT ![c] = Idle]
    BY <1>5 DEF Answer, Update
  <2>2. CASE client[c].checks > 1 /\ client' = [client EXCEPT ![c] = more]
    <3>1. client[c].checks - 1 \in Nat
      BY <1>1, <2>2
    <3>2. more \in Request /\ more.pc = "key" /\ more.floor = client[c].floor
      BY <1>1, <1>2, <3>1 DEF Request
    <3> HIDE DEF more
    <3> QED
      BY <1>1, <2>1, <2>2, <3>2 DEF Holding, Reading
  <2>3. CASE client' = [client EXCEPT ![c] = Idle]
    <3>1. Idle \in Request /\ Idle.pc = "idle" /\ Idle.floor = 0
      BY IdleTypes DEF Idle
    <3> QED
      BY <1>1, <2>1, <2>3, <3>1 DEF Holding, Reading
  <2> QED
    BY <2>1, <2>2, <2>3
<1>6. CASE KeyMissing(c)
  <2> DEFINE new == [client[c] EXCEPT !.pc = "first"]
  <2>1. /\ client' = [client EXCEPT ![c] = new]
        /\ UNCHANGED <<version, newest, entry>> /\ UNCHANGED Shared
    BY <1>6 DEF KeyMissing, Update
  <2>2. new \in Request /\ new.pc = "first" /\ new.floor = client[c].floor
    BY <1>2 DEF Request
  <2> HIDE DEF new
  <2> QED
    BY <1>1, <2>1, <2>2 DEF Holding, Reading
<1> QED
  BY <1>3, <1>4, <1>5, <1>6

\* The version is read again into the key of an answer: the answer of another key
\* is excused.
LEMMA StampMoves ==
  ASSUME CacheTypeOK, BookInv, NEW c \in Clients, Stamp(c)
  PROVE  \E new \in Request :
           /\ version.left > 0 /\ Holding(client[c])
           /\ client' = [client EXCEPT ![c] = new]
           /\ UNCHANGED <<version, newest, entry>> /\ UNCHANGED Shared
           /\ new.pc = "store" /\ new.key = version.number
           /\ new.floor = client[c].floor /\ new.answer = client[c].answer
           /\ new.why = "none" => client[c].why = "none" /\ client[c].key = version.number
<1>1. /\ client[c] \in Request /\ "store" \in Places
      /\ "reread" \in Causes /\ client[c].why \in Causes
      /\ client[c].key \in Nat /\ client[c].key > 0
  BY RequestTypes, CacheTypes DEF Places, Causes
<1> DEFINE why == IF client[c].key # Current THEN "reread" ELSE client[c].why
           new == [client[c] EXCEPT !.pc = "store", !.key = Current, !.why = why]
<1>2. /\ client' = [client EXCEPT ![c] = new] /\ client[c].pc = "stamp"
      /\ UNCHANGED <<version, newest, entry>> /\ UNCHANGED Shared
  BY DEF Stamp, Update
<1>3. version.left > 0
  <2>1. kind = "query" /\ client[c].key <= newest /\ newest \in Nat /\ version.left \in Nat
    BY <1>2, CacheTypes DEF BookInv, Reading
  <2>2. newest # 0
    BY <1>1, <2>1
  <2> QED
    BY <2>1, <2>2 DEF BookInv
<1>4. Current = version.number /\ version.number \in Version
  BY <1>3, CacheTypes DEF Current
<1>5. why \in Causes /\ (why = "none" => client[c].why = "none" /\ client[c].key = Current)
  BY <1>1
<1> HIDE DEF why
<1>6. /\ new \in Request /\ new.pc = "store" /\ new.key = Current /\ new.why = why
      /\ new.floor = client[c].floor /\ new.answer = client[c].answer
  BY <1>1, <1>4, <1>5 DEF Request
<1> HIDE DEF new
<1> QED
  BY <1>2, <1>3, <1>4, <1>5, <1>6 DEF Holding

\* Storing, or not: the entry under the key becomes the answer and its excuse.
LEMMA StoreMoves ==
  ASSUME CacheTypeOK, BookInv, NEW c \in Clients, Store(c)
  PROVE  /\ Holding(client[c]) /\ UNCHANGED <<version, newest>> /\ UNCHANGED Shared
         /\ entry' \in [Version -> CacheEntry]
         /\ \A v \in Version :
              \/ entry'[v] = entry[v]
              \/ /\ v = client[c].key /\ entry'[v].value = client[c].answer
                 /\ entry'[v].why = client[c].why
         /\ \E new \in Request :
              /\ client' = [client EXCEPT ![c] = new]
              /\ new.pc = "answer" /\ new.floor = client[c].floor
              /\ new.answer = client[c].answer /\ new.why = client[c].why
<1>1. /\ client[c] \in Request /\ "answer" \in Places /\ client[c].key \in Version
      /\ client[c].answer \in Value /\ client[c].why \in Causes
      /\ entry \in [Version -> CacheEntry] /\ Ttl \in Lifetime
  BY RequestTypes, CacheNumbers DEF Places, CacheTypeOK, CacheEntry
<1> DEFINE new == [client[c] EXCEPT !.pc = "answer"]  e == Stored(c, Ttl)
<1>2. /\ client[c].pc = "store" /\ UNCHANGED <<version, newest>> /\ UNCHANGED Shared
      /\ client' = [client EXCEPT ![c] = new]
      /\ entry' = [entry EXCEPT ![client[c].key] = e] \/ UNCHANGED entry
  BY DEF Store, Update
<1>3. /\ new \in Request /\ new.pc = "answer" /\ new.floor = client[c].floor
      /\ new.answer = client[c].answer /\ new.why = client[c].why
  BY <1>1 DEF Request
<1>4. e \in CacheEntry /\ e.value = client[c].answer /\ e.why = client[c].why
  BY <1>1 DEF Stored, CacheEntry
<1> HIDE DEF new, e
<1> QED
  BY <1>1, <1>2, <1>3, <1>4 DEF Holding

\* Time passes: entries and the version live on as they were, or expire.
LEMMA ExpireMoves ==
  ASSUME CacheTypeOK, BookInv, Expire
  PROVE  /\ UNCHANGED <<newest, client>> /\ UNCHANGED Shared
         /\ version' \in [number : Version, left : Lifetime]
         /\ version'.number = version.number
         /\ version'.left > 0 => version.left > 0
         /\ kind = "query" => version' = version
         /\ entry' \in [Version -> CacheEntry]
         /\ \A v \in Version :
              /\ entry[v].left = 0 => entry'[v].left = 0
              /\ Trusted(entry'[v]) => Trusted(entry[v]) /\ entry'[v].value = entry[v].value
<1>1. \A n \in Lifetime : Less(n) \in Lifetime /\ (Less(n) > 0 => n > 0)
  BY CacheNumbers DEF Less
<1>2. version \in [number : Version, left : Lifetime] /\ entry \in [Version -> CacheEntry]
  BY DEF CacheTypeOK, CacheEntry
<1>3. /\ version' = IF kind = "permission"
                    THEN [version EXCEPT !.left = Less(version.left)] ELSE version
      /\ entry' = [v \in Version |-> IF entry[v].left < 2 THEN NoEntry
                                     ELSE [entry[v] EXCEPT !.left = Less(entry[v].left)]]
      /\ UNCHANGED <<newest, client>> /\ UNCHANGED Shared
  BY DEF Expire
<1>4. /\ version' \in [number : Version, left : Lifetime]
      /\ version'.number = version.number
      /\ version'.left > 0 => version.left > 0
      /\ kind = "query" => version' = version
  BY <1>1, <1>2, <1>3
<1>5. ASSUME NEW v \in Version
      PROVE  /\ entry'[v] \in CacheEntry
             /\ entry[v].left = 0 => entry'[v].left = 0
             /\ Trusted(entry'[v]) => Trusted(entry[v]) /\ entry'[v].value = entry[v].value
  <2>1. /\ entry[v] \in CacheEntry /\ entry[v].left \in Lifetime
        /\ Lifetime = 0 .. Ttl /\ Ttl \in Nat
    BY <1>2, CacheNumbers DEF CacheEntry
  <2>2. CASE entry[v].left < 2
    <3>1. entry'[v] = NoEntry
      BY <1>3, <2>2
    <3> QED
      BY <3>1, IdleTypes DEF NoEntry, Trusted
  <2>3. CASE ~(entry[v].left < 2)
    <3> DEFINE left == Less(entry[v].left)
    <3>1. entry'[v] = [entry[v] EXCEPT !.left = left] /\ left \in Lifetime
      BY <1>1, <1>3, <2>1, <2>3
    <3> HIDE DEF left
    <3>2. entry'[v] \in CacheEntry /\ entry'[v].value = entry[v].value
          /\ entry'[v].why = entry[v].why
      BY <2>1, <3>1 DEF CacheEntry
    <3> QED
      BY <2>1, <2>3, <3>2 DEF Trusted
  <2> QED
    BY <2>2, <2>3
<1> QED
  BY <1>3, <1>4, <1>5
-----------------------------------------------------------------------------
\* Every step keeps the types and the books.
LEMMA CacheTypeStep ==
  ASSUME CacheTypeOK, BookInv, [CacheNext]_cacheVars
  PROVE  CacheTypeOK' /\ BookInv'
<1>1. CASE UNCHANGED cacheVars
  BY <1>1 DEF cacheVars, CacheTypeOK, BookInv
<1>2. ASSUME NEW c \in Clients, Begin(c) \/ KeyMissing(c) \/ Look(c) \/ Answer(c)
      PROVE  CacheTypeOK' /\ BookInv'
  <2>1. PICK new \in Request :
          /\ client' = [client EXCEPT ![c] = new]
          /\ UNCHANGED <<version, newest, entry>> /\ UNCHANGED Shared
          /\ new.floor <= told /\ ~Holding(new)
          /\ Reading(new) => /\ client[c].pc = "look" /\ new.key = client[c].key
                             /\ new.floor = client[c].floor
    BY <1>2, AskMoves
  <2>2. Reading(new) => new.key <= newest
    BY <2>1 DEF BookInv, Reading
  <2>3. new.pc # "stamp"
    BY <2>1 DEF Holding
  <2> QED
    BY <2>1, <2>2, <2>3, UpdateTypes DEF Update
<1>3. ASSUME NEW c \in Clients, Evaluate(c) PROVE CacheTypeOK' /\ BookInv'
  <2>1. PICK new \in Request :
           /\ client' = [client EXCEPT ![c] = new]
           /\ client[c].pc = "evaluate" /\ (new.pc = "stamp" => kind = "query")
           /\ new.floor = client[c].floor /\ new.key = client[c].key
    BY <1>3, EvaluateMoves
  <2>2. new.floor <= told /\ (Reading(new) => new.key <= newest)
    BY <2>1 DEF BookInv, Reading
  <2>3. UNCHANGED <<version, newest, entry>> /\ UNCHANGED Shared
    BY <1>3 DEF Evaluate
  <2> QED
    BY <2>1, <2>2, <2>3, UpdateTypes DEF Update
<1>4. ASSUME NEW c \in Clients, Stamp(c) PROVE CacheTypeOK' /\ BookInv'
  <2>1. PICK new \in Request :
           /\ version.left > 0
           /\ client' = [client EXCEPT ![c] = new]
           /\ UNCHANGED <<version, newest, entry>> /\ UNCHANGED Shared
           /\ new.pc = "store" /\ new.key = version.number /\ new.floor = client[c].floor
    BY <1>4, StampMoves
  <2>2. new.floor <= told /\ new.pc # "stamp" /\ new.key <= newest
    BY <2>1 DEF BookInv
  <2> QED
    BY <2>1, <2>2, UpdateTypes DEF Update
<1>5. ASSUME NEW c \in Clients, Store(c) PROVE CacheTypeOK' /\ BookInv'
  <2>1. /\ Holding(client[c]) /\ UNCHANGED <<version, newest>> /\ UNCHANGED Shared
        /\ entry' \in [Version -> CacheEntry]
        /\ \A v \in Version : entry'[v] = entry[v] \/ v = client[c].key
    BY <1>5, StoreMoves
  <2>2. PICK new \in Request :
              /\ client' = [client EXCEPT ![c] = new]
              /\ new.pc = "answer" /\ new.floor = client[c].floor
    BY <1>5, StoreMoves
  <2>3. UNCHANGED <<kind, data, change, told>>
    BY <2>1 DEF Shared
  <2>4. /\ client' \in [Clients -> Request] /\ client'[c] = new
        /\ \A d \in Clients : d # c => client'[d] = client[d]
    BY <2>2 DEF CacheTypeOK, Request
  <2>5. CacheTypeOK'
    BY <2>1, <2>3, <2>4 DEF CacheTypeOK, Request, CacheEntry
  <2>6. \A v \in Version : v > newest => entry'[v].left = 0
    <3>1. client[c].key <= newest /\ client[c].key \in Nat /\ newest \in Nat
      BY <2>1, RequestTypes, CacheTypes DEF BookInv, Holding, Reading
    <3> QED
      BY <2>1, <3>1 DEF BookInv
  <2>7. \A d \in Clients : /\ client'[d].floor <= told
                           /\ Reading(client'[d]) => client'[d].key <= newest
                           /\ client'[d].pc = "stamp" => kind = "query"
    BY <2>2, <2>4 DEF BookInv, Reading
  <2> QED
    BY <2>1, <2>3, <2>5, <2>6, <2>7 DEF BookInv
<1>6. CASE Expire
  <2>1. /\ UNCHANGED <<kind, data, change, told, newest, client>>
        /\ version' \in [number : Version, left : Lifetime]
        /\ version'.number = version.number
        /\ version'.left > 0 => version.left > 0
        /\ kind = "query" => version' = version
        /\ entry' \in [Version -> CacheEntry]
        /\ \A v \in Version : entry[v].left = 0 => entry'[v].left = 0
    BY <1>6, ExpireMoves DEF Shared
  <2>2. CacheTypeOK'
    BY <2>1 DEF CacheTypeOK, CacheEntry
  <2> QED
    BY <2>1, <2>2 DEF BookInv
<1> QED
  BY <1>1, <1>2, <1>3, <1>4, <1>5, <1>6, ChangeTypes, InvalidateTypes, FallbackTypes,
     KeyTypes, FirstTypes DEF CacheNext, Ask
-----------------------------------------------------------------------------
(* What a trusted answer knows *)

\* What is trusted after the step was so before it: it was stored, or a request
\* held it and stored it.
Inherited ==
  \A v \in Version : Trusted(entry'[v]) =>
    \/ Trusted(entry[v]) /\ entry'[v].value = entry[v].value
    \/ \E c \in Clients : /\ Holding(client[c]) /\ client[c].why = "none"
                          /\ client[c].key = v /\ entry'[v].value = client[c].answer
\* A request stays where it is; it may get an excuse.
Stays(c) ==
  /\ AsBefore(client'[c], client[c])
  /\ client'[c].why = "none" => client[c].why = "none"
  /\ client[c].pc = "answer" => client'[c].why = client[c].why

\* What the version vouches for stays true, if it is the same version, nothing new
\* is announced, and a request that moves brings nothing worse.
LEMMA CurrentStep ==
  ASSUME CurrentInv, Inherited, version'.number = version.number,
         version'.left > 0 => version.left > 0, version.number \in Version,
         UNCHANGED told, change'.pc = "commit" => change.pc = "commit",
         \A c \in Clients :
           \/ Stays(c)
           \/ Holding(client'[c]) /\ client'[c].key = version.number /\ client'[c].why = "none"
                => client'[c].answer >= told /\ change.pc # "commit"
  PROVE  CurrentInv'
<1> SUFFICES ASSUME version'.left > 0
             PROVE  /\ Trusted(entry'[version.number]) =>
                         entry'[version.number].value >= told /\ change'.pc # "commit"
                    /\ \A c \in Clients :
                         Holding(client'[c]) /\ client'[c].key = version.number
                           /\ client'[c].why = "none"
                           => client'[c].answer >= told /\ change'.pc # "commit"
  BY DEF CurrentInv, Trusted, Holding
<1>1. /\ Trusted(entry[version.number]) =>
           entry[version.number].value >= told /\ change.pc # "commit"
      /\ \A c \in Clients :
           Holding(client[c]) /\ client[c].key = version.number /\ client[c].why = "none"
             => client[c].answer >= told /\ change.pc # "commit"
  BY DEF CurrentInv
<1>2. Trusted(entry'[version.number]) =>
        entry'[version.number].value >= told /\ change'.pc # "commit"
  BY <1>1 DEF Inherited
<1>3. ASSUME NEW c \in Clients, Holding(client'[c]), client'[c].key = version.number,
             client'[c].why = "none"
      PROVE  client'[c].answer >= told /\ change'.pc # "commit"
  BY <1>1, <1>3 DEF Stays, AsBefore, Holding
<1> QED
  BY <1>2, <1>3

\* What a request may find stays good enough for it, and what it got too, if
\* every request stays or moves to what is.
LEMMA ReaderStep ==
  ASSUME ReaderInv, StaleHasCause, Inherited, client \in [Clients -> Request],
         \A c \in Clients :
           \/ Stays(c)
           \/ /\ Reading(client'[c]) =>
                   /\ Trusted(entry'[client'[c].key]) =>
                        entry'[client'[c].key].value >= client'[c].floor
                   /\ \A d \in Clients :
                        Holding(client'[d]) /\ client'[d].key = client'[c].key
                          /\ client'[d].why = "none" => client'[d].answer >= client'[c].floor
              /\ Holding(client'[c]) /\ client'[c].why = "none" =>
                   \A d \in Clients : Reading(client[d]) /\ client[d].key = client'[c].key =>
                     client'[c].answer >= client[d].floor
              /\ client'[c].pc = "answer" /\ client'[c].answer < client'[c].floor =>
                   client'[c].why # "none"
  PROVE  ReaderInv' /\ StaleHasCause'
<1>1. ASSUME NEW c \in Clients, Stays(c), Reading(client'[c])
      PROVE  /\ Trusted(entry'[client'[c].key]) =>
                  entry'[client'[c].key].value >= client'[c].floor
             /\ \A d \in Clients :
                  Holding(client'[d]) /\ client'[d].key = client'[c].key
                    /\ client'[d].why = "none" => client'[d].answer >= client'[c].floor
  <2>1. /\ Reading(client[c]) /\ client'[c].key = client[c].key
        /\ client'[c].floor = client[c].floor /\ client[c].key \in Version
    BY <1>1 DEF Stays, AsBefore, Reading, Request
  <2>2. /\ Trusted(entry[client[c].key]) => entry[client[c].key].value >= client[c].floor
        /\ \A d \in Clients :
             Holding(client[d]) /\ client[d].key = client[c].key /\ client[d].why = "none"
               => client[d].answer >= client[c].floor
    BY <2>1 DEF ReaderInv
  <2>3. Trusted(entry'[client'[c].key]) => entry'[client'[c].key].value >= client'[c].floor
    BY <2>1, <2>2 DEF Inherited
  <2>4. ASSUME NEW d \in Clients, Holding(client'[d]), client'[d].key = client'[c].key,
               client'[d].why = "none"
        PROVE  client'[d].answer >= client'[c].floor
    <3>1. CASE Stays(d)
      BY <2>1, <2>2, <2>4, <3>1 DEF Stays, AsBefore, Holding
    <3>2. CASE ~Stays(d)
      BY <2>1, <2>4, <3>2
    <3> QED
      BY <3>1, <3>2
  <2> QED
    BY <2>3, <2>4
<1>2. ReaderInv'
  <2>1. \A c \in Clients : Reading(client'[c]) =>
          /\ Trusted(entry'[client'[c].key]) =>
               entry'[client'[c].key].value >= client'[c].floor
          /\ \A d \in Clients :
               Holding(client'[d]) /\ client'[d].key = client'[c].key
                 /\ client'[d].why = "none" => client'[d].answer >= client'[c].floor
    BY <1>1
  <2> QED
    BY <2>1 DEF ReaderInv, Reading, Trusted, Holding
<1>3. \A c \in Clients : client'[c].pc = "answer" /\ client'[c].answer < client'[c].floor
                           => client'[c].why # "none"
  BY DEF StaleHasCause, Stays, AsBefore
<1> QED
  BY <1>2, <1>3 DEF StaleHasCause

\* Nothing but excuses comes of a number that is given out.
LEMMA GivenIsExcused ==
  ASSUME CacheTypeOK, BookInv, NEW number \in Version, number <= newest + 1,
         NEW left \in Lifetime, left > 0,
         Give(number, left), entry' = Entries(number)
  PROVE  /\ version'.number = number /\ version'.left = left
         /\ Inherited /\ ~Trusted(entry'[number])
<1>1. /\ version'.number = number /\ version'.left = left
      /\ \A v \in Version : entry'[v].left > 0 =>
           /\ entry[v].left > 0 /\ entry'[v].value = entry[v].value
           /\ entry'[v].why = "none" => entry[v].why = "none" /\ v < number
  BY GivenEntries
<1>2. ~(number < number)
  BY CacheTypes
<1> QED
  BY <1>1, <1>2 DEF Inherited, Trusted

\* The data changes, the change is committed or not: in a transaction that has
\* invalidated there is nothing that the announcement could make stale.
LEMMA ChangeKnows ==
  ASSUME CacheInv,
         \/ \E atomic \in BOOLEAN, bumps \in 1 .. MaxBumps : Change(atomic, bumps)
         \/ Commit \/ Rollback
  PROVE  CurrentInv' /\ ReaderInv' /\ StaleHasCause'
<1>1. UNCHANGED <<version, entry, client>>
  BY DEF Change, Commit, Rollback
<1>2. ReaderInv' /\ StaleHasCause'
  BY <1>1 DEF CacheInv, ReaderInv, StaleHasCause, Reading, Trusted, Holding
<1>3. change'.pc # "commit"
  <2>1. \/ change'.pc = "bump"
        \/ change' = [change EXCEPT !.pc = "idle", !.atomic = FALSE]
    BY DEF Change, Commit, Rollback
  <2>2. change \in Progress
    BY DEF CacheInv, CacheTypeOK
  <2>3. [change EXCEPT !.pc = "idle", !.atomic = FALSE].pc = "idle"
    BY <2>2 DEF Progress
  <2> QED
    BY <2>1, <2>3
<1>4. UNCHANGED told \/ change.pc = "commit"
  BY DEF Change, Commit, Rollback
<1>5. CurrentInv'
  BY <1>1, <1>3, <1>4 DEF CacheInv, CurrentInv, Trusted, Holding
<1> QED
  BY <1>2, <1>5

\* An invalidation leaves nothing trusted under the version it makes.
LEMMA InvalidateKnows ==
  ASSUME CacheInv, Invalidate \/ SetNext
  PROVE  CurrentInv' /\ ReaderInv' /\ StaleHasCause'
<1>1. CacheTypeOK /\ BookInv /\ ReaderInv /\ StaleHasCause
  BY DEF CacheInv
<1>2. PICK number \in Version, left \in Lifetime :
        /\ left > 0 /\ number <= newest + 1
        /\ Give(number, left) /\ entry' = Entries(number) /\ client' = InFlight(number)
  BY <1>1, BumpGives DEF Invalidate, SetNext
<1>3. \A c \in Clients :
        /\ AsBefore(client'[c], client[c])
        /\ client'[c].why = "none" =>
             client[c].why = "none" /\ (Reading(client[c]) => client[c].key < number)
        /\ client[c].pc = "answer" => client'[c] = client[c]
  BY <1>1, <1>2, GivenRequests
<1>4. Inherited /\ ~Trusted(entry'[number]) /\ version'.number = number
  BY <1>1, <1>2, GivenIsExcused
<1>5. ReaderInv' /\ StaleHasCause'
  <2>1. \A c \in Clients : Stays(c)
    BY <1>3 DEF Stays
  <2>2. client \in [Clients -> Request]
    BY <1>1 DEF CacheTypeOK, Request
  <2> QED
    BY <1>1, <1>4, <2>1, <2>2, ReaderStep
<1>6. \A c \in Clients : ~(/\ Holding(client'[c]) /\ client'[c].key = number
                           /\ client'[c].why = "none")
  <2> SUFFICES ASSUME NEW c \in Clients, Holding(client'[c]), client'[c].key = number,
                      client'[c].why = "none"
               PROVE  FALSE
    OBVIOUS
  <2>1. Reading(client[c]) /\ client[c].key = number
    BY <1>3 DEF AsBefore, Holding, Reading
  <2>2. ~(number < number)
    BY <1>1, CacheTypes
  <2> QED
    BY <1>3, <2>1, <2>2
<1>7. CurrentInv'
  BY <1>4, <1>6 DEF CurrentInv, Holding, Trusted
<1> QED
  BY <1>5, <1>7

\* An invalidation that finds no version has changed nothing yet.
LEMMA FallbackKnows ==
  ASSUME CacheInv, IncrFails \/ GetVersion
  PROVE  CurrentInv' /\ ReaderInv' /\ StaleHasCause'
<1>1. CacheTypeOK /\ BookInv
  BY DEF CacheInv
<1>2. UNCHANGED <<told, version, entry, client>> /\ change'.pc # "commit"
  BY <1>1, FallbackTypes
<1> QED
  BY <1>2 DEF CacheInv, CurrentInv, ReaderInv, StaleHasCause, Reading, Trusted, Holding

\* Time only takes away.
LEMMA ExpireKnows ==
  ASSUME CacheInv, Expire
  PROVE  CurrentInv' /\ ReaderInv' /\ StaleHasCause'
<1>1. CacheTypeOK /\ BookInv /\ CurrentInv /\ ReaderInv /\ StaleHasCause
  BY DEF CacheInv
<1>2. /\ UNCHANGED <<client, told, change>>
      /\ version'.number = version.number
      /\ version'.left > 0 => version.left > 0
      /\ \A v \in Version :
           Trusted(entry'[v]) => Trusted(entry[v]) /\ entry'[v].value = entry[v].value
  BY <1>1, ExpireMoves DEF Shared
<1>3. Inherited /\ \A c \in Clients : Stays(c)
  BY <1>2 DEF Inherited, Stays, AsBefore
<1>4. version.number \in Version /\ client \in [Clients -> Request]
  BY <1>1, CacheTypes DEF CacheTypeOK, Request
<1> QED
  BY <1>1, <1>2, <1>3, <1>4, CurrentStep, ReaderStep

\* A request moves that reads no version and has nothing to store.
LEMMA AskKnows ==
  ASSUME CacheInv, NEW c \in Clients,
         Begin(c) \/ KeyMissing(c) \/ Look(c) \/ Answer(c)
  PROVE  CurrentInv' /\ ReaderInv' /\ StaleHasCause'
<1>1. CacheTypeOK /\ BookInv /\ CurrentInv /\ ReaderInv /\ StaleHasCause
  BY DEF CacheInv
<1>2. PICK new \in Request :
        /\ client' = [client EXCEPT ![c] = new]
        /\ UNCHANGED <<version, newest, entry>> /\ UNCHANGED Shared
        /\ new.floor <= told /\ ~Holding(new)
        /\ Reading(new) => /\ client[c].pc = "look" /\ new.key = client[c].key
                           /\ new.floor = client[c].floor
        /\ new.pc = "answer" =>
             /\ client[c].pc = "look" /\ new.floor = client[c].floor
             /\ Found(c).left > 0 /\ new.answer = Found(c).value /\ new.why = Found(c).why
  BY <1>1, AskMoves
<1>3. client \in [Clients -> Request] /\ version.number \in Version
  BY <1>1, CacheTypes DEF CacheTypeOK, Request
<1>4. client'[c] = new /\ \A d \in Clients : d # c => client'[d] = client[d]
  BY <1>2, <1>3
<1>5. \A d \in Clients : d # c => Stays(d)
  BY <1>4 DEF Stays, AsBefore
<1>6. Inherited
  BY <1>2 DEF Inherited
<1>7. UNCHANGED <<change, told>>
  BY <1>2 DEF Shared
<1>8. CurrentInv'
  BY <1>1, <1>2, <1>3, <1>4, <1>5, <1>6, <1>7, CurrentStep
<1>9. ASSUME Reading(new)
      PROVE  /\ Trusted(entry'[new.key]) => entry'[new.key].value >= new.floor
             /\ \A d \in Clients :
                  Holding(client'[d]) /\ client'[d].key = new.key /\ client'[d].why = "none"
                    => client'[d].answer >= new.floor
  <2>1. Reading(client[c]) /\ new.key = client[c].key /\ new.floor = client[c].floor
    BY <1>2, <1>9 DEF Reading
  <2> QED
    BY <1>1, <1>2, <1>4, <2>1 DEF ReaderInv
<1>10. ASSUME new.pc = "answer", new.answer < new.floor PROVE new.why # "none"
  <2>1. Reading(client[c]) /\ new.floor = client[c].floor
    BY <1>2, <1>10 DEF Reading
  <2>2. Trusted(Found(c)) => Found(c).value >= client[c].floor
    BY <1>1, <2>1 DEF ReaderInv, Found
  <2>3. new.answer \in Nat /\ new.floor \in Nat
    <3>1. new.answer \in Value /\ new.floor \in Value
      BY DEF Request
    <3> QED
      BY <1>1, <3>1, CacheTypes
  <2>4. ~(new.answer >= new.floor)
    BY <1>10, <2>3
  <2> QED
    BY <1>2, <1>10, <2>1, <2>2, <2>4 DEF Trusted
<1>11. ReaderInv' /\ StaleHasCause'
  BY <1>1, <1>2, <1>3, <1>4, <1>5, <1>6, <1>9, <1>10, ReaderStep
<1> QED
  BY <1>8, <1>11

\* What is computed without an excuse is no older than the data, and so than
\* every change announced.
LEMMA EvaluateKnows ==
  ASSUME CacheInv, NEW c \in Clients, Evaluate(c)
  PROVE  CurrentInv' /\ ReaderInv' /\ StaleHasCause'
<1>1. CacheTypeOK /\ BookInv /\ CurrentInv /\ ReaderInv /\ StaleHasCause
  BY DEF CacheInv
<1>2. PICK new \in Request :
        /\ client' = [client EXCEPT ![c] = new]
        /\ client[c].pc = "evaluate" /\ new.pc \in {"stamp", "store"}
        /\ new.floor = client[c].floor /\ new.key = client[c].key
        /\ new.why = "none" => new.answer >= data /\ change.pc # "commit"
  BY <1>1, EvaluateMoves
<1>3. client \in [Clients -> Request] /\ version.number \in Version
  BY <1>1, CacheTypes DEF CacheTypeOK, Request
<1>4. client'[c] = new /\ \A d \in Clients : d # c => client'[d] = client[d]
  BY <1>2, <1>3
<1>5. \A d \in Clients : d # c => Stays(d)
  BY <1>4 DEF Stays, AsBefore
<1>6. UNCHANGED <<version, entry, change, told>> /\ Inherited
  BY DEF Evaluate, Shared, Inherited
<1>7. new.why = "none" =>
        /\ new.answer >= told /\ change.pc # "commit"
        /\ \A d \in Clients : new.answer >= client[d].floor
  <2> SUFFICES ASSUME new.why = "none", NEW d \in Clients
               PROVE  /\ new.answer >= told /\ change.pc # "commit"
                      /\ new.answer >= client[d].floor
    BY <1>2
  <2>1. new.answer \in Nat /\ data \in Nat /\ told \in Nat /\ client[d].floor \in Nat
    <3>1. new.answer \in Value /\ client[d].floor \in Value
      BY <1>1, RequestTypes DEF Request
    <3> QED
      BY <1>1, <3>1, CacheTypes
  <2>2. told <= data /\ client[d].floor <= told
    BY <1>1 DEF BookInv
  <2> QED
    BY <1>2, <2>1, <2>2
<1>8. CurrentInv'
  BY <1>1, <1>3, <1>4, <1>5, <1>6, <1>7, CurrentStep
<1>9. /\ Trusted(entry'[new.key]) => entry'[new.key].value >= new.floor
      /\ \A d \in Clients :
           Holding(client'[d]) /\ client'[d].key = new.key /\ client'[d].why = "none"
             => client'[d].answer >= new.floor
  <2>1. Reading(client[c])
    BY <1>2 DEF Reading
  <2>2. Trusted(entry'[new.key]) => entry'[new.key].value >= new.floor
    BY <1>1, <1>2, <1>6, <2>1 DEF ReaderInv
  <2>3. \A d \in Clients : d # c =>
          (Holding(client[d]) /\ client[d].key = new.key /\ client[d].why = "none"
             => client[d].answer >= new.floor)
    BY <1>1, <1>2, <2>1 DEF ReaderInv
  <2>4. new.why = "none" => new.answer >= new.floor
    BY <1>2, <1>7
  <2> QED
    BY <1>4, <2>2, <2>3, <2>4
<1>10. new.pc # "answer"
  BY <1>2
<1>11. ReaderInv' /\ StaleHasCause'
  BY <1>1, <1>3, <1>4, <1>5, <1>6, <1>7, <1>9, <1>10, ReaderStep
<1> QED
  BY <1>8, <1>11

\* What is stored was held before.
LEMMA StoreKnows ==
  ASSUME CacheInv, NEW c \in Clients, Store(c)
  PROVE  CurrentInv' /\ ReaderInv' /\ StaleHasCause'
<1>1. CacheTypeOK /\ BookInv /\ CurrentInv /\ ReaderInv /\ StaleHasCause
  BY DEF CacheInv
<1>2. /\ Holding(client[c]) /\ UNCHANGED <<version, newest>> /\ UNCHANGED Shared
      /\ \A v \in Version :
           \/ entry'[v] = entry[v]
           \/ /\ v = client[c].key /\ entry'[v].value = client[c].answer
              /\ entry'[v].why = client[c].why
  BY <1>1, StoreMoves
<1>3. PICK new \in Request :
        /\ client' = [client EXCEPT ![c] = new]
        /\ new.pc = "answer" /\ new.floor = client[c].floor
        /\ new.answer = client[c].answer /\ new.why = client[c].why
  BY <1>1, StoreMoves
<1>4. client \in [Clients -> Request] /\ version.number \in Version
  BY <1>1, CacheTypes DEF CacheTypeOK, Request
<1>5. client'[c] = new /\ \A d \in Clients : d # c => client'[d] = client[d]
  BY <1>3, <1>4
<1>6. \A d \in Clients : d # c => Stays(d)
  BY <1>5 DEF Stays, AsBefore
<1>7. Inherited
  BY <1>2 DEF Inherited, Trusted
<1>8. UNCHANGED <<change, told>> /\ ~Holding(new) /\ ~Reading(new)
  BY <1>2, <1>3 DEF Shared, Holding, Reading
<1>9. CurrentInv'
  BY <1>1, <1>2, <1>4, <1>5, <1>6, <1>7, <1>8, CurrentStep
<1>10. new.answer < new.floor => new.why # "none"
  <2>1. Reading(client[c])
    BY <1>2 DEF Holding, Reading
  <2>2. client[c].why = "none" => client[c].answer >= client[c].floor
    BY <1>1, <1>2, <2>1 DEF ReaderInv
  <2>3. new.answer \in Nat /\ new.floor \in Nat
    <3>1. new.answer \in Value /\ new.floor \in Value
      BY DEF Request
    <3> QED
      BY <1>1, <3>1, CacheTypes
  <2> QED
    BY <1>3, <2>2, <2>3
<1>11. ReaderInv' /\ StaleHasCause'
  BY <1>1, <1>4, <1>5, <1>6, <1>7, <1>8, <1>10, ReaderStep
<1> QED
  BY <1>9, <1>11

\* A request that reads a live version, or writes it again: it vouches for what is
\* under the key made of it.
LEMMA LiveKnows ==
  ASSUME CacheInv, NEW c \in Clients, NEW new \in Request, version.left > 0,
         client' = [client EXCEPT ![c] = new], UNCHANGED entry, UNCHANGED Shared,
         version'.number = version.number,
         new.key = version.number, new.floor = client[c].floor, new.pc # "answer",
         Holding(new) =>
           /\ Holding(client[c]) /\ new.answer = client[c].answer
           /\ new.why = "none" => client[c].why = "none" /\ client[c].key = version.number
  PROVE  CurrentInv' /\ ReaderInv' /\ StaleHasCause'
<1>1. CacheTypeOK /\ BookInv /\ CurrentInv /\ ReaderInv /\ StaleHasCause
  BY DEF CacheInv
<1>2. client \in [Clients -> Request] /\ version.number \in Version
  BY <1>1, CacheTypes DEF CacheTypeOK, Request
<1>3. UNCHANGED <<change, told>>
  BY DEF Shared
<1>4. new.floor <= told /\ \A n \in Nat : n >= told => n >= new.floor
  <2>1. new.floor <= told
    BY <1>1 DEF BookInv
  <2>2. new.floor \in Nat /\ told \in Nat
    <3>1. new.floor \in Value
      BY DEF Request
    <3> QED
      BY <1>1, <3>1, CacheTypes
  <2> QED
    BY <2>1, <2>2
<1>5. /\ \A d \in Clients : client[d].answer \in Nat
      /\ \A v \in Version : entry[v].value \in Nat
  BY <1>1, RequestTypes, CacheTypes DEF CacheTypeOK
<1>6. client'[c] = new /\ \A d \in Clients : d # c => client'[d] = client[d]
  BY <1>2
<1>7. \A d \in Clients : d # c => Stays(d)
  BY <1>6 DEF Stays, AsBefore
<1>8. Inherited
  BY DEF Inherited
<1>9. /\ Trusted(entry[version.number]) => entry[version.number].value >= told
      /\ \A d \in Clients :
           Holding(client[d]) /\ client[d].key = version.number /\ client[d].why = "none"
             => client[d].answer >= told /\ change.pc # "commit"
  BY <1>1 DEF CurrentInv
<1>10. CurrentInv'
  <2>1. Holding(new) /\ new.key = version.number /\ new.why = "none"
          => new.answer >= told /\ change.pc # "commit"
    BY <1>9
  <2> QED
    BY <1>1, <1>2, <1>3, <1>6, <1>7, <1>8, <2>1, CurrentStep
<1>11. /\ Trusted(entry'[new.key]) => entry'[new.key].value >= new.floor
       /\ \A d \in Clients :
            Holding(client'[d]) /\ client'[d].key = new.key /\ client'[d].why = "none"
              => client'[d].answer >= new.floor
  <2>1. Trusted(entry[version.number]) => entry[version.number].value >= new.floor
    BY <1>2, <1>4, <1>5, <1>9
  <2>2. ASSUME NEW d \in Clients, Holding(client'[d]), client'[d].key = new.key,
               client'[d].why = "none"
        PROVE  client'[d].answer >= new.floor
    <3>1. PICK e \in Clients : /\ Holding(client[e]) /\ client[e].key = version.number
                              /\ client[e].why = "none"
                              /\ client'[d].answer = client[e].answer
      <4>1. CASE d = c
        BY <1>6, <2>2, <4>1
      <4>2. CASE d # c
        BY <1>6, <2>2, <4>2
      <4> QED
        BY <4>1, <4>2
    <3>2. client[e].answer >= told /\ client[e].answer \in Nat
      BY <1>5, <1>9, <3>1
    <3> QED
      BY <1>4, <3>1, <3>2
  <2> QED
    BY <2>1, <2>2
<1>12. Holding(new) /\ new.why = "none" =>
         \A d \in Clients : Reading(client[d]) /\ client[d].key = new.key =>
           new.answer >= client[d].floor
  BY <1>1 DEF ReaderInv
<1>13. ReaderInv' /\ StaleHasCause'
  BY <1>1, <1>2, <1>6, <1>7, <1>8, <1>11, <1>12, ReaderStep
<1> QED
  BY <1>10, <1>13

\* A request that gets a number of its own finds nothing trusted under it.
LEMMA GivenKnows ==
  ASSUME CacheInv, NEW c \in Clients, NEW new \in Request,
         NEW number \in Version, number <= newest + 1,
         Give(number, Ttl), entry' = Entries(number),
         client' = [InFlight(number) EXCEPT ![c] = new],
         new.key = number, new.pc = "look"
  PROVE  CurrentInv' /\ ReaderInv' /\ StaleHasCause'
<1>1. CacheTypeOK /\ BookInv /\ ReaderInv /\ StaleHasCause
  BY DEF CacheInv
<1>2. client \in [Clients -> Request]
  BY <1>1 DEF CacheTypeOK, Request
<1>3. /\ InFlight(number) \in [Clients -> Request]
      /\ \A d \in Clients :
           /\ AsBefore(InFlight(number)[d], client[d])
           /\ InFlight(number)[d].why = "none" =>
                client[d].why = "none" /\ (Reading(client[d]) => client[d].key < number)
           /\ client[d].pc = "answer" => InFlight(number)[d] = client[d]
  BY <1>1, GivenRequests
<1>4. client'[c] = new /\ \A d \in Clients : d # c => client'[d] = InFlight(number)[d]
  BY <1>3
<1>5. \A d \in Clients : d # c => Stays(d)
  BY <1>3, <1>4 DEF Stays
<1>6. Inherited /\ ~Trusted(entry'[number]) /\ version'.number = number
  <2>1. Ttl \in Lifetime /\ Ttl > 0
    BY CacheNumbers
  <2> QED
    BY <1>1, <2>1, GivenIsExcused
<1>7. ~Holding(new) /\ new.pc # "answer"
  BY DEF Holding
<1>8. \A d \in Clients : ~(/\ Holding(client'[d]) /\ client'[d].key = number
                           /\ client'[d].why = "none")
  <2> SUFFICES ASSUME NEW d \in Clients, Holding(client'[d]), client'[d].key = number,
                      client'[d].why = "none"
               PROVE  FALSE
    OBVIOUS
  <2>1. d # c
    BY <1>4, <1>7
  <2>2. Reading(client[d]) /\ client[d].key = number
    BY <1>3, <1>4, <2>1 DEF AsBefore, Holding, Reading
  <2>3. client[d].key < number
    BY <1>3, <1>4, <2>1, <2>2
  <2>4. ~(number < number)
    BY <1>1, CacheTypes
  <2> QED
    BY <2>2, <2>3, <2>4
<1>9. CurrentInv'
  BY <1>6, <1>8 DEF CurrentInv, Holding, Trusted
<1>10. ReaderInv' /\ StaleHasCause'
  BY <1>1, <1>2, <1>4, <1>5, <1>6, <1>7, <1>8, ReaderStep
<1> QED
  BY <1>9, <1>10

LEMMA KeyKnows ==
  ASSUME CacheInv, NEW c \in Clients, Key(c)
  PROVE  CurrentInv' /\ ReaderInv' /\ StaleHasCause'
<1>1. CacheTypeOK /\ BookInv
  BY DEF CacheInv
<1>2. Current \in Version /\ UNCHANGED Shared
  BY <1>1, ReadGives
<1>3. /\ Keyed(c) \in Request /\ Keyed(c).pc = "look" /\ Keyed(c).key = Current
      /\ Keyed(c).floor = client[c].floor
  BY <1>1, <1>2, RequestTypes DEF Keyed, Request, Places, Causes
<1>4. ~Holding(Keyed(c)) /\ Keyed(c).pc # "answer"
  BY <1>3 DEF Holding
<1> HIDE DEF Keyed
<1>5. CASE /\ version.left > 0 /\ Current = version.number
           /\ client' = [client EXCEPT ![c] = Keyed(c)]
           /\ UNCHANGED <<version, newest, entry>>
  BY <1>2, <1>3, <1>4, <1>5, LiveKnows
<1>6. CASE /\ version.left = 0 /\ Current <= newest + 1 /\ newest = 0
           /\ Give(Current, Ttl) /\ entry' = Entries(Current)
           /\ client' = [InFlight(Current) EXCEPT ![c] = Keyed(c)]
  BY <1>2, <1>3, <1>6, GivenKnows
<1> QED
  BY <1>1, <1>5, <1>6, ReadGives

LEMMA FirstKnows ==
  ASSUME CacheInv, NEW c \in Clients, SetFirst(c)
  PROVE  CurrentInv' /\ ReaderInv' /\ StaleHasCause'
<1> DEFINE new == [client[c] EXCEPT !.pc = "look", !.key = 1, !.why = "none"]
<1>1. CacheTypeOK /\ BookInv
  BY DEF CacheInv
<1>2. /\ 1 \in Version /\ 1 <= newest + 1 /\ UNCHANGED Shared
      /\ \/ /\ version.left > 0 /\ version.number = 1
            /\ version' = [version EXCEPT !.left = Ttl]
            /\ client' = [client EXCEPT ![c] = new] /\ UNCHANGED <<newest, entry>>
         \/ /\ Give(1, Ttl) /\ entry' = Entries(1)
            /\ client' = [InFlight(1) EXCEPT ![c] = new]
  BY <1>1, FirstGives
<1>3. /\ new \in Request /\ new.pc = "look" /\ new.key = 1
      /\ new.floor = client[c].floor
  BY <1>1, <1>2, RequestTypes DEF Request, Places, Causes
<1> HIDE DEF new
<1>4. ~Holding(new) /\ new.pc # "answer"
  BY <1>3 DEF Holding
<1>5. CASE Give(1, Ttl) /\ entry' = Entries(1) /\ client' = [InFlight(1) EXCEPT ![c] = new]
  BY <1>2, <1>3, <1>5, GivenKnows
<1>6. CASE /\ version.left > 0 /\ version.number = 1
           /\ version' = [version EXCEPT !.left = Ttl]
           /\ client' = [client EXCEPT ![c] = new] /\ UNCHANGED <<newest, entry>>
  <2>1. version'.number = version.number
    BY <1>1, <1>6 DEF CacheTypeOK
  <2> QED
    BY <1>2, <1>3, <1>4, <1>6, <2>1, LiveKnows
<1> QED
  BY <1>2, <1>5, <1>6

LEMMA StampKnows ==
  ASSUME CacheInv, NEW c \in Clients, Stamp(c)
  PROVE  CurrentInv' /\ ReaderInv' /\ StaleHasCause'
<1>1. CacheTypeOK /\ BookInv
  BY DEF CacheInv
<1>2. PICK new \in Request :
        /\ version.left > 0 /\ Holding(client[c])
        /\ client' = [client EXCEPT ![c] = new]
        /\ UNCHANGED <<version, newest, entry>> /\ UNCHANGED Shared
        /\ new.pc = "store" /\ new.key = version.number
        /\ new.floor = client[c].floor /\ new.answer = client[c].answer
        /\ new.why = "none" => client[c].why = "none" /\ client[c].key = version.number
  BY <1>1, StampMoves
<1>3. new.pc # "answer"
  BY <1>2
<1> QED
  BY <1>2, <1>3, LiveKnows

LEMMA CacheStep ==
  ASSUME CacheInv, [CacheNext]_cacheVars PROVE CacheInv'
<1>1. CacheTypeOK' /\ BookInv'
  BY CacheTypeStep DEF CacheInv
<1>2. CurrentInv' /\ ReaderInv' /\ StaleHasCause'
  <2>1. CASE UNCHANGED cacheVars
    <3>1. UNCHANGED <<change, told, version, entry, client>>
      BY <2>1 DEF cacheVars
    <3> QED
      BY <3>1 DEF CacheInv, CurrentInv, ReaderInv, StaleHasCause, Trusted, Holding, Reading
  <2> QED
    BY <2>1, ChangeKnows, InvalidateKnows, FallbackKnows, ExpireKnows, AskKnows, KeyKnows,
       FirstKnows, EvaluateKnows, StampKnows, StoreKnows DEF CacheNext, Ask
<1> QED
  BY <1>1, <1>2 DEF CacheInv

\* For any clients, lifetimes, numbers of changes and of invalidations, the
\* permission cache and the query cache keep their types and their books, and
\* what they hold under a version without an excuse knows of every change that
\* was announced before somebody could look for it.
THEOREM CacheInvariant == CacheSpec => []CacheInv
BY CacheStarts, CacheStep, PTL DEF CacheSpec

\* Versions stay within the bound on invalidations, entries within their lifetime.
THEOREM CacheTypesHold == CacheSpec => []CacheTypeOK
<1>1. CacheInv => CacheTypeOK
  BY DEF CacheInv
<1> QED
  BY <1>1, CacheInvariant, PTL

\* StaleHasCause, for any number of clients: an answer from before a change that
\* was announced when its request began has one of the five causes.
THEOREM StaleAnswersHaveCauses == CacheSpec => []StaleHasCause
<1>1. CacheInv => StaleHasCause
  BY DEF CacheInv
<1> QED
  BY <1>1, CacheInvariant, PTL
=============================================================================
