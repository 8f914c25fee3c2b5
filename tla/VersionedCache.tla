-------------------------- MODULE VersionedCache --------------------------
(***************************************************************************)
(* The two caches of rail-django that are invalidated by a version number  *)
(* inside their keys: the permission cache of security/rbac (the answer to *)
(* one permission question about one user) and the query cache of          *)
(* extensions/optimization (the result of one query).                      *)
(*                                                                         *)
(* Clients read the version, look the key up, compute what they miss and   *)
(* store it; somebody changes the data and bumps the version, in a         *)
(* transaction or not.  Data, answers and results are the number of the    *)
(* change they reflect.  The version of the permission cache is itself a   *)
(* cache entry with a lifetime and starts again from 1; every access to it *)
(* (get, set, incr) is a step of its own, so that one that found no        *)
(* version writes the first one late.  The query cache's version is a      *)
(* fresh uuid that stays, here the next number, and is read and written    *)
(* under a lock.                                                           *)
(*                                                                         *)
(* No part of either protocol makes the cache coherent on its own.  The    *)
(* history field why tells how an answer got under a version that is newer *)
(* than the answer; the five ways are named in Causes.                     *)
(***************************************************************************)
EXTENDS Naturals

CONSTANTS Kinds,       \* the caches considered
          Clients,     \* threads that serve requests
          Ttl,         \* lifetime of entries and of the version, in ticks
          Checks,      \* bound: per client, questions asked by one request
          MaxChanges,  \* bound: changes of the data
          MaxBumps     \* bound: invalidations that follow one change of permissions
                       \* (two when assign_role_to_user adds its own to the signal's)

ASSUME KindsAssumption == Kinds \subseteq {"permission", "query"}
ASSUME BoundsAssumption ==
  /\ Ttl \in Nat \ {0} /\ Checks \in [Clients -> Nat \ {0}] /\ MaxChanges \in Nat
  /\ MaxBumps \in Nat \ {0}

VARIABLES
  kind,      \* the cache
  data,      \* the committed data
  change,    \* the change going on: position, in a transaction?, bumps left,
             \* the version its invalidation read (0: none)
  told,      \* the latest change that is committed and was announced
  version,   \* the version entry: number and remaining lifetime
  newest,    \* highest version given out so far
  entry,     \* per version: the entry under its key
  client     \* per client: position, questions left, what it knows

cacheVars == <<kind, data, change, told, version, newest, entry, client>>

MaxVersion == MaxBumps * MaxChanges + 1
Value == 0 .. MaxChanges
Version == 1 .. MaxVersion
Lifetime == 0 .. Ttl
Unknown == MaxChanges + 1          \* nothing remembered
Causes == {"none", "memo", "uncommitted", "reread", "restart", "overwrite"}
Places == {"idle", "key", "first", "look", "evaluate", "stamp", "store", "answer"}
Steps == {"idle", "bump", "get", "set", "commit"}

Progress == [pc : Steps, atomic : BOOLEAN, bumps : 0 .. MaxBumps, tries : Value,
             seen : Version \cup {0}]
Idle == [pc |-> "idle", checks |-> 0, floor |-> 0, memo |-> Unknown, key |-> 1,
         answer |-> 0, why |-> "none"]
NoEntry == [value |-> 0, left |-> 0, why |-> "none"]

CacheTypeOK ==
  /\ kind \in Kinds
  /\ data \in Value /\ told \in Value
  /\ change \in Progress
  /\ version \in [number : Version, left : Lifetime]
  /\ newest \in Version \cup {0}
  /\ entry \in [Version -> [value : Value, left : Lifetime, why : Causes]]
  /\ client \in [Clients -> [pc : Places, checks : Nat, floor : Value,
                             memo : Value \cup {Unknown}, key : Version,
                             answer : Value, why : Causes]]

CacheInit ==
  /\ kind \in Kinds
  /\ data = 0 /\ told = 0
  /\ change = [pc |-> "idle", atomic |-> FALSE, bumps |-> 0, tries |-> 0,
               seen |-> 0]
  /\ version = [number |-> 1, left |-> 0] /\ newest = 0
  /\ entry = [v \in Version |-> NoEntry]
  /\ client = [c \in Clients |-> Idle]
-----------------------------------------------------------------------------
(* The version *)

\* The number a version entry gets that is missing.
First == IF kind = "permission" THEN 1 ELSE newest + 1
Current == IF version.left > 0 THEN version.number ELSE First

\* A number is given out; if it was before, what is stored or about to be
\* stored under it and the next ones may be found again: the version expired,
\* or a write that comes late replaces it.
Give(number, left) ==
  /\ version' = [number |-> number, left |-> left]
  /\ newest' = IF number > newest THEN number ELSE newest
Again == IF version.left = 0 THEN "restart" ELSE "overwrite"
Outlived(why, v, number) == IF number <= newest /\ v >= number THEN Again ELSE why
Entries(number) ==
  [v \in Version |-> IF entry[v].left = 0 THEN NoEntry
                     ELSE [entry[v] EXCEPT !.why = Outlived(@, v, number)]]
InFlight(number) ==
  [c \in Clients |->
     IF client[c].pc \in {"look", "evaluate", "stamp", "store"}
     THEN [client[c] EXCEPT !.why = Outlived(@, client[c].key, number)] ELSE client[c]]
Renew(number, left) ==
  Give(number, left) /\ entry' = Entries(number) /\ client' = InFlight(number)

\* Mutant of Bump: nothing is invalidated.
BumpNothing == UNCHANGED <<version, newest, entry, client>>
\* bump_user_cache_version: incr leaves the lifetime alone; bump_version: a new
\* uuid.
Bump == IF kind = "permission" THEN Renew(version.number + 1, version.left)
        ELSE Renew(newest + 1, Ttl)
-----------------------------------------------------------------------------
(* Changing the data *)

\* user.groups, user_permissions or Group.permissions is changed, or the data
\* a query reads: in autocommit, or in the transaction of a mutation.
Change(atomic, bumps) ==
  /\ change.pc = "idle" /\ change.tries < MaxChanges
  /\ kind = "query" => bumps = 1
  /\ change' = [pc |-> "bump", atomic |-> atomic, bumps |-> bumps,
                tries |-> change.tries + 1, seen |-> 0]
  /\ data' = IF atomic THEN data ELSE data + 1
  /\ UNCHANGED <<kind, told, version, newest, entry, client>>

\* The m2m_changed receiver, assign_role_to_user, remove_role_from_user or the
\* caller of invalidate_query_cache has invalidated: at once, not on commit.
Invalidated ==
  /\ change' = [change EXCEPT !.bumps = @ - 1, !.seen = 0,
                !.pc = IF change.bumps > 1 THEN "bump"
                       ELSE IF change.atomic THEN "commit" ELSE "idle"]
  /\ told' = IF change.bumps = 1 /\ ~change.atomic THEN data ELSE told
  /\ UNCHANGED <<kind, data>>

Invalidate ==
  /\ change.pc = "bump"
  /\ kind = "query" \/ version.left > 0
  /\ Bump /\ Invalidated

\* incr fails on a missing version: its except clause gets the version, which
\* another request may have set by now, and then sets the next one.
IncrFails ==
  /\ change.pc = "bump" /\ kind = "permission" /\ version.left = 0
  /\ change' = [change EXCEPT !.pc = "get"]
  /\ UNCHANGED <<kind, data, told, version, newest, entry, client>>

GetVersion ==
  /\ change.pc = "get"
  /\ change' = [change EXCEPT !.pc = "set",
                !.seen = IF version.left > 0 THEN version.number ELSE 0]
  /\ UNCHANGED <<kind, data, told, version, newest, entry, client>>

SetNext ==
  /\ change.pc = "set"
  /\ Renew(change.seen + 1, Ttl) /\ Invalidated

Commit ==
  /\ change.pc = "commit"
  /\ data' = data + 1 /\ told' = data + 1
  /\ change' = [change EXCEPT !.pc = "idle", !.atomic = FALSE]
  /\ UNCHANGED <<kind, version, newest, entry, client>>

Rollback ==
  /\ change.pc = "commit"
  /\ change' = [change EXCEPT !.pc = "idle", !.atomic = FALSE]
  /\ UNCHANGED <<kind, data, told, version, newest, entry, client>>
-----------------------------------------------------------------------------
(* Asking *)

Shared == <<kind, data, change, told>>
Update(c, new) == client' = [client EXCEPT ![c] = new]

\* A request arrives: its user object has nothing cached yet.
Begin(c) ==
  /\ client[c].pc = "idle"
  /\ Update(c, [Idle EXCEPT !.pc = "key", !.checks = Checks[c], !.floor = told])
  /\ UNCHANGED <<version, newest, entry>> /\ UNCHANGED Shared

\* The version is read into the key, before anything is computed.
Keyed(c) == [client[c] EXCEPT !.pc = "look", !.key = Current, !.why = "none"]

\* The version is there, or get_version creates one under its lock.
Key(c) ==
  /\ client[c].pc = "key"
  /\ \/ /\ version.left > 0
        /\ Update(c, Keyed(c)) /\ UNCHANGED <<version, newest, entry>>
     \/ /\ version.left = 0 /\ kind = "query"
        /\ Give(First, Ttl) /\ entry' = Entries(First)
        /\ client' = [InFlight(First) EXCEPT ![c] = Keyed(c)]
  /\ UNCHANGED Shared

\* _get_cache_version finds none ...
KeyMissing(c) ==
  /\ client[c].pc = "key" /\ version.left = 0 /\ kind = "permission"
  /\ Update(c, [client[c] EXCEPT !.pc = "first"])
  /\ UNCHANGED <<version, newest, entry>> /\ UNCHANGED Shared

\* ... and sets 1, whatever the version has become since.  Writing what is there
\* only renews its lifetime.
SetFirst(c) ==
  LET new == [client[c] EXCEPT !.pc = "look", !.key = 1, !.why = "none"]
  IN /\ client[c].pc = "first"
     /\ \/ /\ version.left > 0 /\ version.number = 1
           /\ version' = [version EXCEPT !.left = Ttl] /\ Update(c, new)
           /\ UNCHANGED <<newest, entry>>
        \/ /\ version.left = 0 \/ version.number # 1
           /\ Give(1, Ttl) /\ entry' = Entries(1)
           /\ client' = [InFlight(1) EXCEPT ![c] = new]
     /\ UNCHANGED Shared

Found(c) == entry[client[c].key]

\* An audited permission check does not look.
Look(c) ==
  /\ client[c].pc = "look"
  /\ \/ /\ Found(c).left > 0
        /\ Update(c, [client[c] EXCEPT !.pc = "answer", !.answer = Found(c).value,
                                       !.why = Found(c).why])
     \/ /\ Found(c).left = 0 \/ kind = "permission"
        /\ Update(c, [client[c] EXCEPT !.pc = "evaluate"])
  /\ UNCHANGED <<version, newest, entry>> /\ UNCHANGED Shared

Remembers(c) == kind = "permission" /\ client[c].memo # Unknown

\* The resolver reads the data; _evaluate_permission what the user object
\* remembers of it, if this request asked before.
Evaluate(c) ==
  LET answer == IF Remembers(c) THEN client[c].memo ELSE data
      why == IF client[c].why # "none" THEN client[c].why
             ELSE IF Remembers(c) /\ answer < data THEN "memo"
             ELSE IF change.pc = "commit" THEN "uncommitted" ELSE "none"
  IN /\ client[c].pc = "evaluate"
     /\ Update(c, [client[c] EXCEPT !.pc = IF kind = "query" THEN "stamp" ELSE "store",
                                    !.answer = answer, !.why = why,
                                    !.memo = IF kind = "query" THEN @ ELSE answer])
     /\ UNCHANGED <<version, newest, entry>> /\ UNCHANGED Shared

\* optimize_query reads the version again for the key it stores under; it is
\* there, since the uuid of the first reading stays.
Stamp(c) ==
  /\ client[c].pc = "stamp"
  /\ Update(c, [client[c] EXCEPT !.pc = "store", !.key = Current,
                !.why = IF client[c].key # Current THEN "reread" ELSE @])
  /\ UNCHANGED <<version, newest, entry>> /\ UNCHANGED Shared

Stored(c, left) == [value |-> client[c].answer, left |-> left, why |-> client[c].why]

\* Mutant of Store: the lifetime is rounded up.
StoreLonger(c) ==
  /\ client[c].pc = "store"
  /\ entry' = [entry EXCEPT ![client[c].key] = Stored(c, Ttl + 1)]
  /\ Update(c, [client[c] EXCEPT !.pc = "answer"])
  /\ UNCHANGED <<version, newest>> /\ UNCHANGED Shared
\* A result that is None or a queryset is not stored.
Store(c) ==
  /\ client[c].pc = "store"
  /\ \/ entry' = [entry EXCEPT ![client[c].key] = Stored(c, Ttl)]
     \/ kind = "query" /\ UNCHANGED entry
  /\ Update(c, [client[c] EXCEPT !.pc = "answer"])
  /\ UNCHANGED <<version, newest>> /\ UNCHANGED Shared

\* The request asks again, or ends.
Answer(c) ==
  /\ client[c].pc = "answer"
  /\ \E more \in BOOLEAN :
       /\ more => client[c].checks > 1
       /\ Update(c, IF more THEN [Idle EXCEPT !.pc = "key", !.checks = client[c].checks - 1,
                                    !.floor = client[c].floor, !.memo = client[c].memo]
                    ELSE Idle)
  /\ UNCHANGED <<version, newest, entry>> /\ UNCHANGED Shared

Less(left) == IF left = 0 THEN 0 ELSE left - 1

\* Mutant of Expire: entries do not expire.
ExpireVersion ==
  /\ kind = "permission" /\ version.left > 0
  /\ version' = [version EXCEPT !.left = Less(@)]
  /\ UNCHANGED <<newest, entry, client>> /\ UNCHANGED Shared
\* Time passes; a uuid in the memory of the process does not expire.
Expire ==
  /\ \/ kind = "permission" /\ version.left > 0
     \/ \E v \in Version : entry[v].left > 0
  /\ version' = IF kind = "permission"
                THEN [version EXCEPT !.left = Less(@)] ELSE version
  /\ entry' = [v \in Version |-> IF entry[v].left < 2 THEN NoEntry
                                 ELSE [entry[v] EXCEPT !.left = Less(@)]]
  /\ UNCHANGED <<newest, client>> /\ UNCHANGED Shared
-----------------------------------------------------------------------------
Ask(c) ==
  \/ Key(c) \/ KeyMissing(c) \/ SetFirst(c) \/ Look(c)
  \/ Evaluate(c) \/ Stamp(c) \/ Store(c) \/ Answer(c)

CacheNext ==
  \/ \E atomic \in BOOLEAN, bumps \in 1 .. MaxBumps : Change(atomic, bumps)
  \/ Invalidate \/ IncrFails \/ GetVersion \/ SetNext \/ Commit \/ Rollback
  \/ \E c \in Clients : Begin(c) \/ Ask(c)
  \/ Expire

\* Time passes, and a request that runs runs on.
Fairness == WF_cacheVars(Expire) /\ \A c \in Clients : WF_cacheVars(Ask(c))

CacheSpec == CacheInit /\ [][CacheNext]_cacheVars /\ Fairness
-----------------------------------------------------------------------------
\* A request that began after a change was committed and announced gets an
\* answer that knows of it, unless the very answer it gets was put under too
\* new a version in one of five ways: a user object that remembers permissions
\* from before an invalidation stored them under the version after it; it was
\* computed between an invalidation inside a transaction and the commit; the
\* version expired, started again from 1 and met entries of before; a request
\* or an invalidation that had found no version wrote its number over a live
\* one; a query result was stored under a version read after it was computed.
StaleHasCause ==
  \A c \in Clients :
    client[c].pc = "answer" /\ client[c].answer < client[c].floor
      => client[c].why # "none"

\* Staleness ends: when the changes are over, the entries that tell of older
\* data expire and are not stored again.
StalenessEnds == <>[](\A v \in Version : entry[v].left > 0 => entry[v].value = data)
=============================================================================
