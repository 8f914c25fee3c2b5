------------------------------ MODULE RowEdits ------------------------------
(***************************************************************************)
(* Several clients of rail_django/extensions/importing that edit the rows  *)
(* of one staged batch at once: PATCH_ROWS requests, each a transaction    *)
(* that patches rows (patch_import_rows) and then one that revalidates     *)
(* them (validate_patched_rows), statement by statement at PostgreSQL's    *)
(* READ COMMITTED.                                                         *)
(*                                                                         *)
(* A transaction sees what others have committed and its own writes; its   *)
(* writes, kept in work[c], are applied when it commits, and the rows it   *)
(* wrote are locked until then.  Two clients may wait for each other: the  *)
(* database then aborts one of them.                                       *)
(*                                                                         *)
(* A row is its edited values, the normalized ones a commit would write,   *)
(* and its status.  The matching key and the action follow the normalized  *)
(* values, and the counters that end the request follow the rows; both are *)
(* in ImportBatch, with the other requests.                                *)
(***************************************************************************)
EXTENDS Integers

CONSTANTS Clients, NoClient,  \* request threads, and nobody
          Rows,               \* row numbers of the batch
          Inputs, Bad,        \* row values, and those that fail validation
          MaxRequests         \* bound: requests served in one behaviour

ASSUME EditorsAssumption == NoClient \notin Clients
ASSUME RowsAssumption == Rows \subseteq Nat
ASSUME InputsAssumption == Bad \subseteq Inputs
ASSUME BoundAssumption == MaxRequests \in Nat

VARIABLES
  rows,      \* committed: [Rows -> [edited, normal : Inputs, status : RowStatus]]
  issues,    \* committed: <<row, n>>, an EDIT issue of the n-th request, 0: PARSE
  holder,    \* who holds the lock of each row, in Clients \cup {NoClient}
  pc, work,  \* per client: position in its request, and its state
  served,    \* requests begun so far
  disturbed, \* history: rows patched while a revalidation that had read them was
             \* under way, or whose own revalidation was aborted
  mixed      \* history: the latest revalidation overlapped another one

vars == <<rows, issues, holder, pc, work, served, disturbed, mixed>>
-----------------------------------------------------------------------------
\* A client's state: its serial number, the rows it patches, those still to be
\* dealt with in a loop, their values as sent and later as read, the issues its
\* revalidation deletes, the statuses it writes, whether it ran alone so far.
Fresh == [serial |-> 0, mine |-> {}, todo |-> {}, values |-> <<>>, cleared |-> {},
          verdict |-> <<>>, alone |-> TRUE]

Init ==
  /\ \E file \in [Rows -> Inputs] :
       /\ rows = [r \in Rows |-> [edited |-> file[r], normal |-> file[r],
                    status |-> IF file[r] \in Bad THEN "INVALID" ELSE "VALID"]]
       /\ issues = {<<r, 0>> : r \in {l \in Rows : file[l] \in Bad}}
  /\ holder = [r \in Rows |-> NoClient]
  /\ pc = [c \in Clients |-> "idle"] /\ work = [c \in Clients |-> Fresh]
  /\ served = 0 /\ disturbed = {} /\ mixed = FALSE

\* Client c's revalidation is an open transaction that has read its rows.
Revalidating(c) == pc[c] \in {"select", "delete", "save", "count", "write"}

\* Client c takes the lock of row r, or waits until it is free.
Lock(c, r) == holder[r] \in {c, NoClient} /\ holder' = [holder EXCEPT ![r] = c]
\* The locks without those of client c, whose transaction ends.
Unlocked(c) == [r \in Rows |-> IF holder[r] = c THEN NoClient ELSE holder[r]]

\* Client c goes on to position p with state w.
Continue(c, p, w) == pc' = [pc EXCEPT ![c] = p] /\ work' = [work EXCEPT ![c] = w]

First(S) == CHOOSE m \in S : \A n \in S : m <= n
-----------------------------------------------------------------------------
(* patch_import_rows *)

\* A client sends new values for some rows.
Begin(c) ==
  /\ pc[c] = "idle" /\ served < MaxRequests /\ served' = served + 1
  /\ \E S \in SUBSET Rows \ {{}} : \E patch \in [S -> Inputs] :
       Continue(c, "patch", [Fresh EXCEPT !.serial = served', !.mine = S, !.todo = S,
                                          !.values = patch])
  /\ UNCHANGED <<rows, issues, holder, disturbed, mixed>>

\* select_for_update of one row, in the order the client sent them.
LockRow(c) ==
  /\ pc[c] = "patch"
  /\ \E r \in work[c].todo :
       Lock(c, r) /\ Continue(c, "patch", [work[c] EXCEPT !.todo = @ \ {r}])
  /\ UNCHANGED <<rows, issues, served, disturbed, mixed>>

\* The transaction commits: the rows have new edited values.
SavePatch(c) ==
  /\ pc[c] = "patch" /\ work[c].todo = {}
  /\ rows' = [r \in Rows |-> IF r \in work[c].mine
                THEN [rows[r] EXCEPT !.edited = work[c].values[r]] ELSE rows[r]]
  /\ holder' = Unlocked(c)
  /\ disturbed' = (disturbed \ work[c].mine) \cup
       {r \in work[c].mine : \E d \in Clients : Revalidating(d) /\ r \in work[d].mine}
  /\ Continue(c, "reread", work[c])
  /\ UNCHANGED <<issues, served, mixed>>
-----------------------------------------------------------------------------
(* validate_patched_rows *)

\* Mutant of Read: the rows are validated as they were sent.
Sent(c) == work[c].values
\* The rows are read again, without a lock.
Read(c) == [r \in work[c].mine |-> rows[r].edited]

\* The revalidation begins; those under way are no longer alone.
Reread(c) ==
  /\ pc[c] = "reread"
  /\ pc' = [pc EXCEPT ![c] = "select"]
  /\ work' = [d \in Clients |->
       IF d = c
       THEN [work[c] EXCEPT !.values = Read(c),
                            !.alone = \A e \in Clients : ~Revalidating(e)]
       ELSE [work[d] EXCEPT !.alone = @ /\ ~Revalidating(d)]]
  /\ UNCHANGED <<rows, issues, holder, served, disturbed, mixed>>

\* The DELETE of the rows' EDIT issues finds those that are committed ...
SelectIssues(c) ==
  /\ pc[c] = "select"
  /\ LET found == {i \in issues : i[1] \in work[c].mine /\ i[2] # 0}
     IN Continue(c, "delete", [work[c] EXCEPT !.cleared = found])
  /\ UNCHANGED <<rows, issues, holder, served, disturbed, mixed>>

\* ... and waits for another transaction that deletes one of them.
DeleteIssues(c) ==
  /\ pc[c] = "delete"
  /\ \A d \in Clients \ {c} :
       pc[d] \in {"save", "count", "write"} => work[d].cleared \cap work[c].cleared = {}
  /\ Continue(c, "save", [work[c] EXCEPT !.cleared = @ \cap issues, !.todo = work[c].mine])
  /\ UNCHANGED <<rows, issues, holder, served, disturbed, mixed>>

\* One turn of the loop that saves the normalized values of each row; after the
\* last, the new issues are inserted and sync_row_issue_state begins.
SaveRow(c) ==
  /\ pc[c] = "save"
  /\ LET r == First(work[c].todo)
         left == work[c].todo \ {r}
     IN /\ Lock(c, r)
        /\ IF left # {} THEN Continue(c, "save", [work[c] EXCEPT !.todo = left])
           ELSE Continue(c, "count", [work[c] EXCEPT !.todo = Rows])
  /\ UNCHANGED <<rows, issues, served, disturbed, mixed>>

\* The issues client c's transaction creates, and all it sees.
Own(c) == {<<r, work[c].serial>> : r \in {m \in work[c].mine : work[c].values[m] \in Bad}}
Seen(c) == (issues \ work[c].cleared) \cup Own(c)

\* Mutant of Counted: statuses are recomputed before the issues are created.
CountedBeforeCreate(c) == issues \ work[c].cleared
\* The issues sync_row_issue_state counts.
Counted(c) == Seen(c)

\* For each row of the batch the issues are counted ...
CountIssues(c) ==
  /\ pc[c] = "count" /\ work[c].todo # {}
  /\ LET r == First(work[c].todo)
         status == IF \E i \in Counted(c) : i[1] = r THEN "INVALID" ELSE "VALID"
         verdict == [s \in (Rows \ work[c].todo) \cup {r} |->
                       IF s = r THEN status ELSE work[c].verdict[s]]
     IN Continue(c, "write", [work[c] EXCEPT !.verdict = verdict])
  /\ UNCHANGED <<rows, issues, holder, served, disturbed, mixed>>

\* ... and then its status is saved.
WriteStatus(c) ==
  /\ pc[c] = "write"
  /\ LET r == First(work[c].todo)
     IN Lock(c, r) /\ Continue(c, "count", [work[c] EXCEPT !.todo = @ \ {r}])
  /\ UNCHANGED <<rows, issues, served, disturbed, mixed>>

\* The revalidation commits.
Commit(c) ==
  /\ pc[c] = "count" /\ work[c].todo = {}
  /\ rows' = [r \in Rows |->
       [edited |-> rows[r].edited, status |-> work[c].verdict[r],
        normal |-> IF r \in work[c].mine THEN work[c].values[r] ELSE rows[r].normal]]
  /\ issues' = Seen(c)
  /\ holder' = Unlocked(c)
  /\ mixed' = ~work[c].alone
  /\ Continue(c, "idle", Fresh)
  /\ UNCHANGED <<served, disturbed>>
-----------------------------------------------------------------------------
\* The worker dies, or the database aborts the transaction, which it does when
\* two wait for each other: the open transaction is rolled back.
Abort(c) ==
  /\ pc[c] # "idle"
  /\ holder' = Unlocked(c)
  /\ disturbed' = disturbed \cup (IF pc[c] = "patch" THEN {} ELSE work[c].mine)
  /\ Continue(c, "idle", Fresh)
  /\ UNCHANGED <<rows, issues, served, mixed>>

Next == \E c \in Clients :
  \/ Begin(c) \/ LockRow(c) \/ SavePatch(c)
  \/ Reread(c) \/ SelectIssues(c) \/ DeleteIssues(c) \/ SaveRow(c)
  \/ CountIssues(c) \/ WriteStatus(c) \/ Commit(c)
  \/ Abort(c)

Spec == Init /\ [][Next]_vars
-----------------------------------------------------------------------------
(* Properties *)

\* Somebody has patched row r and has not revalidated it yet.
Pending(r) == \E c \in Clients : r \in work[c].mine /\ pc[c] \notin {"idle", "patch"}

\* Clients patching the same rows at once lose no edit: once no revalidation is
\* pending, the normalized values a COMMIT writes are those of the latest edit,
\* and the row has an issue if they are bad and no EDIT issue if they are not.
\* The exceptions are a row patched between another revalidation's reading and
\* its end, and a revalidation that was aborted; the next undisturbed patch of
\* the row ends them.
NoPatchLost ==
  \A r \in Rows \ disturbed : ~Pending(r) =>
    /\ rows[r].normal = rows[r].edited
    /\ IF rows[r].edited \in Bad THEN \E i \in issues : i[1] = r
       ELSE \A i \in issues : i[1] = r => i[2] = 0

\* A revalidation that overlapped no other one leaves every row of the batch,
\* not only its own, with the status its issues give it, whatever statuses the
\* overlapping ones before it had left.
StatusRepaired ==
  ~mixed => \A r \in Rows : rows[r].status = "INVALID" <=> \E i \in issues : i[1] = r
=============================================================================
