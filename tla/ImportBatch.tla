---------------------------- MODULE ImportBatch ----------------------------
(***************************************************************************)
(* The data import of rail_django/extensions/importing: the life of one    *)
(* staged batch, from createModelImportBatch over any number of            *)
(* updateModelImportBatch requests (PATCH_ROWS, VALIDATE, SIMULATE,        *)
(* COMMIT) to deleteModelImportBatch.  One client edits the batch and      *)
(* waits for each answer; meanwhile another may delete the batch, and the  *)
(* rest of the application writes the target model.  (RowEdits has several *)
(* clients editing one batch.)                                             *)
(*                                                                         *)
(* An action is one autocommit write or one transaction of the request;    *)
(* what the request keeps in Python between two of them is work.  A        *)
(* transaction that looks at the target model row by row, or writes it row *)
(* by row, has a step per row, because at READ COMMITTED the application's *)
(* transactions commit in between.                                         *)
(*                                                                         *)
(* Data is abstracted to what decides control: a row's values are its      *)
(* matching key and their fate ("bad" is caught by row validation), a      *)
(* counter is the set of rows it counts, and updated_at > executed_at is   *)
(* the flag changed.                                                       *)
(***************************************************************************)
EXTENDS Integers

CONSTANTS Rows,         \* row numbers of the uploaded file
          Keys, NoKey,  \* matching key values, and none (blank or incomplete)
          Inputs,       \* the row values clients upload or patch in
          KeyStored,    \* the key is an ordinary unique field a create stores,
                        \* FALSE: it is the primary key, which a create strips
          MaxRequests   \* bound: requests served in one behaviour

Fates == {"good", "bad"}
Values == [key : Keys \cup {NoKey}, fate : Fates]

ASSUME RowsAssumption == Rows \subseteq Nat
ASSUME InputsAssumption == Inputs \subseteq Values /\ Inputs # {}
ASSUME KeysAssumption == NoKey \notin Keys
ASSUME FlagAssumption == KeyStored \in BOOLEAN
ASSUME BoundAssumption == MaxRequests \in Nat

VARIABLES
  batch,     \* the ImportBatch record
  staged,    \* the rows of the batch that exist in ImportRow
  rows,      \* their contents
  issues,    \* ERROR issues: <<row, stage>>, row FK null is WholeBatch
  snapshot,  \* the latest ImportSimulationSnapshot
  changed,   \* some row's updated_at is later than snapshot's executed_at
  target,    \* the matching keys of the target model's records
  written,   \* history: rows whose normalized values are in the target
  halfway,   \* history: a worker died with a failure recorded as an issue but
             \* not as a status, and no status was saved since
  pc, work,  \* the request: its position and its Python state
  served     \* requests begun so far

database == <<batch, staged, rows, issues, snapshot, changed, target, written, halfway>>
vars == <<database, pc, work, served>>
-----------------------------------------------------------------------------
WholeBatch == -1

BatchStatus == {"NONE", "UPLOADED", "PARSED", "REVIEWING", "VALIDATION_FAILED",
                "VALIDATED", "SIMULATION_FAILED", "SIMULATED", "COMMITTED",
                "FAILED", "DELETED"}
RowAction == {"CREATE", "UPDATE"}
RowStatus == {"VALID", "INVALID", "COMMITTED"}
Stages == {"PARSE", "EDIT", "VALIDATE", "COMMIT"}

Batch == [status : BatchStatus, invalid : SUBSET Rows, create : SUBSET Rows,
          update : SUBSET Rows, committed : SUBSET Rows]
Row == [edited : Inputs, normal : Inputs, action : RowAction, status : RowStatus]
Snapshot == [taken : BOOLEAN, can_commit : BOOLEAN,
             create : SUBSET Rows, update : SUBSET Rows]
Looking == {"stage", "resave", "validate"}
Positions == Looking \cup
  {"idle", "parse", "count", "review", "revalidate", "recount", "simulate",
   "check", "compare", "read", "write", "failed", "recorded"}
Work == [seen : SUBSET Rows, todo : SUBSET Rows, mine : SUBSET Rows,
         read : [Rows -> Row]]

Blank == LET v == CHOOSE v \in Inputs : TRUE
         IN [edited |-> v, normal |-> v, action |-> "CREATE", status |-> "VALID"]
NoRows == [r \in Rows |-> Blank]
NoSnapshot == [taken |-> FALSE, can_commit |-> FALSE, create |-> {}, update |-> {}]
Fresh == [seen |-> {}, todo |-> {}, mine |-> {}, read |-> NoRows]

TypeOK ==
  /\ batch \in Batch
  /\ staged \in SUBSET Rows
  /\ rows \in [Rows -> Row]
  /\ issues \in SUBSET ((Rows \cup {WholeBatch}) \X Stages)
  /\ snapshot \in Snapshot
  /\ changed \in BOOLEAN
  /\ target \in SUBSET Keys
  /\ written \in SUBSET Rows
  /\ halfway \in BOOLEAN
  /\ pc \in Positions
  /\ work \in Work
  /\ served \in Nat

Exists == batch.status \notin {"NONE", "DELETED"}

Init ==
  /\ batch = [status |-> "NONE", invalid |-> {}, create |-> {}, update |-> {},
              committed |-> {}]
  /\ staged = {} /\ rows = NoRows /\ issues = {}
  /\ snapshot = NoSnapshot /\ changed = FALSE
  /\ target \in SUBSET Keys /\ written = {} /\ halfway = FALSE
  /\ pc = "idle" /\ work = Fresh
  /\ served = 0
-----------------------------------------------------------------------------
(* Requests *)

\* The client sends a request: the handler starts.
Begin == pc = "idle" /\ served < MaxRequests /\ served' = served + 1

\* The request returns: its Python state is gone.
Return == pc' = "idle" /\ work' = Fresh

\* The request goes on to position p with Python state w.
Continue(p, w) == pc' = p /\ work' = w

(* Row services *)

\* The action _matching_key_for_row derives for values v.
ActionFor(v) == IF v.key \in target THEN "UPDATE" ELSE "CREATE"

\* Mutant of Synced: rows without issues become READY.
SyncedReady(table, found) ==
  [r \in Rows |-> [table[r] EXCEPT !.status =
     IF \E s \in Stages : <<r, s>> \in found THEN "INVALID" ELSE "READY"]]
\* Mutant of Synced: the PARSE issues of a row are not counted.
SyncedWithoutParse(table, found) ==
  [r \in Rows |-> [table[r] EXCEPT !.status =
     IF \E s \in Stages \ {"PARSE"} : <<r, s>> \in found THEN "INVALID" ELSE "VALID"]]
\* The statuses sync_row_issue_state writes to every row, given the issues.
Synced(table, found) ==
  [r \in Rows |-> [table[r] EXCEPT !.status =
     IF \E s \in Stages : <<r, s>> \in found THEN "INVALID" ELSE "VALID"]]

\* The rows of the batch with a given status or action.
WithStatus(s) == {r \in staged : rows[r].status = s}
WithAction(a) == {r \in staged : rows[r].action = a}

\* The counters recompute_batch_counters stores, for given row contents.
Recounted(table) ==
  [batch EXCEPT !.invalid = {r \in staged : table[r].status = "INVALID"},
                !.create = {r \in staged : table[r].action = "CREATE"},
                !.update = {r \in staged : table[r].action = "UPDATE"}]

\* Rows are worked on in the order of their numbers.
First(S) == CHOOSE m \in S : \A n \in S : m <= n

\* One turn of a loop over rows that looks the matching key up in the target.
LookUp ==
  /\ pc \in Looking /\ work.todo # {}
  /\ LET r == First(work.todo)
         found == [work.read[r] EXCEPT !.action = ActionFor(work.read[r].normal)]
     IN Continue(pc, [work EXCEPT !.todo = @ \ {r},
                                  !.read = [@ EXCEPT ![r] = found]])
  /\ UNCHANGED <<database, served>>
-----------------------------------------------------------------------------
(* createModelImportBatch *)

\* create_import_batch: the batch exists and is UPLOADED before its file is parsed.
Upload ==
  /\ Begin /\ batch.status = "NONE"
  /\ batch' = [batch EXCEPT !.status = "UPLOADED"]
  /\ Continue("parse", Fresh)
  /\ UNCHANGED <<staged, rows, issues, snapshot, changed, target, written, halfway>>

\* The file cannot be parsed: a batch level PARSE issue.
ParseFails ==
  /\ pc = "parse" /\ Exists
  /\ issues' = issues \cup {<<WholeBatch, "PARSE">>}
  /\ Continue("recorded", Fresh)
  /\ UNCHANGED <<batch, staged, rows, snapshot, changed, target, written, halfway, served>>

\* parse_uploaded_file: the lines of the file are about to be staged.
Parse ==
  /\ pc = "parse"
  /\ \E lines \in {{}, Rows}, file \in [Rows -> Inputs] :
       LET parsed == [r \in Rows |-> IF r \in lines
                       THEN [edited |-> file[r], normal |-> file[r],
                             action |-> "CREATE", status |-> "VALID"]
                       ELSE Blank]
       IN Continue("stage", [Fresh EXCEPT !.todo = lines, !.mine = lines, !.read = parsed])
  /\ UNCHANGED <<database, served>>

\* stage_parsed_rows: replaces rows and issues; row errors are PARSE issues.
Stage ==
  /\ pc = "stage" /\ work.todo = {} /\ Exists
  /\ LET found == {<<r, "PARSE">> : r \in {l \in work.mine : work.read[l].edited.fate = "bad"}}
     IN rows' = Synced(work.read, found) /\ issues' = found
  /\ staged' = work.mine /\ changed' = (work.mine # {})
  /\ Continue("count", Fresh)
  /\ UNCHANGED <<batch, snapshot, target, written, halfway, served>>

\* recompute_batch_counters, which ends PATCH_ROWS; the status is left alone.
Recount ==
  /\ pc \in {"count", "recount"} /\ Exists
  /\ batch' = Recounted(rows)
  /\ IF pc = "count" THEN Continue("review", Fresh) ELSE Return
  /\ UNCHANGED <<staged, rows, issues, snapshot, changed, target, written, halfway, served>>

\* The status after an upload: REVIEWING, or PARSED for no row.
Review ==
  /\ pc = "review" /\ Exists
  /\ batch' = [batch EXCEPT !.status = IF staged # {} THEN "REVIEWING" ELSE "PARSED"]
  /\ halfway' = FALSE
  /\ Return
  /\ UNCHANGED <<staged, rows, issues, snapshot, changed, target, written, served>>
-----------------------------------------------------------------------------
(* updateModelImportBatch: PATCH_ROWS *)

\* patch_import_rows: new edited values; unknown row numbers are skipped.
PatchRows ==
  /\ Begin /\ Exists
  /\ \E S \in SUBSET Rows : \E patch \in [S -> Inputs] :
       LET touched == S \cap staged
       IN /\ rows' = [r \in Rows |-> IF r \in touched
                       THEN [rows[r] EXCEPT !.edited = patch[r]] ELSE rows[r]]
          /\ batch' = IF touched # {} THEN [batch EXCEPT !.status = "REVIEWING"]
                      ELSE batch
          /\ changed' = (changed \/ touched # {})
          /\ halfway' = (halfway /\ touched = {})
          /\ Continue("revalidate", [Fresh EXCEPT !.mine = touched])
  /\ UNCHANGED <<staged, issues, snapshot, target, written>>

\* validate_patched_rows reads the touched rows again, in a transaction of its
\* own; their normalized values follow the edited ones.
ReadTouched ==
  /\ pc = "revalidate"
  /\ LET touched == work.mine \cap staged
         fresh == [r \in Rows |-> [rows[r] EXCEPT !.normal = rows[r].edited]]
     IN Continue("resave", [Fresh EXCEPT !.todo = touched, !.mine = touched, !.read = fresh])
  /\ UNCHANGED <<database, served>>

\* Its end: EDIT issues replace EDIT and VALIDATE ones of the touched rows, PARSE
\* issues stay; every row's status is recomputed and saved.  A row that is gone
\* cannot be saved.
Revalidate ==
  /\ pc = "resave" /\ work.todo = {} /\ Exists /\ work.mine \subseteq staged
  /\ LET saved == [r \in Rows |-> IF r \in work.mine
                    THEN [rows[r] EXCEPT !.normal = work.read[r].normal,
                                         !.action = work.read[r].action]
                    ELSE rows[r]]
         found == (issues \ (work.mine \X {"EDIT", "VALIDATE"}))
                    \cup {<<r, "EDIT">> : r \in
                            {m \in work.mine : work.read[m].edited.fate = "bad"}}
     IN /\ rows' = Synced(saved, found)
        /\ issues' = found
        /\ written' = {r \in written : saved[r].normal = rows[r].normal}
  /\ changed' = (changed \/ staged # {})
  /\ Continue("recount", Fresh)
  /\ UNCHANGED <<batch, staged, snapshot, target, halfway, served>>
-----------------------------------------------------------------------------
(* updateModelImportBatch: VALIDATE and SIMULATE *)

\* get_import_batch: invalid_rows is as loaded here.
Load ==
  /\ Begin /\ Exists
  /\ \E p \in {"validate", "simulate", "check"} :
       Continue(p, [Fresh EXCEPT !.seen = batch.invalid, !.read = rows,
                                 !.todo = IF p = "validate" THEN staged ELSE {}])
  /\ UNCHANGED database

\* The rows whose matching key another row of the batch has as well.
Duplicates == {r \in staged : \E s \in staged \ {r} :
                 /\ rows[r].normal.key # NoKey
                 /\ rows[r].normal.key = rows[s].normal.key}

\* The end of validate_dataset, one transaction, whatever the batch's status is.
Validate ==
  /\ pc = "validate" /\ work.todo = {} /\ Exists
  /\ LET found == {i \in issues : i[2] # "VALIDATE"}
                    \cup {<<r, "VALIDATE">> : r \in Duplicates}
         acted == [r \in Rows |-> [rows[r] EXCEPT !.action = work.read[r].action]]
         synced == Synced(acted, found)
         counted == Recounted(synced)
     IN /\ issues' = found
        /\ rows' = synced
        /\ batch' = [counted EXCEPT !.status =
                       IF counted.invalid # {} THEN "VALIDATION_FAILED" ELSE "VALIDATED"]
  /\ changed' = (changed \/ staged # {})
  /\ halfway' = FALSE
  /\ Return
  /\ UNCHANGED <<staged, snapshot, target, written, served>>

\* Mutant of BlockingErrors: only the issues that point at a row.
BlockingRowErrors == {i \in issues : i[1] # WholeBatch}
\* blocking_errors: the ERROR issues of the batch, of any stage.
BlockingErrors == issues

\* run_simulation: every ERROR issue of the batch blocks, and so does the
\* loaded invalid_rows.
Simulate ==
  /\ pc = "simulate" /\ Exists
  /\ LET ready == WithStatus("VALID")
         can_commit == BlockingErrors = {} /\ work.seen = {}
         create == ready \cap WithAction("CREATE")
         update == ready \cap WithAction("UPDATE")
     IN /\ snapshot' = [taken |-> TRUE, can_commit |-> can_commit,
                        create |-> create, update |-> update]
        /\ batch' = [batch EXCEPT !.create = create, !.update = update, !.status =
                       IF can_commit THEN "SIMULATED" ELSE "SIMULATION_FAILED"]
  /\ changed' = FALSE /\ halfway' = FALSE
  /\ Return
  /\ UNCHANGED <<staged, rows, issues, target, written, served>>
-----------------------------------------------------------------------------
(* updateModelImportBatch: COMMIT *)

\* The first half of COMMIT's gate: the latest simulation succeeded.
Simulated == snapshot.taken /\ snapshot.can_commit
CheckSnapshot ==
  /\ pc = "check"
  /\ IF Simulated THEN Continue("compare", work) ELSE Return
  /\ UNCHANGED <<database, served>>

\* Mutant of Unchanged: the latest row update is not looked at.
UnchangedAlways == TRUE
\* The second half: no row was updated since.
Unchanged == ~changed
CompareTimes ==
  /\ pc = "compare"
  /\ IF Unchanged THEN Continue("read", work) ELSE Return
  /\ UNCHANGED <<database, served>>

\* commit_batch refuses a batch loaded with invalid rows, else reads the valid ones.
ReadRows ==
  /\ pc = "read"
  /\ IF work.seen # {}
     THEN Continue("failed", Fresh)
     ELSE Continue("write", [work EXCEPT !.todo = WithStatus("VALID"),
                                         !.mine = WithStatus("VALID"), !.read = rows])
  /\ UNCHANGED <<database, served>>

\* The keys of the rows written so far by the open commit transaction: those it
\* created, which only its own queries see before it ends, and all that it holds.
Made(actions) == {work.read[r].normal.key : r \in
                    {d \in work.mine \ work.todo : work.read[d].action \in actions}}
                   \ {NoKey}
Created == IF KeyStored THEN Made({"CREATE"}) ELSE {}
Held == IF pc = "write" THEN Created \cup Made({"UPDATE"}) ELSE {}

\* The database can take row values w with action a.
Acceptable(w, a) ==
  LET visible == target \cup Created
  IN IF a = "UPDATE" THEN w.key \in visible ELSE ~KeyStored \/ w.key \notin visible

\* Mutant of Kept: without the transaction every record created so far stays.
KeptCreated == Created
\* The keys created so far that outlive a failing commit: @transaction.atomic
\* leaves none.
Kept == {}

\* One turn of commit_batch's loop writes the row.
WriteRow ==
  /\ pc = "write" /\ work.todo # {}
  /\ LET r == First(work.todo)
     IN /\ Acceptable(work.read[r].normal, work.read[r].action)
        /\ Continue("write", [work EXCEPT !.todo = @ \ {r}])
  /\ UNCHANGED <<database, served>>

\* An error of any kind in the loop, among them a value only the database
\* refuses and an abort by the database: the transaction is rolled back.
WriteFails ==
  /\ pc = "write" /\ work.todo # {}
  /\ Continue("failed", Fresh)
  /\ target' = target \cup Kept
  /\ UNCHANGED <<batch, staged, rows, issues, snapshot, changed, written, halfway, served>>

\* The rows become COMMITTED by a queryset update, which leaves updated_at
\* alone; the counters, COMMITTED and the writes themselves become visible.
\* Saving a batch that is gone raises, and the transaction is rolled back (Lost).
FinishCommit ==
  /\ pc = "write" /\ work.todo = {} /\ Exists
  /\ rows' = [r \in Rows |-> IF r \in work.mine
                THEN [rows[r] EXCEPT !.status = "COMMITTED"] ELSE rows[r]]
  /\ batch' = [batch EXCEPT !.status = "COMMITTED", !.committed = work.mine,
                 !.create = {r \in work.mine : work.read[r].action = "CREATE"},
                 !.update = {r \in work.mine : work.read[r].action = "UPDATE"}]
  /\ written' = written \cup work.mine
  /\ target' = target \cup Created
  /\ issues' = {i \in issues : i[2] # "COMMIT"}
  /\ halfway' = FALSE
  /\ Return
  /\ UNCHANGED <<staged, snapshot, changed, served>>

\* The except clause of mutate records the error as a batch level COMMIT issue.
RecordFailure ==
  /\ pc = "failed" /\ Exists
  /\ issues' = issues \cup {<<WholeBatch, "COMMIT">>}
  /\ Continue("recorded", Fresh)
  /\ UNCHANGED <<batch, staged, rows, snapshot, changed, target, written, halfway, served>>

\* After the issue of a failed upload or commit, the status FAILED.
SaveFailed ==
  /\ pc = "recorded" /\ Exists
  /\ batch' = [batch EXCEPT !.status = "FAILED"]
  /\ halfway' = FALSE
  /\ Return
  /\ UNCHANGED <<staged, rows, issues, snapshot, changed, target, written, served>>
-----------------------------------------------------------------------------
\* deleteModelImportBatch, of any client and at any time: rows, issues and
\* snapshots go with the batch.
Delete ==
  /\ Exists
  /\ batch' = [batch EXCEPT !.status = "DELETED"]
  /\ staged' = {} /\ issues' = {} /\ snapshot' = NoSnapshot /\ changed' = FALSE
  /\ rows' = NoRows /\ halfway' = FALSE
  /\ UNCHANGED <<target, written, pc, work, served>>

\* The batch a request works on was deleted: saving it or one of its rows, or
\* inserting what references it, raises; an open transaction rolls back and the
\* request ends.
Lost ==
  /\ \/ pc \in Looking \cup {"parse", "count", "review", "recount", "simulate",
                             "failed", "recorded"}
     \/ pc = "write" /\ work.todo = {}
  /\ ~Exists
  /\ Return
  /\ UNCHANGED <<database, served>>

\* The worker dies, or an error nobody catches ends the request; an open
\* transaction rolls back.
Crash ==
  /\ pc # "idle"
  /\ halfway' = (halfway \/ pc = "recorded")
  /\ Return
  /\ UNCHANGED <<batch, staged, rows, issues, snapshot, changed, target, written, served>>

\* The rest of the application creates or deletes a record of the target model,
\* unless the open commit holds it.
Elsewhere(k) ==
  /\ k \notin Held
  /\ target' = IF k \in target THEN target \ {k} ELSE target \cup {k}
  /\ UNCHANGED <<batch, staged, rows, issues, snapshot, changed, written, halfway, pc,
                 work, served>>
-----------------------------------------------------------------------------
Request == Upload \/ PatchRows \/ Load

\* The steps of a request already begun, other than its end by a crash.
Proceed ==
  \/ LookUp
  \/ ParseFails \/ Parse \/ Stage \/ Review
  \/ ReadTouched \/ Revalidate \/ Recount
  \/ Validate \/ Simulate
  \/ CheckSnapshot \/ CompareTimes \/ ReadRows
  \/ WriteRow \/ WriteFails \/ FinishCommit
  \/ RecordFailure \/ SaveFailed
  \/ Lost

Next ==
  \/ Request \/ Proceed \/ Delete \/ Crash
  \/ \E k \in Keys : Elsewhere(k)

Spec == Init /\ [][Next]_vars
-----------------------------------------------------------------------------
(* Properties *)

\* sync_row_issue_state ends every transaction that touches rows or row issues:
\* a VALID row has no ERROR issue of any stage, an INVALID one has at least one.
StatusFollowsIssues ==
  \A r \in staged :
    LET faulty == \E s \in Stages : <<r, s>> \in issues
    IN /\ rows[r].status = "VALID" => ~faulty
       /\ rows[r].status = "INVALID" => faulty

\* The only issue a SIMULATED batch may have: a failed commit's, while or after
\* its worker died before saving FAILED.
Unsaved == IF pc = "recorded" \/ halfway THEN {<<WholeBatch, "COMMIT">>} ELSE {}
SimulatedIsClean ==
  batch.status = "SIMULATED" => issues \subseteq Unsaved /\ WithStatus("INVALID") = {}
CommittedIsComplete == batch.status = "COMMITTED" => staged \subseteq written
\* A batch shown as SIMULATED has no INVALID row and no ERROR issue left, but for
\* that of a failed commit whose worker has not come to save FAILED; one shown as
\* COMMITTED has had the values of each of its staged rows written to the target
\* model ("Batch still contains invalid rows." otherwise), whatever was patched,
\* refused, crashed or failed before.
StatusIsEarned == SimulatedIsClean /\ CommittedIsComplete

\* A COMMIT that writes anything creates and updates exactly the rows that the
\* latest simulation announced, although the target model may have changed since.
SimulatedWrites ==
  pc = "write" /\ pc' # "write" /\ batch' # batch /\ batch'.committed # {} =>
      batch'.create = snapshot.create /\ batch'.update = snapshot.update
CommitsWhatWasSimulated == [][SimulatedWrites]_vars

\* The import is applied as a whole or not at all, and reported: if a commit
\* leaves a record behind, every staged row of the batch is COMMITTED and so is
\* the batch, which was not deleted while the commit ran.
AppliedWhole ==
  pc = "write" /\ pc' # "write" /\ target' # target =>
    /\ batch'.status = "COMMITTED"
    /\ \A r \in staged' : rows'[r].status = "COMMITTED"
AllOrNothing == [][AppliedWhole]_vars

\* Why StatusFollowsIssues is inductive: a commit deletes COMMIT issues without
\* recomputing statuses, which is safe because no row issue has that stage.
RowIssuesPlaced ==
  \A r \in Rows, s \in Stages :
    <<r, s>> \in issues => r \in staged /\ s # "COMMIT"

\* Why the other properties are inductive: where the request is tells what the
\* batch, the snapshot and the rows look like, unless the batch was deleted.
Committable == Simulated /\ Unchanged
RequestInv == Exists =>
  /\ pc \in {"parse", "stage", "count", "review"} =>
       batch.status = "UPLOADED" /\ ~snapshot.taken
  /\ pc \in {"parse", "stage"} => staged = {} /\ issues = {}
  /\ pc \in {"revalidate", "resave"} => work.mine = {} \/ batch.status = "REVIEWING"
  /\ pc = "compare" => Simulated
  /\ pc \in {"read", "write"} => Committable
  /\ pc = "write" => work.read = rows /\ work.mine = WithStatus("VALID")
GateInv ==
  /\ ~Exists => staged = {} /\ issues = {} /\ ~snapshot.taken
  /\ batch.status = "SIMULATED" => issues \subseteq Unsaved
  /\ Committable =>
       /\ WithStatus("INVALID") = {}
       /\ \/ WithStatus("VALID") = {}
          \/ /\ snapshot.create = WithStatus("VALID") \cap WithAction("CREATE")
             /\ snapshot.update = WithStatus("VALID") \cap WithAction("UPDATE")
  /\ WithStatus("COMMITTED") \subseteq written
  /\ CommittedIsComplete
=============================================================================
