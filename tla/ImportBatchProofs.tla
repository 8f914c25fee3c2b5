------------------------- MODULE ImportBatchProofs -------------------------
(***************************************************************************)
(* Machine checked facts about ImportBatch, for any number of rows, keys   *)
(* and requests.                                                           *)
(***************************************************************************)
EXTENDS ImportBatch, TLAPS

USE RowsAssumption, InputsAssumption, KeysAssumption, FlagAssumption,
    BoundAssumption

-----------------------------------------------------------------------------
(* The operators the actions are built from *)

\* A row that was never staged has a value of the right type.
LEMMA BlankIsRow == Blank \in Row
BY DEF Blank, Row, RowAction, RowStatus

LEMMA FreshIsWork == Fresh \in Work /\ NoRows \in [Rows -> Row]
BY BlankIsRow DEF Fresh, Work, NoRows

\* Row revalidation derives one of the two actions.
LEMMA ActionIsAction == ASSUME NEW v PROVE ActionFor(v) \in RowAction
BY DEF ActionFor, RowAction

\* sync_row_issue_state: keeps the contents of every row and makes its status
\* VALID exactly when the row has no issue.
LEMMA SyncedRows ==
  ASSUME NEW table \in [Rows -> Row], NEW found
  PROVE  LET out == Synced(table, found) IN
         /\ out \in [Rows -> Row]
         /\ \A r \in Rows :
              /\ out[r].edited = table[r].edited
              /\ out[r].normal = table[r].normal
              /\ out[r].action = table[r].action
              /\ out[r].status = IF \E s \in Stages : <<r, s>> \in found
                                 THEN "INVALID" ELSE "VALID"
BY DEF Synced, Row, RowStatus

\* recompute_batch_counters touches the three counters only.
LEMMA RecountedBatch ==
  ASSUME TypeOK, NEW table
  PROVE  LET out == Recounted(table) IN
         /\ out \in Batch
         /\ out.status = batch.status /\ out.committed = batch.committed
         /\ out.invalid = {r \in staged : table[r].status = "INVALID"}
BY DEF Recounted, TypeOK, Batch

\* Where a request returns or goes on, the Python state stays well typed.
LEMMA PythonState ==
  /\ Return => pc' \in Positions /\ work' \in Work
  /\ \A p \in Positions, w \in Work : Continue(p, w) => pc' \in Positions /\ work' \in Work
<1>1. "idle" \in Positions
  BY DEF Positions
<1> QED BY <1>1, FreshIsWork DEF Return, Continue

\* The keys a commit transaction writes are matching keys, never the blank one.
LEMMA MadeKeys == ASSUME TypeOK, NEW A PROVE Made(A) \in SUBSET Keys
<1>1. work.mine \in SUBSET Rows /\ work.read \in [Rows -> Row]
  BY DEF TypeOK, Work
<1>2. \A r \in Rows : work.read[r].normal \in Values
  BY <1>1 DEF Row
<1>3. \A r \in Rows : work.read[r].normal.key \in Keys \cup {NoKey}
  BY <1>2 DEF Values
<1> QED BY <1>1, <1>3 DEF Made

LEMMA CreatedKeys == TypeOK => Created \in SUBSET Keys
BY MadeKeys DEF Created

\* What a lookup changes: the action it found for one row.
LEMMA LookUpEffect ==
  ASSUME TypeOK, LookUp
  PROVE  /\ UNCHANGED <<database, served>> /\ pc' = pc /\ pc \in Looking
         /\ work' \in Work /\ work'.mine = work.mine
<1> DEFINE r == First(work.todo)
           found == [work.read[r] EXCEPT !.action = ActionFor(work.read[r].normal)]
           table == [work.read EXCEPT ![r] = found]
           next == [work EXCEPT !.todo = @ \ {r}, !.read = table]
<1>1. UNCHANGED <<database, served>> /\ pc' = pc /\ pc \in Looking /\ work' = next
  BY DEF LookUp, Continue
<1>2. table \in [Rows -> Row]
  <2>1. r \in Rows => found \in Row
    BY ActionIsAction DEF TypeOK, Work, Row
  <2> HIDE DEF r, found
  <2> QED BY <2>1 DEF TypeOK, Work
<1> HIDE DEF r, table
<1>3. next \in Work /\ next.mine = work.mine
  BY <1>2 DEF TypeOK, Work
<1> QED BY <1>1, <1>3
-----------------------------------------------------------------------------
(* Type correctness *)

LEMMA TypeInit == Init => TypeOK
<1> SUFFICES ASSUME Init PROVE TypeOK
  OBVIOUS
<1>1. batch \in Batch
  BY DEF Init, Batch, BatchStatus
<1>2. snapshot \in Snapshot
  BY DEF Init, Snapshot, NoSnapshot
<1>3. rows \in [Rows -> Row] /\ work \in Work
  BY FreshIsWork DEF Init
<1>4. pc \in Positions
  BY DEF Init, Positions
<1> QED BY <1>1, <1>2, <1>3, <1>4 DEF Init, TypeOK

\* Type correctness is preserved by every step: one step of the proof per action.
LEMMA TypeStep == TypeOK /\ [Next]_vars => TypeOK'
<1> SUFFICES ASSUME TypeOK, [Next]_vars PROVE TypeOK'
  OBVIOUS
<1> USE DEF TypeOK, database
<1>0. {"UPLOADED", "FAILED", "REVIEWING", "PARSED", "VALIDATED", "VALIDATION_FAILED",
       "SIMULATED", "SIMULATION_FAILED", "COMMITTED", "DELETED"} \subseteq BatchStatus
  BY DEF BatchStatus
<1>p. Looking \subseteq Positions
      /\ {"idle", "parse", "count", "review", "revalidate", "recount", "simulate",
          "check", "compare", "read", "write", "failed", "recorded"} \subseteq Positions
  BY DEF Positions
<1>l. {"stage", "resave", "validate"} \subseteq Looking
  BY DEF Looking
<1>1. CASE Upload
  <2>1. batch' \in Batch
    BY <1>0, <1>1 DEF Upload, Batch
  <2>2. pc' \in Positions /\ work' \in Work
    BY <1>1, <1>p, FreshIsWork, PythonState DEF Upload
  <2> QED BY <1>1, <2>1, <2>2 DEF Upload, Begin
<1>2. CASE ParseFails
  <2>1. issues' \in SUBSET ((Rows \cup {WholeBatch}) \X Stages)
    BY <1>2 DEF ParseFails, Stages
  <2>2. pc' \in Positions /\ work' \in Work
    BY <1>2, <1>p, FreshIsWork, PythonState DEF ParseFails
  <2> QED BY <1>2, <2>1, <2>2 DEF ParseFails
<1>3. CASE Parse
  <2>1. PICK lines \in {{}, Rows}, file \in [Rows -> Inputs] :
          LET parsed == [r \in Rows |-> IF r \in lines
                          THEN [edited |-> file[r], normal |-> file[r],
                                action |-> "CREATE", status |-> "VALID"]
                          ELSE Blank]
          IN Continue("stage", [Fresh EXCEPT !.todo = lines, !.mine = lines, !.read = parsed])
    BY <1>3 DEF Parse
  <2> DEFINE parsed == [r \in Rows |-> IF r \in lines
                          THEN [edited |-> file[r], normal |-> file[r],
                                action |-> "CREATE", status |-> "VALID"]
                          ELSE Blank]
             next == [Fresh EXCEPT !.todo = lines, !.mine = lines, !.read = parsed]
  <2>2. parsed \in [Rows -> Row]
    BY BlankIsRow DEF Row, RowStatus, RowAction
  <2>3. Continue("stage", next)
    BY <2>1
  <2> HIDE DEF parsed
  <2>4. next \in Work
    BY <2>2, FreshIsWork DEF Work
  <2> HIDE DEF next
  <2>5. pc' \in Positions /\ work' \in Work
    BY <1>p, <1>l, <2>3, <2>4, PythonState
  <2> QED BY <1>3, <2>5 DEF Parse
<1>4. CASE Stage
  <2> DEFINE found == {<<r, "PARSE">> : r \in
                         {l \in work.mine : work.read[l].edited.fate = "bad"}}
  <2>1. work.read \in [Rows -> Row] /\ work.mine \in SUBSET Rows
    BY DEF Work
  <2>2. found \in SUBSET ((Rows \cup {WholeBatch}) \X Stages)
    BY <2>1 DEF Stages
  <2>3. rows' = Synced(work.read, found) /\ issues' = found
    BY <1>4 DEF Stage
  <2> HIDE DEF found
  <2>4. rows' \in [Rows -> Row]
    BY <2>1, <2>3, SyncedRows
  <2>5. pc' \in Positions /\ work' \in Work
    BY <1>4, <1>p, FreshIsWork, PythonState DEF Stage
  <2> QED BY <1>4, <2>1, <2>2, <2>3, <2>4, <2>5 DEF Stage
<1>5. CASE Recount
  <2>1. pc' \in Positions /\ work' \in Work
    BY <1>5, <1>p, FreshIsWork, PythonState DEF Recount
  <2> QED BY <1>5, <2>1, RecountedBatch DEF Recount
<1>6. CASE Review
  <2>1. batch' \in Batch
    BY <1>0, <1>6 DEF Review, Batch
  <2> QED BY <1>6, <2>1, PythonState DEF Review
<1>7. CASE PatchRows
  <2>0. PICK S \in SUBSET Rows : \E patch \in [S -> Inputs] :
          LET touched == S \cap staged
          IN /\ rows' = [r \in Rows |-> IF r \in touched
                          THEN [rows[r] EXCEPT !.edited = patch[r]] ELSE rows[r]]
             /\ batch' = IF touched # {} THEN [batch EXCEPT !.status = "REVIEWING"]
                         ELSE batch
             /\ changed' = (changed \/ touched # {})
             /\ halfway' = (halfway /\ touched = {})
             /\ Continue("revalidate", [Fresh EXCEPT !.mine = touched])
    BY <1>7 DEF PatchRows
  <2>1. PICK patch \in [S -> Inputs] :
          LET touched == S \cap staged
          IN /\ rows' = [r \in Rows |-> IF r \in touched
                          THEN [rows[r] EXCEPT !.edited = patch[r]] ELSE rows[r]]
             /\ batch' = IF touched # {} THEN [batch EXCEPT !.status = "REVIEWING"]
                         ELSE batch
             /\ changed' = (changed \/ touched # {})
             /\ halfway' = (halfway /\ touched = {})
             /\ Continue("revalidate", [Fresh EXCEPT !.mine = touched])
    BY <2>0
  <2>2. rows' \in [Rows -> Row]
    BY <2>1 DEF Row
  <2>3. batch' \in Batch
    BY <1>0, <2>1 DEF Batch
  <2>4. [Fresh EXCEPT !.mine = S \cap staged] \in Work
    BY FreshIsWork DEF Work
  <2>5. pc' \in Positions /\ work' \in Work
    BY <1>p, <2>1, <2>4, PythonState
  <2>6. changed' \in BOOLEAN /\ halfway' \in BOOLEAN
    BY <2>1
  <2> QED BY <1>7, <2>2, <2>3, <2>5, <2>6 DEF PatchRows, Begin
<1>8. CASE ReadTouched
  <2> DEFINE touched == work.mine \cap staged
             fresh == [r \in Rows |-> [rows[r] EXCEPT !.normal = rows[r].edited]]
             next == [Fresh EXCEPT !.todo = touched, !.mine = touched, !.read = fresh]
  <2>1. fresh \in [Rows -> Row]
    BY DEF Row
  <2>2. touched \in SUBSET Rows /\ Continue("resave", next)
    BY <1>8 DEF ReadTouched
  <2> HIDE DEF fresh, touched
  <2>3. next \in Work
    BY <2>1, <2>2, FreshIsWork DEF Work
  <2> HIDE DEF next
  <2>4. pc' \in Positions /\ work' \in Work
    BY <1>p, <1>l, <2>2, <2>3, PythonState
  <2> QED BY <1>8, <2>4 DEF ReadTouched
<1>9. CASE Revalidate
  <2> DEFINE saved == [r \in Rows |-> IF r \in work.mine
                        THEN [rows[r] EXCEPT !.normal = work.read[r].normal,
                                             !.action = work.read[r].action]
                        ELSE rows[r]]
             bad == {m \in work.mine : work.read[m].edited.fate = "bad"}
             found == (issues \ (work.mine \X {"EDIT", "VALIDATE"}))
                        \cup {<<r, "EDIT">> : r \in bad}
  <2>1. work.read \in [Rows -> Row] /\ work.mine \in SUBSET Rows
    BY DEF Work
  <2>2. saved \in [Rows -> Row]
    BY <2>1 DEF Row
  <2>3. rows' = Synced(saved, found) /\ issues' = found /\ written' \in SUBSET written
    BY <1>9 DEF Revalidate
  <2>4. issues' \in SUBSET ((Rows \cup {WholeBatch}) \X Stages)
    <3>1. bad \subseteq Rows
      BY <2>1
    <3> HIDE DEF bad
    <3>2. {<<r, "EDIT">> : r \in bad} \subseteq (Rows \cup {WholeBatch}) \X Stages
      BY <3>1 DEF Stages
    <3> QED BY <2>3, <3>2
  <2> HIDE DEF saved, found
  <2>5. rows' \in [Rows -> Row]
    BY <2>2, <2>3, SyncedRows
  <2>6. pc' \in Positions /\ work' \in Work
    BY <1>9, <1>p, FreshIsWork, PythonState DEF Revalidate
  <2> QED BY <1>9, <2>3, <2>4, <2>5, <2>6 DEF Revalidate
<1>10. CASE Load
  <2>1. PICK p \in {"validate", "simulate", "check"} :
          Continue(p, [Fresh EXCEPT !.seen = batch.invalid, !.read = rows,
                                    !.todo = IF p = "validate" THEN staged ELSE {}])
    BY <1>10 DEF Load
  <2> DEFINE next == [Fresh EXCEPT !.seen = batch.invalid, !.read = rows,
                                   !.todo = IF p = "validate" THEN staged ELSE {}]
  <2>2. next \in Work
    BY FreshIsWork DEF Work, Batch
  <2>3. p \in Positions /\ Continue(p, next)
    BY <2>1, <1>p, <1>l
  <2> HIDE DEF next
  <2>4. pc' \in Positions /\ work' \in Work
    BY <2>2, <2>3, PythonState
  <2> QED BY <1>10, <2>4 DEF Load, Begin
<1>11. CASE Validate
  <2> DEFINE found == {i \in issues : i[2] # "VALIDATE"}
                        \cup {<<r, "VALIDATE">> : r \in Duplicates}
             acted == [r \in Rows |-> [rows[r] EXCEPT !.action = work.read[r].action]]
  <2>1. acted \in [Rows -> Row]
    BY DEF Row, Work
  <2>2. rows' = Synced(acted, found) /\ issues' = found
    BY <1>11 DEF Validate
  <2>3. issues' \in SUBSET ((Rows \cup {WholeBatch}) \X Stages)
    BY <2>2 DEF Stages, Duplicates
  <2>4. Recounted(Synced(acted, found)) \in Batch
    BY RecountedBatch
  <2>5. batch' \in Batch
    BY <1>0, <1>11, <2>4 DEF Validate, Batch
  <2> HIDE DEF acted, found
  <2>6. rows' \in [Rows -> Row]
    BY <2>1, <2>2, SyncedRows
  <2> QED BY <1>11, <2>3, <2>5, <2>6, PythonState DEF Validate
<1>12. CASE Simulate
  <2>1. snapshot' \in Snapshot
    BY <1>12 DEF Simulate, Snapshot, WithStatus, WithAction
  <2>2. batch' \in Batch
    BY <1>0, <1>12 DEF Simulate, Batch, WithStatus, WithAction
  <2> QED BY <1>12, <2>1, <2>2, PythonState DEF Simulate
<1>13. CASE CheckSnapshot \/ CompareTimes
  <2>1. pc' \in Positions /\ work' \in Work
    BY <1>13, <1>p, PythonState DEF CheckSnapshot, CompareTimes
  <2> QED BY <1>13, <2>1 DEF CheckSnapshot, CompareTimes
<1>14. CASE ReadRows
  <2>1. [work EXCEPT !.todo = WithStatus("VALID"), !.mine = WithStatus("VALID"),
                     !.read = rows] \in Work
    BY DEF Work, WithStatus
  <2>2. pc' \in Positions /\ work' \in Work
    BY <1>14, <1>p, <2>1, FreshIsWork, PythonState DEF ReadRows
  <2> QED BY <1>14, <2>2 DEF ReadRows
<1>15. CASE WriteRow
  <2>1. \A r : [work EXCEPT !.todo = @ \ {r}] \in Work
    BY DEF Work
  <2>2. pc' \in Positions /\ work' \in Work
    BY <1>15, <1>p, <2>1, PythonState DEF WriteRow
  <2> QED BY <1>15, <2>2 DEF WriteRow
<1>16. CASE WriteFails
  <2>1. pc' \in Positions /\ work' \in Work
    BY <1>16, <1>p, FreshIsWork, PythonState DEF WriteFails
  <2> QED BY <1>16, <2>1 DEF WriteFails, Kept
<1>17. CASE FinishCommit
  <2>1. work.mine \in SUBSET Rows /\ work.read \in [Rows -> Row]
    BY DEF Work
  <2>2. rows' \in [Rows -> Row]
    BY <1>17, <2>1 DEF FinishCommit, Row, RowStatus
  <2>3. batch' \in Batch
    BY <1>0, <1>17, <2>1 DEF FinishCommit, Batch
  <2>4. target' \in SUBSET Keys
    BY <1>17, CreatedKeys DEF FinishCommit
  <2> QED BY <1>17, <2>1, <2>2, <2>3, <2>4, PythonState DEF FinishCommit
<1>18. CASE RecordFailure
  <2>1. issues' \in SUBSET ((Rows \cup {WholeBatch}) \X Stages)
    BY <1>18 DEF RecordFailure, Stages
  <2>2. pc' \in Positions /\ work' \in Work
    BY <1>18, <1>p, FreshIsWork, PythonState DEF RecordFailure
  <2> QED BY <1>18, <2>1, <2>2 DEF RecordFailure
<1>19. CASE SaveFailed
  <2>1. batch' \in Batch
    BY <1>0, <1>19 DEF SaveFailed, Batch
  <2> QED BY <1>19, <2>1, PythonState DEF SaveFailed
<1>20. CASE Delete
  <2>1. batch' \in Batch
    BY <1>0, <1>20 DEF Delete, Batch
  <2>2. snapshot' \in Snapshot
    BY <1>20 DEF Delete, NoSnapshot, Snapshot
  <2>3. rows' \in [Rows -> Row]
    BY <1>20, FreshIsWork DEF Delete
  <2> QED BY <1>20, <2>1, <2>2, <2>3 DEF Delete
<1>21. CASE Lost \/ Crash
  BY <1>21, PythonState DEF Lost, Crash
<1>22. ASSUME NEW k \in Keys, Elsewhere(k) PROVE TypeOK'
  BY <1>22 DEF Elsewhere
<1>23. CASE LookUp
  BY <1>23, LookUpEffect
<1>24. CASE UNCHANGED vars
  BY <1>24 DEF vars
<1> QED
  BY <1>1, <1>2, <1>3, <1>4, <1>5, <1>6, <1>7, <1>8, <1>9, <1>10, <1>11, <1>12, <1>13,
     <1>14, <1>15, <1>16, <1>17, <1>18, <1>19, <1>20, <1>21, <1>22, <1>23, <1>24
  DEF Next, Request, Proceed

\* Every variable keeps its type, for all values of the constants.
THEOREM TypeCorrect == Spec => []TypeOK
BY TypeInit, TypeStep, PTL DEF Spec
-----------------------------------------------------------------------------
(* The invariant: the status of a row tells whether it has errors, and where *)
(* the request is tells what it may do next.                                 *)

RowInv == TypeOK /\ StatusFollowsIssues /\ RowIssuesPlaced
ImportInv == RowInv /\ RequestInv /\ GateInv

\* A transaction that ends in sync_row_issue_state makes the statuses follow the
\* issues.
LEMMA SyncEstablishes ==
  ASSUME TypeOK', NEW table \in [Rows -> Row], rows' = Synced(table, issues')
  PROVE  StatusFollowsIssues'
BY SyncedRows DEF StatusFollowsIssues, TypeOK

\* A batch level issue is not an issue of any row.
LEMMA BatchIssueIsNoRowIssue ==
  ASSUME RowInv, NEW stage \in Stages,
         issues' = issues \cup {<<WholeBatch, stage>>}, UNCHANGED <<staged, rows>>
  PROVE  StatusFollowsIssues' /\ RowIssuesPlaced'
<1>1. WholeBatch \notin Rows
  BY DEF WholeBatch
<1>2. \A r \in Rows, s \in Stages : <<r, s>> \in issues' <=> <<r, s>> \in issues
  BY <1>1
<1> QED BY <1>2 DEF RowInv, StatusFollowsIssues, RowIssuesPlaced, TypeOK

\* Steps that touch neither the issues, the rows nor which rows exist.
LEMMA RowsUntouched ==
  ASSUME RowInv, UNCHANGED <<staged, rows, issues>>
  PROVE  StatusFollowsIssues' /\ RowIssuesPlaced'
BY DEF RowInv, StatusFollowsIssues, RowIssuesPlaced

LEMMA RowStep == RowInv /\ [Next]_vars => RowInv'
<1> SUFFICES ASSUME RowInv, [Next]_vars PROVE StatusFollowsIssues' /\ RowIssuesPlaced'
  BY TypeStep DEF RowInv
<1>0. TypeOK /\ TypeOK'
  BY TypeStep DEF RowInv
<1>1. CASE ParseFails \/ RecordFailure
  <2>1. PICK stage \in Stages : issues' = issues \cup {<<WholeBatch, stage>>}
    BY <1>1 DEF ParseFails, RecordFailure, Stages
  <2> QED BY <1>1, <2>1, BatchIssueIsNoRowIssue DEF ParseFails, RecordFailure
<1>2. CASE Stage
  <2>1. work.read \in [Rows -> Row] /\ rows' = Synced(work.read, issues')
        /\ issues' = {<<r, "PARSE">> : r \in {l \in work.mine : work.read[l].edited.fate = "bad"}}
        /\ staged' = work.mine
    BY <1>0, <1>2 DEF Stage, TypeOK, Work
  <2>2. StatusFollowsIssues'
    BY <1>0, <2>1, SyncEstablishes
  <2>3. RowIssuesPlaced'
    BY <2>1 DEF RowIssuesPlaced
  <2> QED BY <2>2, <2>3
<1>3. CASE PatchRows
  <2>0. \E S \in SUBSET Rows : \E patch \in [S -> Inputs] :
          rows' = [r \in Rows |-> IF r \in S \cap staged
                     THEN [rows[r] EXCEPT !.edited = patch[r]] ELSE rows[r]]
    BY <1>3 DEF PatchRows
  <2>1. PICK touched, patch :
          rows' = [r \in Rows |-> IF r \in touched
                     THEN [rows[r] EXCEPT !.edited = patch[r]] ELSE rows[r]]
    BY <2>0
  <2>2. \A r \in Rows : rows'[r].status = rows[r].status
    BY <1>0, <2>1 DEF TypeOK, Row
  <2>3. UNCHANGED <<staged, issues>>
    BY <1>3 DEF PatchRows
  <2> QED BY <1>0, <2>2, <2>3 DEF RowInv, StatusFollowsIssues, RowIssuesPlaced, TypeOK
<1>4. CASE Revalidate
  <2> DEFINE saved == [r \in Rows |-> IF r \in work.mine
                        THEN [rows[r] EXCEPT !.normal = work.read[r].normal,
                                             !.action = work.read[r].action]
                        ELSE rows[r]]
             found == (issues \ (work.mine \X {"EDIT", "VALIDATE"}))
                        \cup {<<r, "EDIT">> : r \in
                                {m \in work.mine : work.read[m].edited.fate = "bad"}}
  <2>0. rows \in [Rows -> Row] /\ work.read \in [Rows -> Row] /\ work.mine \in SUBSET Rows
    BY <1>0 DEF Work, TypeOK
  <2>1. saved \in [Rows -> Row]
    BY <2>0 DEF Row
  <2>2. /\ issues' = found /\ rows' = Synced(saved, found) /\ staged' = staged
        /\ work.mine \subseteq staged
    BY <1>4 DEF Revalidate
  <2>3. rows' = Synced(saved, issues')
    BY <2>2
  <2>4. StatusFollowsIssues'
    <3> HIDE DEF saved, found
    <3> QED BY <1>0, <2>1, <2>3, SyncEstablishes
  <2>5. ASSUME NEW r \in Rows, NEW s \in Stages, <<r, s>> \in issues'
        PROVE  r \in staged' /\ s # "COMMIT"
    <3>1. CASE <<r, s>> \in issues
      BY <2>2, <2>5, <3>1 DEF RowInv, RowIssuesPlaced
    <3>2. CASE <<r, s>> \notin issues
      BY <2>2, <2>5, <3>2
    <3> QED BY <3>1, <3>2
  <2> QED BY <2>4, <2>5 DEF RowIssuesPlaced
<1>5. CASE Validate
  <2> DEFINE found == {i \in issues : i[2] # "VALIDATE"}
                        \cup {<<r, "VALIDATE">> : r \in Duplicates}
             acted == [r \in Rows |-> [rows[r] EXCEPT !.action = work.read[r].action]]
  <2>1. acted \in [Rows -> Row]
    BY <1>0 DEF Row, Work, TypeOK
  <2>2. issues' = found /\ rows' = Synced(acted, found) /\ staged' = staged
    BY <1>5 DEF Validate
  <2>3. rows' = Synced(acted, issues')
    BY <2>2
  <2>4. StatusFollowsIssues'
    <3> HIDE DEF acted, found
    <3> QED BY <1>0, <2>1, <2>3, SyncEstablishes
  <2>5. ASSUME NEW r \in Rows, NEW s \in Stages, <<r, s>> \in issues'
        PROVE  r \in staged' /\ s # "COMMIT"
    <3>1. CASE <<r, s>> \in issues
      BY <2>2, <2>5, <3>1 DEF RowInv, RowIssuesPlaced
    <3>2. CASE <<r, s>> \notin issues
      BY <2>2, <2>5, <3>2 DEF Duplicates
    <3> QED BY <3>1, <3>2
  <2> QED BY <2>4, <2>5 DEF RowIssuesPlaced
<1>6. CASE FinishCommit
  <2>1. staged' = staged /\ issues' = {i \in issues : i[2] # "COMMIT"}
    BY <1>6 DEF FinishCommit
  <2>2. \A r \in Rows, s \in Stages : <<r, s>> \in issues' <=> <<r, s>> \in issues
    BY <2>1 DEF RowInv, RowIssuesPlaced
  <2>3. \A r \in Rows : rows'[r].status \in {rows[r].status, "COMMITTED"}
    BY <1>0, <1>6 DEF FinishCommit, TypeOK, Row
  <2> QED BY <1>0, <2>1, <2>2, <2>3 DEF RowInv, StatusFollowsIssues, RowIssuesPlaced, TypeOK
<1>7. CASE Delete
  BY <1>7 DEF Delete, StatusFollowsIssues, RowIssuesPlaced
<1>8. CASE Upload \/ Parse \/ Recount \/ Review \/ ReadTouched \/ Load \/ Simulate
             \/ CheckSnapshot \/ CompareTimes \/ ReadRows \/ WriteRow \/ WriteFails
             \/ SaveFailed \/ Lost \/ Crash
  BY <1>8, RowsUntouched DEF Upload, Parse, Recount, Review, ReadTouched, Load, Simulate,
     CheckSnapshot, CompareTimes, ReadRows, WriteRow, WriteFails, SaveFailed, Lost, Crash,
     database
<1>9. CASE LookUp
  BY <1>9, RowsUntouched DEF LookUp, database
<1>10. ASSUME NEW k \in Keys, Elsewhere(k) PROVE StatusFollowsIssues' /\ RowIssuesPlaced'
  BY <1>10, RowsUntouched DEF Elsewhere
<1>11. CASE UNCHANGED vars
  BY <1>11, RowsUntouched DEF vars, database
<1> QED
  BY <1>1, <1>2, <1>3, <1>4, <1>5, <1>6, <1>7, <1>8, <1>9, <1>10, <1>11
  DEF Next, Request, Proceed

LEMMA RowInit == Init => RowInv
BY TypeInit DEF Init, RowInv, StatusFollowsIssues, RowIssuesPlaced

\* Wherever requests fail, workers die or the batch is deleted, a VALID row has
\* no error and an INVALID row has one.
THEOREM RowStatusIsSound == Spec => []StatusFollowsIssues
<1>1. RowInv => StatusFollowsIssues
  BY DEF RowInv
<1> QED BY RowInit, RowStep, <1>1, PTL DEF Spec
-----------------------------------------------------------------------------
(* The gate of COMMIT *)

\* After sync_row_issue_state no row is COMMITTED any more.
LEMMA SyncedStatus ==
  ASSUME TypeOK', NEW table \in [Rows -> Row], rows' = Synced(table, issues')
  PROVE  WithStatus("COMMITTED")' = {}
<1>1. \A r \in Rows : rows'[r].status # "COMMITTED"
  BY SyncedRows
<1> QED BY <1>1 DEF WithStatus, TypeOK

LEMMA ImportInit == Init => ImportInv
<1> SUFFICES ASSUME Init PROVE ImportInv
  OBVIOUS
<1>1. batch.status = "NONE" /\ ~snapshot.taken
  BY DEF Init, NoSnapshot
<1>2. RequestInv
  BY <1>1 DEF RequestInv, Exists
<1>3. GateInv
  BY <1>1 DEF Init, GateInv, Committable, Simulated, Exists, WithStatus, CommittedIsComplete
<1> QED BY <1>2, <1>3, RowInit DEF ImportInv

\* Steps that leave the database as it is leave the gate as it is, unless a
\* request ends between a failure's issue and its status.
LEMMA GateUntouched ==
  ASSUME GateInv, UNCHANGED <<batch, staged, rows, issues, snapshot, changed, written>>,
         Unsaved \subseteq Unsaved'
  PROVE  GateInv'
BY DEF GateInv, Exists, Committable, Simulated, Unchanged, WithStatus, WithAction,
   CommittedIsComplete

\* A request that is not recording a failure may go anywhere else.
LEMMA NotRecorded == ASSUME pc # "recorded", halfway' = halfway PROVE Unsaved \subseteq Unsaved'
BY DEF Unsaved

\* A request that has returned, and a batch that is gone, leave nothing to say
\* about the request.
LEMMA Returned == ASSUME Return PROVE RequestInv'
BY DEF Return, RequestInv

\* Steps that leave the batch's status, the snapshot and the issues alone.
LEMMA GateKept ==
  ASSUME GateInv, TypeOK, UNCHANGED <<staged, rows, issues, snapshot, changed, written, halfway>>,
         pc # "recorded", batch'.status = batch.status
  PROVE  GateInv'
BY DEF GateInv, Exists, Committable, Simulated, Unchanged, WithStatus, WithAction,
   CommittedIsComplete, Unsaved

\* A status other than SIMULATED and COMMITTED promises nothing itself.
LEMMA GateOpen ==
  ASSUME GateInv, UNCHANGED <<staged, rows, issues, snapshot, changed, written>>,
         Exists, batch'.status \in {"REVIEWING", "PARSED", "UPLOADED", "FAILED"}
  PROVE  GateInv'
BY DEF GateInv, Exists, Committable, Simulated, Unchanged, WithStatus, WithAction,
   CommittedIsComplete

LEMMA ImportStep == ImportInv /\ [Next]_vars => ImportInv'
<1> SUFFICES ASSUME ImportInv, [Next]_vars PROVE RequestInv' /\ GateInv'
  BY RowStep DEF ImportInv
<1>0. TypeOK /\ TypeOK' /\ StatusFollowsIssues /\ StatusFollowsIssues'
      /\ RowIssuesPlaced /\ RowIssuesPlaced' /\ RequestInv /\ GateInv
  BY RowStep DEF ImportInv, RowInv
<1> USE DEF database
<1>1. CASE Upload
  <2>1. pc' = "parse" /\ batch'.status = "UPLOADED"
    BY <1>0, <1>1 DEF Upload, Continue, TypeOK, Batch
  <2>2. staged = {} /\ issues = {} /\ ~snapshot.taken
    BY <1>0, <1>1 DEF Upload, GateInv, Exists
  <2>3. UNCHANGED <<staged, issues, snapshot>>
    BY <1>1 DEF Upload
  <2>4. RequestInv'
    BY <2>1, <2>2, <2>3 DEF RequestInv
  <2>5. GateInv'
    BY <2>1, <2>2, <2>3
    DEF GateInv, Committable, Simulated, Exists, CommittedIsComplete, WithStatus
  <2> QED BY <2>4, <2>5
<1>2. CASE ParseFails
  <2>1. pc' = "recorded" /\ batch.status = "UPLOADED" /\ staged = {} /\ ~snapshot.taken
    BY <1>0, <1>2 DEF ParseFails, Continue, RequestInv
  <2>2. UNCHANGED <<batch, staged, snapshot>>
    BY <1>2 DEF ParseFails
  <2>3. GateInv'
    BY <2>1, <2>2 DEF GateInv, Committable, Simulated, Exists, CommittedIsComplete, WithStatus
  <2> QED BY <2>1, <2>3 DEF RequestInv
<1>3. CASE Parse
  <2>1. pc = "parse" /\ pc' = "stage" /\ UNCHANGED database
    BY <1>3 DEF Parse, Continue
  <2>2. RequestInv'
    BY <1>0, <2>1 DEF RequestInv, Exists
  <2>3. GateInv'
    BY <1>0, <2>1, GateUntouched, NotRecorded
  <2> QED BY <2>2, <2>3
<1>4. CASE Stage
  <2>1. batch.status = "UPLOADED" /\ ~snapshot.taken
    BY <1>0, <1>4 DEF Stage, RequestInv
  <2>2. pc' = "count" /\ UNCHANGED <<batch, snapshot>>
    BY <1>4 DEF Stage, Continue
  <2>3. RequestInv'
    BY <2>1, <2>2 DEF RequestInv
  <2>4. WithStatus("COMMITTED")' = {}
    <3>1. rows' = Synced(work.read, issues') /\ work.read \in [Rows -> Row]
      BY <1>0, <1>4 DEF Stage, TypeOK, Work
    <3> QED BY <1>0, <3>1, SyncedStatus
  <2>5. GateInv'
    BY <2>1, <2>2, <2>4 DEF GateInv, Committable, Simulated, Exists, CommittedIsComplete
  <2> QED BY <2>3, <2>5
<1>5. CASE Recount
  <2>1. batch'.status = batch.status /\ pc # "recorded"
        /\ UNCHANGED <<staged, rows, issues, snapshot, changed, written, halfway>>
    BY <1>0, <1>5, RecountedBatch DEF Recount
  <2>2. GateInv'
    BY <1>0, <2>1, GateKept
  <2>3. CASE pc = "count"
    <3>1. pc' = "review" /\ Exists
      BY <1>5, <2>3 DEF Recount, Continue
    <3> QED BY <1>0, <2>1, <2>2, <2>3, <3>1 DEF RequestInv
  <2>4. CASE pc # "count"
    BY <1>5, <2>2, <2>4, Returned DEF Recount
  <2> QED BY <2>3, <2>4
<1>6. CASE Review
  <2>1. batch'.status \in {"REVIEWING", "PARSED"}
    BY <1>0, <1>6 DEF Review, TypeOK, Batch
  <2>2. GateInv'
    BY <1>0, <1>6, <2>1, GateOpen DEF Review
  <2> QED BY <1>6, <2>2, Returned DEF Review
<1>7. CASE PatchRows
  <2>0. PICK S \in SUBSET Rows : \E patch \in [S -> Inputs] :
          LET touched == S \cap staged
          IN /\ rows' = [r \in Rows |-> IF r \in touched
                          THEN [rows[r] EXCEPT !.edited = patch[r]] ELSE rows[r]]
             /\ batch' = IF touched # {} THEN [batch EXCEPT !.status = "REVIEWING"]
                         ELSE batch
             /\ changed' = (changed \/ touched # {})
             /\ halfway' = (halfway /\ touched = {})
             /\ Continue("revalidate", [Fresh EXCEPT !.mine = touched])
    BY <1>7 DEF PatchRows
  <2> DEFINE touched == S \cap staged
  <2>1. PICK patch \in [S -> Inputs] :
             /\ rows' = [r \in Rows |-> IF r \in touched
                          THEN [rows[r] EXCEPT !.edited = patch[r]] ELSE rows[r]]
             /\ batch' = IF touched # {} THEN [batch EXCEPT !.status = "REVIEWING"]
                         ELSE batch
             /\ changed' = (changed \/ touched # {})
             /\ halfway' = (halfway /\ touched = {})
             /\ Continue("revalidate", [Fresh EXCEPT !.mine = touched])
    BY <2>0
  <2>2. pc = "idle" /\ pc' = "revalidate" /\ work'.mine = touched
    BY <1>7, <2>1 DEF Fresh, Continue, PatchRows, Begin
  <2>3. touched # {} => batch'.status = "REVIEWING"
    BY <1>0, <2>1 DEF TypeOK, Batch
  <2>4. RequestInv'
    BY <2>2, <2>3 DEF RequestInv
  <2>5. \A r \in Rows : rows'[r].status = rows[r].status /\ rows'[r].action = rows[r].action
    BY <1>0, <2>1 DEF TypeOK, Row
  <2>6. UNCHANGED <<staged, issues, snapshot, written>>
    BY <1>7 DEF PatchRows
  <2>7. WithStatus("VALID")' = WithStatus("VALID") /\ WithStatus("INVALID")' = WithStatus("INVALID")
        /\ WithStatus("COMMITTED")' = WithStatus("COMMITTED")
        /\ WithAction("CREATE")' = WithAction("CREATE")
        /\ WithAction("UPDATE")' = WithAction("UPDATE")
    BY <1>0, <2>5, <2>6 DEF TypeOK, WithStatus, WithAction
  <2>8. GateInv'
    <3>1. CASE touched = {}
      <4>1. UNCHANGED <<batch, changed, halfway>>
        BY <2>1, <3>1, <1>0 DEF TypeOK
      <4>2. Unsaved = Unsaved'
        BY <2>2, <4>1 DEF Unsaved
      <4> QED BY <1>0, <2>6, <2>7, <4>1, <4>2
           DEF GateInv, Committable, Simulated, Unchanged, Exists, CommittedIsComplete
    <3>2. CASE touched # {}
      <4>1. changed' = TRUE /\ batch'.status = "REVIEWING"
        BY <2>1, <2>3, <3>2
      <4> QED BY <1>0, <2>6, <2>7, <4>1
           DEF GateInv, Committable, Simulated, Unchanged, Exists, CommittedIsComplete
    <3> QED BY <3>1, <3>2
  <2> QED BY <2>4, <2>8
<1>8. CASE ReadTouched
  <2>1. pc = "revalidate" /\ pc' = "resave" /\ work'.mine = work.mine \cap staged
        /\ UNCHANGED database
    BY <1>8 DEF ReadTouched, Continue, Fresh
  <2>2. RequestInv'
    BY <1>0, <2>1 DEF RequestInv, Exists
  <2>3. GateInv'
    BY <1>0, <2>1, GateUntouched, NotRecorded
  <2> QED BY <2>2, <2>3
<1>9. CASE Revalidate
  <2> DEFINE saved == [r \in Rows |-> IF r \in work.mine
                        THEN [rows[r] EXCEPT !.normal = work.read[r].normal,
                                             !.action = work.read[r].action]
                        ELSE rows[r]]
             found == (issues \ (work.mine \X {"EDIT", "VALIDATE"}))
                        \cup {<<r, "EDIT">> : r \in
                                {m \in work.mine : work.read[m].edited.fate = "bad"}}
  <2>0. rows \in [Rows -> Row] /\ work.read \in [Rows -> Row] /\ work.mine \in SUBSET Rows
        /\ written \in SUBSET Rows
    BY <1>0 DEF Work, TypeOK
  <2>1. saved \in [Rows -> Row]
    BY <2>0 DEF Row
  <2>2. /\ issues' = found /\ rows' = Synced(saved, found)
        /\ written' = {r \in written : saved[r].normal = rows[r].normal}
        /\ changed' = (changed \/ staged # {})
        /\ UNCHANGED <<batch, staged, snapshot, halfway>>
        /\ pc = "resave" /\ pc' = "recount" /\ Exists
    BY <1>9 DEF Revalidate, Continue
  <2>3. RequestInv'
    BY <2>2 DEF RequestInv
  <2>4. WithStatus("COMMITTED")' = {}
    <3>1. rows' = Synced(saved, issues')
      BY <2>2
    <3> HIDE DEF saved, found
    <3> QED BY <1>0, <2>1, <3>1, SyncedStatus
  <2>5. work.mine = {} \/ batch.status = "REVIEWING"
    BY <1>0, <2>2 DEF RequestInv
  <2>6. work.mine = {} => issues' = issues /\ written' = written
    BY <2>0, <2>2
  <2>7. Committable' => staged' = {}
    BY <2>2 DEF Committable, Unchanged
  <2>8. Unsaved' = Unsaved
    BY <2>2 DEF Unsaved
  <2> HIDE DEF saved, found
  <2>9. GateInv'
    <3>1. Exists'
      BY <2>2 DEF Exists
    <3>2. batch'.status = "SIMULATED" => issues' \subseteq Unsaved'
      BY <1>0, <2>2, <2>5, <2>6, <2>8 DEF GateInv
    <3>3. CommittedIsComplete'
      BY <1>0, <2>2, <2>5, <2>6 DEF GateInv, CommittedIsComplete
    <3>4. Committable' => WithStatus("INVALID")' = {} /\ WithStatus("VALID")' = {}
      BY <2>7 DEF WithStatus
    <3> QED BY <2>4, <3>1, <3>2, <3>3, <3>4 DEF GateInv
  <2> QED BY <2>3, <2>9
<1>10. CASE Load
  <2>1. pc = "idle" /\ pc' \in {"validate", "simulate", "check"} /\ UNCHANGED database
    BY <1>10 DEF Load, Continue, Begin
  <2>2. GateInv'
    BY <1>0, <2>1, GateUntouched, NotRecorded
  <2> QED BY <2>1, <2>2 DEF RequestInv
<1>11. CASE Validate
  <2> DEFINE found == {i \in issues : i[2] # "VALIDATE"}
                        \cup {<<r, "VALIDATE">> : r \in Duplicates}
             acted == [r \in Rows |-> [rows[r] EXCEPT !.action = work.read[r].action]]
  <2>1. acted \in [Rows -> Row]
    BY <1>0 DEF Row, TypeOK, Work
  <2>2. /\ issues' = found /\ rows' = Synced(acted, found)
        /\ changed' = (changed \/ staged # {})
        /\ UNCHANGED <<staged, snapshot, written>> /\ Return
    BY <1>11 DEF Validate
  <2>3. WithStatus("COMMITTED")' = {}
    <3>1. rows' = Synced(acted, issues')
      BY <2>2
    <3> HIDE DEF acted, found
    <3> QED BY <1>0, <2>1, <3>1, SyncedStatus
  <2>4. batch'.status \in {"VALIDATION_FAILED", "VALIDATED"}
    BY <1>0, <1>11, RecountedBatch DEF Validate, Batch
  <2>5. Committable' => WithStatus("INVALID")' = {} /\ WithStatus("VALID")' = {}
    BY <2>2 DEF Committable, Unchanged, WithStatus
  <2> HIDE DEF acted, found
  <2>6. GateInv'
    BY <2>3, <2>4, <2>5 DEF GateInv, Exists, CommittedIsComplete
  <2> QED BY <2>2, <2>6, Returned
<1>12. CASE Simulate
  <2>1. /\ UNCHANGED <<staged, rows, issues, written>> /\ Return
        /\ snapshot'.create = WithStatus("VALID") \cap WithAction("CREATE")
        /\ snapshot'.update = WithStatus("VALID") \cap WithAction("UPDATE")
        /\ snapshot'.can_commit => issues = {}
        /\ batch'.status = IF snapshot'.can_commit THEN "SIMULATED" ELSE "SIMULATION_FAILED"
    BY <1>0, <1>12 DEF Simulate, BlockingErrors, TypeOK, Batch
  <2>2. issues = {} => WithStatus("INVALID") = {}
    BY <1>0 DEF StatusFollowsIssues, WithStatus
  <2>3. WithStatus("VALID")' = WithStatus("VALID") /\ WithStatus("INVALID")' = WithStatus("INVALID")
        /\ WithStatus("COMMITTED")' = WithStatus("COMMITTED")
        /\ WithAction("CREATE")' = WithAction("CREATE")
        /\ WithAction("UPDATE")' = WithAction("UPDATE")
    BY <2>1 DEF WithStatus, WithAction
  <2>4. GateInv'
    BY <1>0, <2>1, <2>2, <2>3 DEF GateInv, Committable, Simulated, Exists, CommittedIsComplete
  <2> QED BY <2>1, <2>4, Returned
<1>13. CASE CheckSnapshot
  <2>1. pc = "check" /\ UNCHANGED database /\ (Return \/ (Simulated /\ pc' = "compare"))
    BY <1>13 DEF CheckSnapshot, Continue
  <2>2. GateInv'
    BY <1>0, <2>1, GateUntouched, NotRecorded
  <2>3. Simulated' = Simulated
    BY <2>1 DEF Simulated
  <2> QED BY <2>1, <2>2, <2>3, Returned DEF RequestInv
<1>14. CASE CompareTimes
  <2>1. pc = "compare" /\ UNCHANGED database /\ (Return \/ (Unchanged /\ pc' = "read"))
    BY <1>14 DEF CompareTimes, Continue
  <2>2. GateInv'
    BY <1>0, <2>1, GateUntouched, NotRecorded
  <2>3. Exists' = Exists /\ Simulated' = Simulated /\ Unchanged' = Unchanged
    BY <2>1 DEF Exists, Simulated, Unchanged
  <2>4. CASE Unchanged /\ pc' = "read"
    BY <1>0, <2>1, <2>2, <2>3, <2>4 DEF RequestInv, Committable
  <2> QED BY <2>1, <2>2, <2>4, Returned
<1>15. CASE ReadRows
  <2>1. pc = "read" /\ UNCHANGED database
    BY <1>15 DEF ReadRows
  <2>2. GateInv'
    BY <1>0, <2>1, GateUntouched, NotRecorded
  <2>3. Exists' = Exists /\ Committable' = Committable
        /\ WithStatus("VALID")' = WithStatus("VALID")
    BY <2>1 DEF Exists, Committable, Simulated, Unchanged, WithStatus
  <2>4. CASE work.seen # {}
    <3>1. pc' = "failed"
      BY <1>15, <2>4 DEF ReadRows, Continue
    <3> QED BY <2>2, <3>1 DEF RequestInv
  <2>5. CASE work.seen = {}
    <3>1. pc' = "write" /\ work'.read = rows /\ work'.mine = WithStatus("VALID")
      BY <1>0, <1>15, <2>5 DEF ReadRows, Continue, TypeOK, Work
    <3> QED BY <1>0, <2>1, <2>2, <2>3, <3>1 DEF RequestInv
  <2> QED BY <2>4, <2>5
<1>16. CASE WriteRow
  <2>1. pc = "write" /\ pc' = "write" /\ UNCHANGED database
        /\ work'.read = work.read /\ work'.mine = work.mine
    BY <1>0, <1>16 DEF WriteRow, Continue, TypeOK, Work
  <2>2. GateInv'
    BY <1>0, <2>1, GateUntouched, NotRecorded
  <2>3. Exists' = Exists /\ Committable' = Committable
        /\ WithStatus("VALID")' = WithStatus("VALID")
    BY <2>1 DEF Exists, Committable, Simulated, Unchanged, WithStatus
  <2> QED BY <1>0, <2>1, <2>2, <2>3 DEF RequestInv
<1>17. CASE WriteFails
  <2>1. pc = "write" /\ pc' = "failed" /\ batch' = batch
        /\ UNCHANGED <<staged, rows, issues, snapshot, changed, written, halfway>>
    BY <1>17 DEF WriteFails, Continue
  <2>2. GateInv'
    BY <1>0, <2>1, GateUntouched, NotRecorded
  <2> QED BY <2>1, <2>2 DEF RequestInv
<1>18. CASE FinishCommit
  <2>1. Committable /\ work.mine = WithStatus("VALID")
    BY <1>0, <1>18 DEF FinishCommit, RequestInv
  <2>2. WithStatus("INVALID") = {}
    BY <1>0, <2>1 DEF GateInv
  <2>3. rows' = [r \in Rows |-> IF r \in WithStatus("VALID")
                  THEN [rows[r] EXCEPT !.status = "COMMITTED"] ELSE rows[r]]
    BY <1>18, <2>1 DEF FinishCommit
  <2>4. written' = written \cup WithStatus("VALID") /\ staged' = staged
    BY <1>18, <2>1 DEF FinishCommit
  <2>5. staged \subseteq written'
    <3>1. staged \subseteq WithStatus("VALID") \cup WithStatus("INVALID")
                           \cup WithStatus("COMMITTED")
      BY <1>0 DEF TypeOK, Row, RowStatus, WithStatus
    <3> QED BY <1>0, <2>2, <2>4, <3>1 DEF GateInv
  <2>6. WithStatus("VALID")' = {} /\ WithStatus("INVALID")' = {}
    BY <1>0, <2>2, <2>3, <2>4 DEF TypeOK, Row, RowStatus, WithStatus
  <2>7. batch'.status = "COMMITTED"
    BY <1>0, <1>18 DEF FinishCommit, TypeOK, Batch
  <2>8. WithStatus("COMMITTED")' \subseteq written'
    BY <2>4, <2>5 DEF WithStatus
  <2>9. GateInv'
    BY <2>4, <2>5, <2>6, <2>7, <2>8 DEF GateInv, Exists, CommittedIsComplete
  <2> QED BY <1>18, <2>9, Returned DEF FinishCommit
<1>19. CASE RecordFailure
  <2>1. pc = "failed" /\ pc' = "recorded" /\ Exists
        /\ issues' = issues \cup {<<WholeBatch, "COMMIT">>}
        /\ UNCHANGED <<batch, staged, rows, snapshot, changed, written, halfway>>
    BY <1>19 DEF RecordFailure, Continue
  <2>2. batch.status = "SIMULATED" => issues' \subseteq Unsaved'
    BY <1>0, <2>1 DEF GateInv, Unsaved
  <2>3. GateInv'
    BY <1>0, <2>1, <2>2 DEF GateInv, Exists, Committable, Simulated, Unchanged, WithStatus,
       WithAction, CommittedIsComplete
  <2> QED BY <2>1, <2>3 DEF RequestInv
<1>20. CASE SaveFailed
  <2>1. batch'.status = "FAILED"
    BY <1>0, <1>20 DEF SaveFailed, TypeOK, Batch
  <2>2. GateInv'
    BY <1>0, <1>20, <2>1, GateOpen DEF SaveFailed
  <2> QED BY <1>20, <2>2, Returned DEF SaveFailed
<1>21. CASE Delete
  <2>1. batch'.status = "DELETED" /\ staged' = {} /\ issues' = {} /\ ~snapshot'.taken
    BY <1>0, <1>21 DEF Delete, NoSnapshot, TypeOK, Batch
  <2>2. GateInv'
    BY <2>1 DEF GateInv, Exists, Committable, Simulated, CommittedIsComplete, WithStatus
  <2> QED BY <2>1, <2>2 DEF RequestInv, Exists
<1>22. CASE Lost
  <2>1. UNCHANGED database /\ Return /\ ~Exists
    BY <1>22 DEF Lost
  <2>2. GateInv'
    BY <1>0, <2>1 DEF GateInv, Exists, Committable, Simulated, Unchanged, WithStatus,
       WithAction, CommittedIsComplete
  <2> QED BY <2>1, <2>2, Returned
<1>23. CASE Crash
  <2>1. Unsaved \subseteq Unsaved' /\ Return
    BY <1>23 DEF Crash, Unsaved
  <2>2. GateInv'
    BY <1>0, <1>23, <2>1, GateUntouched DEF Crash
  <2> QED BY <2>1, <2>2, Returned
<1>24. ASSUME UNCHANGED <<batch, staged, rows, issues, snapshot, changed, written, halfway>>,
              UNCHANGED <<pc, work>>
       PROVE  RequestInv' /\ GateInv'
  <2>1. Unsaved = Unsaved'
    BY <1>24 DEF Unsaved
  <2>2. GateInv'
    BY <1>0, <1>24, <2>1, GateUntouched
  <2> QED BY <1>0, <1>24, <2>2
       DEF RequestInv, Exists, Committable, Simulated, Unchanged, WithStatus
<1>25. ASSUME NEW k \in Keys, Elsewhere(k) PROVE RequestInv' /\ GateInv'
  BY <1>24, <1>25 DEF Elsewhere
<1>26. CASE LookUp
  <2>1. UNCHANGED database /\ pc' = pc /\ pc \in Looking /\ work'.mine = work.mine
    BY <1>0, <1>26, LookUpEffect
  <2>2. pc \notin {"recorded", "write"}
    BY <2>1 DEF Looking
  <2>3. GateInv'
    BY <1>0, <2>1, <2>2, GateUntouched, NotRecorded
  <2>4. RequestInv'
    BY <1>0, <2>1, <2>2 DEF RequestInv, Exists, Committable, Simulated, Unchanged
  <2> QED BY <2>3, <2>4
<1>27. CASE UNCHANGED vars
  BY <1>24, <1>27 DEF vars
<1> QED
  BY <1>1, <1>2, <1>3, <1>4, <1>5, <1>6, <1>7, <1>8, <1>9, <1>10, <1>11, <1>12, <1>13,
     <1>14, <1>15, <1>16, <1>17, <1>18, <1>19, <1>20, <1>21, <1>22, <1>23, <1>25, <1>26,
     <1>27 DEF Next, Request, Proceed

\* SIMULATED means that no ERROR issue is left, but for that of a failed commit
\* whose worker has not saved FAILED, and COMMITTED that every staged row was
\* written.
THEOREM StatusesAreEarned == Spec => []StatusIsEarned
<1>1. ImportInv => CommittedIsComplete
  BY DEF ImportInv, GateInv
<1>2. ImportInv => SimulatedIsClean
  <2> SUFFICES ASSUME ImportInv, batch.status = "SIMULATED"
               PROVE  issues \subseteq Unsaved /\ WithStatus("INVALID") = {}
    BY DEF SimulatedIsClean
  <2>1. issues \subseteq Unsaved
    BY DEF ImportInv, GateInv
  <2>2. \A r \in Rows, s \in Stages : <<r, s>> \notin issues
    BY <2>1 DEF Unsaved, WholeBatch
  <2>3. WithStatus("INVALID") = {}
    BY <2>2 DEF ImportInv, RowInv, TypeOK, StatusFollowsIssues, WithStatus
  <2> QED BY <2>1, <2>3
<1>3. ImportInv => StatusIsEarned
  BY <1>1, <1>2 DEF StatusIsEarned
<1> QED BY <1>3, ImportInit, ImportStep, PTL DEF Spec
-----------------------------------------------------------------------------
(* What a commit leaves behind *)

\* A step that takes the request out of commit_batch's transaction and changes
\* the batch or the target model is the transaction's last.
LEMMA CommitLeaves ==
  ASSUME [Next]_vars, pc = "write", pc' # "write", batch' # batch \/ target' # target
  PROVE  FinishCommit
<1> SUFFICES ASSUME ~FinishCommit PROVE FALSE
  OBVIOUS
<1>1. CASE Request \/ Delete
  BY <1>1 DEF Request, Upload, PatchRows, Load, Delete, Begin
<1>2. CASE Proceed
  BY <1>2 DEF Proceed, LookUp, Looking, ParseFails, Parse, Stage, Recount, Review,
     ReadTouched, Revalidate, Validate, Simulate, CheckSnapshot, CompareTimes, ReadRows,
     WriteRow, WriteFails, Kept, RecordFailure, SaveFailed, Lost, database, Continue
<1>3. CASE Crash \/ (\E k \in Keys : Elsewhere(k)) \/ UNCHANGED vars
  BY <1>3 DEF Crash, Elsewhere, vars
<1> QED BY <1>1, <1>2, <1>3 DEF Next

\* A COMMIT that writes anything writes what the latest simulation announced, no
\* more and no less, whatever became of the target model meanwhile.
THEOREM CommitFollowsSimulation == Spec => CommitsWhatWasSimulated
<1>1. ASSUME ImportInv, [Next]_vars, pc = "write", pc' # "write", batch' # batch,
             batch'.committed # {}
      PROVE  batch'.create = snapshot.create /\ batch'.update = snapshot.update
  <2>1. TypeOK /\ RequestInv /\ GateInv /\ FinishCommit
    BY <1>1, CommitLeaves DEF ImportInv, RowInv
  <2>2. Committable /\ work.read = rows /\ work.mine = WithStatus("VALID")
    BY <1>1, <2>1 DEF RequestInv, FinishCommit
  <2>3. /\ batch'.committed = WithStatus("VALID")
        /\ batch'.create = {r \in WithStatus("VALID") : rows[r].action = "CREATE"}
        /\ batch'.update = {r \in WithStatus("VALID") : rows[r].action = "UPDATE"}
    BY <2>1, <2>2 DEF FinishCommit, TypeOK, Batch
  <2>4. /\ snapshot.create = WithStatus("VALID") \cap WithAction("CREATE")
        /\ snapshot.update = WithStatus("VALID") \cap WithAction("UPDATE")
    BY <1>1, <2>1, <2>2, <2>3 DEF GateInv
  <2> QED BY <2>3, <2>4 DEF WithStatus, WithAction
<1>2. ImportInv /\ [Next]_vars => [SimulatedWrites]_vars
  BY <1>1 DEF SimulatedWrites
<1> QED BY <1>2, ImportInit, ImportStep, PTL DEF Spec, CommitsWhatWasSimulated

\* An import is applied as a whole or not at all, and reported: a commit that
\* leaves a record in the target model leaves no staged row behind, and a batch
\* that says COMMITTED.
THEOREM ImportsAllOrNothing == Spec => AllOrNothing
<1>1. ASSUME ImportInv, [Next]_vars, pc = "write", pc' # "write", target' # target
      PROVE  batch'.status = "COMMITTED" /\ \A r \in staged' : rows'[r].status = "COMMITTED"
  <2>1. TypeOK /\ RequestInv /\ GateInv /\ FinishCommit
    BY <1>1, CommitLeaves DEF ImportInv, RowInv
  <2>2. WithStatus("INVALID") = {} /\ work.mine = WithStatus("VALID")
    BY <1>1, <2>1 DEF RequestInv, GateInv, FinishCommit
  <2>3. staged' = staged /\ batch'.status = "COMMITTED"
        /\ rows' = [r \in Rows |-> IF r \in WithStatus("VALID")
                      THEN [rows[r] EXCEPT !.status = "COMMITTED"] ELSE rows[r]]
    BY <2>1, <2>2 DEF FinishCommit, TypeOK, Batch
  <2>4. \A r \in staged : r \in Rows /\ rows[r] \in Row /\ rows[r].status \in {"VALID", "COMMITTED"}
    BY <2>1, <2>2 DEF TypeOK, Row, RowStatus, WithStatus
  <2> QED BY <2>3, <2>4 DEF WithStatus, Row
<1>2. ImportInv /\ [Next]_vars => [AppliedWhole]_vars
  BY <1>1 DEF AppliedWhole
<1> QED BY <1>2, ImportInit, ImportStep, PTL DEF Spec, AllOrNothing
=============================================================================
