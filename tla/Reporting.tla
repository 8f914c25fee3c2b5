----------------------------- MODULE Reporting -----------------------------
(***************************************************************************)
(* One ReportingExportJob of rail_django/extensions/reporting: the studio  *)
(* mutation or the schedule that creates it and runs it at once, and the   *)
(* runExport mutations that clients run on the same row.                   *)
(*                                                                         *)
(* The creator works in autocommit: each save is visible at once.  A       *)
(* runExport mutation is one transaction: its first save locks the row,    *)
(* and nothing it writes is visible before it commits.  Every actor works  *)
(* on a copy of the row it loaded earlier and saves some fields of it.     *)
(*                                                                         *)
(* The data reported on is a version number, a payload or the content of a *)
(* file the version it was built from.                                     *)
(***************************************************************************)
EXTENDS Naturals, Sequences

CONSTANTS Runs,        \* the runExport mutations
          Creator,     \* the request or the schedule that creates the job
          Nobody,      \* no transaction holds the row's lock
          MaxVersion,  \* bound: versions of the data reported on
          MaxFaults    \* bound: deaths of a process, errors of the database

ASSUME ActorsAssumption == Creator \notin Runs /\ Nobody \notin Runs
ASSUME BoundsAssumption == MaxVersion \in Nat \ {0} /\ MaxFaults \in Nat

VARIABLES
  origin,    \* who creates the job: the studio, or a schedule
  row,       \* the row as committed
  locked,    \* the row as the transaction that locked it wrote it, or row
  holder,    \* the transaction that holds the row's lock
  source,    \* version of the data reported on
  disk,      \* contents of the files in the storage, in order of creation
  pc,        \* per actor: position in run_export and around it
  copy,      \* per actor: payload and file of its copy of the row
  schedule,  \* last_run_status of the schedule
  faults,    \* faults so far
  lost       \* history: the creator could not save its last status

vars == <<origin, row, locked, holder, source, disk, pc, copy, schedule, faults, lost>>

Actors == Runs \cup {Creator}
ExportStatus == {"NONE", "PENDING", "RUNNING", "COMPLETED", "FAILED", "DELETED"}
Versions == 0 .. MaxVersion            \* 0: no payload yet
Row == [status : ExportStatus, payload : Versions, file : Nat]
Copy == [payload : Versions, file : Nat]   \* file: index in disk, 0 for none
Positions == {"idle", "start", "build", "render", "store", "finish", "fail",
              "record", "commit", "done"}

TypeOK ==
  /\ origin \in {"studio", "schedule"}
  /\ row \in Row /\ locked \in Row
  /\ holder \in Runs \cup {Nobody}
  /\ source \in 1 .. MaxVersion
  /\ disk \in Seq(Versions)
  /\ pc \in [Actors -> Positions]
  /\ copy \in [Actors -> Copy]
  /\ schedule \in {"NEVER", "FAILED"}
  /\ faults \in 0 .. MaxFaults
  /\ lost \in BOOLEAN

NoRow == [status |-> "NONE", payload |-> 0, file |-> 0]
NoCopy == [payload |-> 0, file |-> 0]

Init ==
  /\ origin \in {"studio", "schedule"}
  /\ row = NoRow /\ locked = NoRow /\ holder = Nobody
  /\ source = 1 /\ disk = << >>
  /\ pc = [a \in Actors |-> "idle"]
  /\ copy = [a \in Actors |-> NoCopy]
  /\ schedule = "NEVER" /\ faults = 0 /\ lost = FALSE
-----------------------------------------------------------------------------
(* The row *)

Exists == locked.status \notin {"NONE", "DELETED"}
Fault == faults < MaxFaults /\ faults' = faults + 1
Goto(a, position) == pc' = [pc EXCEPT ![a] = position]

\* Mutant of Save: runExport mutations work in autocommit as well.
SaveVisibly(a, new) ==
  /\ Exists /\ locked' = new /\ row' = new
  /\ UNCHANGED holder
\* save(update_fields): in autocommit once no transaction holds the lock, in
\* a transaction under the lock.
Save(a, new) ==
  /\ Exists
  /\ locked' = new
  /\ IF a = Creator THEN holder = Nobody /\ row' = new /\ UNCHANGED holder
     ELSE holder \in {Nobody, a} /\ holder' = a /\ UNCHANGED row

\* The transaction of a run ends without effect.
RollBack(a) ==
  IF holder = a THEN holder' = Nobody /\ locked' = row /\ UNCHANGED row
  ELSE UNCHANGED <<holder, locked, row>>
-----------------------------------------------------------------------------
(* Before run_export *)

\* create_report_export, or _run_export of the schedule: only the first
\* gives the job an owner.
Create ==
  /\ pc[Creator] = "idle" /\ Goto(Creator, "start")
  /\ row' = [NoRow EXCEPT !.status = "PENDING"] /\ locked' = row'
  /\ UNCHANGED <<origin, holder, source, disk, copy, schedule, faults, lost>>

\* A runExport mutation opens its transaction and loads the row.
Load(r) ==
  /\ pc[r] = "idle" /\ row.status \notin {"NONE", "DELETED"}
  /\ Goto(r, "start")
  /\ copy' = [copy EXCEPT ![r] = [payload |-> row.payload, file |-> row.file]]
  /\ UNCHANGED <<origin, row, locked, holder, source, disk, schedule, faults, lost>>

Owned == origin = "studio"

\* run_export raises: the job has no owner, or another one than the client.
Refuse(a) ==
  /\ pc[a] = "start" /\ (Owned => a # Creator)
  /\ Goto(a, IF a = Creator THEN "record" ELSE "done")
  /\ UNCHANGED <<origin, row, locked, holder, source, disk, copy, schedule, faults,
                 lost>>

\* Mutant of Record: the schedule takes the refused export for a success.
RecordSuccess ==
  /\ pc[Creator] = "record" /\ Goto(Creator, "done")
  /\ schedule' = "SUCCESS"
  /\ UNCHANGED <<origin, row, locked, holder, source, disk, copy, faults, lost>>
\* run_now records the error of its action.
Record ==
  /\ pc[Creator] = "record" /\ Goto(Creator, "done")
  /\ schedule' = "FAILED"
  /\ UNCHANGED <<origin, row, locked, holder, source, disk, copy, faults, lost>>
-----------------------------------------------------------------------------
(* run_export *)

Start(a) ==
  /\ pc[a] = "start" /\ Owned /\ Goto(a, "build")
  /\ Save(a, [locked EXCEPT !.status = "RUNNING"])
  /\ UNCHANGED <<origin, source, disk, copy, schedule, faults, lost>>

Keep == UNCHANGED <<origin, row, locked, holder, source, schedule>>

\* _build_payload reads the data as it is now.
Build(a) ==
  /\ pc[a] = "build" /\ Goto(a, "render")
  /\ copy' = [copy EXCEPT ![a].payload = source]
  /\ UNCHANGED <<disk, faults, lost>> /\ Keep

\* The payload cannot be built, or its renderer is missing or fails.
Reject(a) ==
  /\ pc[a] \in {"build", "render"} /\ Goto(a, "fail")
  /\ UNCHANGED <<disk, copy, faults, lost>> /\ Keep

Render(a) ==
  /\ pc[a] = "render" /\ Goto(a, "store")
  /\ UNCHANGED <<disk, copy, faults, lost>> /\ Keep

\* file.save: the storage gives every file a name of its own.
Store(a) ==
  /\ pc[a] = "store" /\ Goto(a, "finish")
  /\ disk' = Append(disk, copy[a].payload)
  /\ copy' = [copy EXCEPT ![a].file = Len(disk) + 1]
  /\ UNCHANGED <<faults, lost>> /\ Keep

\* The storage fails.
StoreFails(a) ==
  /\ pc[a] = "store" /\ Goto(a, "fail") /\ Fault
  /\ UNCHANGED <<disk, copy, lost>> /\ Keep

After(a) == IF a = Creator THEN "done" ELSE "commit"

\* Mutant of Finish: the payload is not among the fields saved.
FinishWithoutPayload(a) ==
  /\ pc[a] = "finish" /\ Goto(a, After(a))
  /\ Save(a, [locked EXCEPT !.status = "COMPLETED", !.file = copy[a].file])
  /\ UNCHANGED <<origin, source, disk, copy, schedule, faults, lost>>
\* One save of status, payload and file.
Finish(a) ==
  /\ pc[a] = "finish" /\ Goto(a, After(a))
  /\ Save(a, [status |-> "COMPLETED", payload |-> copy[a].payload,
              file |-> copy[a].file])
  /\ UNCHANGED <<origin, source, disk, copy, schedule, faults, lost>>

\* Mutant of Fail: the error is returned and not saved.
FailUnsaved(a) ==
  /\ pc[a] = "fail" /\ Goto(a, After(a))
  /\ UNCHANGED <<disk, copy, faults, lost>> /\ Keep
\* The except clause saves the status and the payload of the copy, which may
\* be the one it was loaded with.
Fail(a) ==
  /\ pc[a] = "fail" /\ Goto(a, After(a))
  /\ Save(a, [locked EXCEPT !.status = "FAILED", !.payload = copy[a].payload])
  /\ UNCHANGED <<origin, source, disk, copy, schedule, faults, lost>>

\* A save finds no row: run_export raises, directly or from its except clause.
Vanished(a) ==
  /\ pc[a] \in {"start", "finish", "fail"} /\ ~Exists /\ Owned
  /\ Goto(a, "done")
  /\ UNCHANGED <<disk, copy, faults, lost>> /\ Keep

Commit(r) ==
  /\ pc[r] = "commit" /\ Goto(r, "done")
  /\ row' = locked /\ holder' = Nobody
  /\ UNCHANGED <<origin, locked, source, disk, copy, schedule, faults, lost>>
-----------------------------------------------------------------------------
(* Faults and the rest of the world *)

InRun(a) == pc[a] \in {"build", "render", "store", "finish", "fail"}

\* The database raises.  Inside a transaction the except clause cannot save
\* either, and everything is rolled back; in autocommit it usually can.
DatabaseFails(a) ==
  /\ pc[a] \in {"start", "build", "finish", "fail", "commit"} /\ Fault
  /\ IF a = Creator
     THEN /\ Goto(a, IF pc[a] \in {"build", "finish"} THEN "fail" ELSE "done")
          /\ lost' = (pc[a] = "fail")
          /\ UNCHANGED <<row, locked, holder>>
     ELSE Goto(a, "done") /\ RollBack(a) /\ UNCHANGED lost
  /\ UNCHANGED <<origin, source, disk, copy, schedule>>

Crash(a) ==
  /\ pc[a] \notin {"idle", "done"} /\ Fault
  /\ Goto(a, "done") /\ RollBack(a)
  /\ lost' = (lost \/ (a = Creator /\ InRun(a)))
  /\ UNCHANGED <<origin, source, disk, copy, schedule>>

\* The generated delete mutation.
Delete ==
  /\ holder = Nobody /\ Exists
  /\ row' = [NoRow EXCEPT !.status = "DELETED"] /\ locked' = row'
  /\ UNCHANGED <<origin, holder, source, disk, pc, copy, schedule, faults, lost>>

\* Somebody changes the data reported on.
Change ==
  /\ source < MaxVersion /\ source' = source + 1
  /\ UNCHANGED <<origin, row, locked, holder, disk, pc, copy, schedule, faults, lost>>
-----------------------------------------------------------------------------
Step(a) ==
  \/ Refuse(a) \/ Start(a)
  \/ Build(a) \/ Reject(a) \/ Render(a) \/ Store(a)
  \/ Finish(a) \/ Fail(a) \/ Vanished(a)

Next ==
  \/ Create \/ Record \/ Delete \/ Change
  \/ \E a \in Actors : Step(a) \/ StoreFails(a) \/ DatabaseFails(a) \/ Crash(a)
  \/ \E r \in Runs : Load(r) \/ Commit(r)

\* A process that does not die runs on; who waits for the row's lock gets it,
\* since every transaction ends.
Fairness ==
  /\ \A a \in Actors : WF_vars(Step(a))
  /\ \A r \in Runs : WF_vars(Commit(r))
  /\ WF_vars(Record)

Spec == Init /\ [][Next]_vars /\ Fairness
-----------------------------------------------------------------------------
\* What COMPLETED tells a client who downloads the file: it was rendered from
\* the payload of the same row, however many runs worked on the row at once
\* (run_export has no guard on the status).
CompletedFileMatchesPayload ==
  row.status = "COMPLETED" => row.file \in DOMAIN disk /\ disk[row.file] = row.payload

\* RUNNING is seen only while the creator is inside run_export, or when it
\* died there or could save neither outcome: runExport mutations hide theirs
\* in a transaction.
RunningIsAttended ==
  row.status = "RUNNING" => InRun(Creator) \/ lost

\* A job that was started is finished one way or the other, unless the creator
\* died or could not save.
ExportEnds == row.status = "RUNNING" ~> (row.status # "RUNNING" \/ lost)
=============================================================================
