----------------------------- MODULE AsyncJobs -----------------------------
(***************************************************************************)
(* One asynchronous export, Excel or PDF job of rail_django/extensions:    *)
(* the request that enqueues it, the worker of exporting/jobs.py,          *)
(* excel/jobs.py or templating/jobs.py that renders a file, and the status *)
(* and download views.  All they share is the cache entry behind           *)
(* async_jobs.JobCache, which has a lifetime of its own and is updated by  *)
(* a get and a set that are not atomic, and the file.                      *)
(*                                                                         *)
(* Time passes in units of Tick.  The lifetimes of the entry, the payload  *)
(* and the job (expires_at, inside the entry) are counted down; every set  *)
(* gives the entry a full lifetime, expires_at never moves.                *)
(***************************************************************************)
EXTENDS Naturals

CONSTANTS Viewers,     \* requests to the status and download views
          Kinds,       \* the kinds of job considered
          Ttl,         \* expires_seconds, in ticks
          MaxReports,  \* bound: progress reports of an export
          MayCrash     \* the worker process may die

ASSUME KindsAssumption == Kinds \subseteq {"export", "excel", "pdf"}
ASSUME TtlAssumption == Ttl \in Nat \ {0}
ASSUME FlagAssumption == MayCrash \in BOOLEAN
ASSUME BoundAssumption == MaxReports \in Nat

VARIABLES
  kind,      \* the kind of the job
  request,   \* the request that enqueues it
  entry,     \* the job in the cache: what it says, and for how long
  payload,   \* remaining lifetime of the payload in the cache
  expires,   \* time left until the entry's expires_at
  file,      \* the job's file on disk
  worker,    \* the worker: position, pending update, and its copy of the job
  reports,   \* progress reports left
  notice,    \* the status the latest webhook told
  viewer     \* per viewer: position, and its copy of the job

vars == <<kind, request, entry, payload, expires, file, worker, reports, notice,
          viewer>>

JobStatus == {"pending", "running", "completed", "failed"}
Job == [status : JobStatus, file : BOOLEAN]   \* file: file_path is set
Pending == [status |-> "pending", file |-> FALSE]
Updates == {"running", "rows", "completed", "failed"}
Positions == {"idle", "queued", "load", "payload", "get", "set", "work", "writing",
              "notify", "done"}
Looking == {"idle", "check", "clean", "delete", "serve"}

TypeOK ==
  /\ kind \in Kinds
  /\ request \in {"start", "dispatch", "accepted", "refused"}
  /\ entry \in [job : Job, left : 0 .. Ttl]
  /\ payload \in 0 .. Ttl /\ expires \in 0 .. Ttl
  /\ file \in {"none", "partial", "whole"}
  /\ worker \in [pc : Positions, update : Updates, next : Positions, copy : Job]
  /\ reports \in 0 .. MaxReports
  /\ notice \in JobStatus \cup {"none"}
  /\ viewer \in [Viewers -> [pc : Looking, wants : BOOLEAN, copy : Job]]

Cached == entry.left > 0

Init ==
  /\ kind \in Kinds
  /\ request = "start"
  /\ entry = [job |-> Pending, left |-> 0] /\ payload = 0 /\ expires = 0
  /\ file = "none"
  /\ worker = [pc |-> "idle", update |-> "running", next |-> "done", copy |-> Pending]
  /\ reports = MaxReports
  /\ notice = "none"
  /\ viewer = [v \in Viewers |-> [pc |-> "idle", wants |-> FALSE, copy |-> Pending]]
-----------------------------------------------------------------------------
(* The cache *)

\* Mutant of Stored: updates use a shorter timeout than the job itself.
StoredBriefly(job) == [job |-> job, left |-> Ttl - 1]
\* set_job: the entry gets a full lifetime.
Stored(job) == [job |-> job, left |-> Ttl]

\* Mutant of Updated: a progress report overwrites the status.
UpdatedAlways(job, update) ==
  IF update = "completed" THEN [status |-> "completed", file |-> TRUE]
  ELSE [job EXCEPT !.status = update]
\* What an update makes of the copy of the job that update_job read.
Updated(job, update) ==
  CASE update = "rows" -> job
    [] update = "completed" -> [status |-> "completed", file |-> TRUE]
    [] OTHER -> [job EXCEPT !.status = update]

\* delete_job removes the entry and the payload.
DeleteJob == entry' = [entry EXCEPT !.left = 0] /\ payload' = 0
-----------------------------------------------------------------------------
(* The request that enqueues the job *)

\* The pending job and its payload are stored, expiring together.
Submit ==
  /\ request = "start" /\ request' = "dispatch"
  /\ entry' = [job |-> Pending, left |-> Ttl]
  /\ payload' = Ttl /\ expires' = Ttl
  /\ UNCHANGED <<kind, file, worker, reports, notice, viewer>>

\* The thread is started or the message sent, and the client learns the id.
Dispatch ==
  /\ request = "dispatch" /\ request' = "accepted"
  /\ worker' = [worker EXCEPT !.pc = "queued"]
  /\ UNCHANGED <<kind, entry, payload, expires, file, reports, notice, viewer>>

\* The backend is unknown or not installed: update_job marks the job failed;
\* if the broker raises instead, the job is left pending.
Refuse ==
  /\ request = "dispatch" /\ request' = "refused"
  /\ \/ Cached /\ entry' = Stored(Updated(entry.job, "failed"))
     \/ UNCHANGED entry
  /\ UNCHANGED <<kind, payload, expires, file, worker, reports, notice, viewer>>
-----------------------------------------------------------------------------
(* The worker *)

Shared == UNCHANGED <<kind, request, payload, expires, viewer>>
Goes(p) == worker' = [worker EXCEPT !.pc = p]

\* The worker calls update_job(update), and goes on to p afterwards.
CallsUpdate(update, p) ==
  worker' = [worker EXCEPT !.pc = "get", !.update = update, !.next = p]

\* An Excel or PDF worker that rendered, or failed to, posts to the webhook.
Ending == IF kind = "export" THEN "done" ELSE "notify"

Take ==
  /\ worker.pc = "queued" /\ Goes("load")
  /\ UNCHANGED <<entry, file, reports, notice>> /\ Shared

\* The worker reads the job it was told to run, which may be gone.
LoadJob ==
  /\ worker.pc = "load"
  /\ worker' = [worker EXCEPT !.pc = IF Cached THEN "payload" ELSE "done",
                              !.copy = IF Cached THEN entry.job ELSE @]
  /\ UNCHANGED <<entry, file, reports, notice>> /\ Shared

\* A missing payload fails the job; else the job is running.
LoadPayload ==
  /\ worker.pc = "payload"
  /\ IF payload > 0 THEN CallsUpdate("running", "work") ELSE CallsUpdate("failed", "done")
  /\ UNCHANGED <<entry, file, reports, notice>> /\ Shared

\* First half of update_job: a copy of the job; nothing happens if it is gone.
GetForUpdate ==
  /\ worker.pc = "get"
  /\ worker' = [worker EXCEPT !.pc = IF Cached THEN "set" ELSE worker.next,
                              !.copy = IF Cached THEN entry.job ELSE @]
  /\ UNCHANGED <<entry, file, reports, notice>> /\ Shared

\* Second half: the changed copy replaces the entry, even one deleted since.
SetUpdated ==
  /\ worker.pc = "set" /\ Goes(worker.next)
  /\ entry' = Stored(Updated(worker.copy, worker.update))
  /\ UNCHANGED <<file, reports, notice>> /\ Shared

\* An export counts its total_rows, at most once, before the file is open, and
\* calls progress_callback while it writes.
Report ==
  /\ kind = "export" /\ reports > 0
  /\ worker.pc = "writing" \/ (worker.pc = "work" /\ reports = MaxReports)
  /\ reports' = reports - 1
  /\ CallsUpdate("rows", worker.pc)
  /\ UNCHANGED <<entry, file, notice>> /\ Shared

\* Rendering, the lookups before it or writing the file raise.  Excel and PDF
\* jobs do not notify when the template or the instance is not found.
WorkFails ==
  /\ worker.pc \in {"work", "writing"}
  /\ \E p \in {Ending} \cup IF worker.pc = "work" THEN {"done"} ELSE {} :
       CallsUpdate("failed", p)
  /\ UNCHANGED <<entry, file, reports, notice>> /\ Shared

\* The context of a PDF, and the directory of an Excel or PDF file, are built
\* outside any try: the exception ends the worker, and the job says running.
WorkEscapes ==
  /\ kind \in {"excel", "pdf"} /\ worker.pc = "work" /\ Goes("done")
  /\ UNCHANGED <<entry, file, reports, notice>> /\ Shared

\* Mutant of OpenFile: the job is completed before its file is written.
OpenFileCompleted ==
  /\ worker.pc = "work" /\ CallsUpdate("completed", "writing") /\ file' = "partial"
  /\ UNCHANGED <<entry, reports, notice>> /\ Shared
\* open(file_path, "w") creates or truncates the file.
OpenFile ==
  /\ worker.pc = "work" /\ Goes("writing") /\ file' = "partial"
  /\ UNCHANGED <<entry, reports, notice>> /\ Shared

CloseFile ==
  /\ worker.pc = "writing" /\ file' = "whole"
  /\ CallsUpdate("completed", Ending)
  /\ UNCHANGED <<entry, reports, notice>> /\ Shared

\* The webhook posts the job as it is now, or the copy loaded at the start.
Notify ==
  /\ worker.pc = "notify" /\ Goes("done")
  /\ notice' = IF Cached THEN entry.job.status ELSE "pending"
  /\ UNCHANGED <<entry, file, reports>> /\ Shared

Crash ==
  /\ MayCrash /\ worker.pc \notin {"idle", "done"} /\ Goes("done")
  /\ UNCHANGED <<entry, file, reports, notice>> /\ Shared
-----------------------------------------------------------------------------
(* The views *)

Serves == UNCHANGED <<kind, request, expires, worker, reports, notice>>
Looks(v, p) == viewer' = [viewer EXCEPT ![v].pc = p]

\* get_job_or_404, by the status view or by the download view (wants).
GetJob(v) ==
  /\ viewer[v].pc = "idle" /\ request = "accepted" /\ Cached
  /\ \E wants \in BOOLEAN :
       viewer' = [viewer EXCEPT ![v] = [pc |-> "check", wants |-> wants,
                                        copy |-> entry.job]]
  /\ UNCHANGED <<entry, payload, file>> /\ Serves

\* Mutant of Expired: one unit early.
ExpiredEarly == expires <= 1
\* Mutant of Expired: only the entry's own lifetime ends a job.
ExpiredNever == FALSE
\* handle_job_expiry: the job's expires_at is not later than now.
Expired == expires = 0

\* The views refuse a job that expired, and a download that is not completed.
Check(v) ==
  /\ viewer[v].pc = "check"
  /\ Looks(v, IF Expired THEN "clean"
              ELSE IF viewer[v].wants /\ viewer[v].copy.status = "completed" THEN "serve"
              ELSE "idle")
  /\ UNCHANGED <<entry, payload, file>> /\ Serves

\* cleanup_files unlinks the file the viewer's copy of the job names.
CleanUp(v) ==
  /\ viewer[v].pc = "clean" /\ Looks(v, "delete")
  /\ file' = IF viewer[v].copy.file THEN "none" ELSE file
  /\ UNCHANGED <<entry, payload>> /\ Serves

Delete(v) ==
  /\ viewer[v].pc = "delete" /\ Looks(v, "idle")
  /\ DeleteJob
  /\ UNCHANGED file /\ Serves

\* The file is sent, or reported missing.
Serve(v) ==
  /\ viewer[v].pc = "serve" /\ Looks(v, "idle")
  /\ UNCHANGED <<entry, payload, file>> /\ Serves
-----------------------------------------------------------------------------
\* Time passes: what has no lifetime left is gone from the cache.
Less(n) == IF n = 0 THEN 0 ELSE n - 1
Tick ==
  /\ request # "start" /\ entry.left + payload + expires > 0
  /\ entry' = [entry EXCEPT !.left = Less(@)]
  /\ payload' = Less(payload) /\ expires' = Less(expires)
  /\ UNCHANGED <<kind, request, file, worker, reports, notice, viewer>>

Work ==
  \/ Take \/ LoadJob \/ LoadPayload \/ GetForUpdate \/ SetUpdated
  \/ Report \/ WorkFails \/ WorkEscapes \/ OpenFile \/ CloseFile \/ Notify

Next ==
  \/ Submit \/ Dispatch \/ Refuse
  \/ Work \/ Crash
  \/ \E v \in Viewers : GetJob(v) \/ Check(v) \/ CleanUp(v) \/ Delete(v) \/ Serve(v)
  \/ Tick

Spec == Init /\ [][Next]_vars
-----------------------------------------------------------------------------
(* Properties *)

\* What the views answer, if they ask now: an entry that a late update brought
\* back to the cache is still not found, because it expired.
Phase ==
  CASE request \in {"start", "dispatch"} -> "queued"
    [] request \in {"accepted", "refused"} ->
         IF ~Cached \/ Expired THEN "gone"
         ELSE [pending |-> "queued", running |-> "running", completed |-> "ok",
               failed |-> "failed"][entry.job.status]

Lifecycle == INSTANCE JobLifecycle WITH phase <- Phase, reruns <- FALSE, early <- FALSE

\* A job obeys the lifecycle every background job promises, although its
\* updates are not atomic and expiry, deletion and the worker are not ordered.
ObeysLifecycle == Lifecycle!Spec

\* The client was told expires_in: until then the entry is in the cache.
EntryOutlivesExpiry == request # "start" /\ expires > 0 => Cached

\* A job shown as completed has its file, whole, as long as it is not expired.
CompletedHasFile ==
  Cached /\ entry.job.status = "completed" /\ expires > 0 => file = "whole"

\* A download never sends a file that is still being written, also when the
\* job expires, is cleaned up or completes between the check and the sending.
ServesWholeFile ==
  \A v \in Viewers : viewer[v].pc = "serve" => file \in {"whole", "none"}
=============================================================================
