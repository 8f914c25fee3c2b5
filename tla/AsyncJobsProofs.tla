-------------------------- MODULE AsyncJobsProofs --------------------------
(***************************************************************************)
(* Theorems about AsyncJobs, for any number of viewers and progress        *)
(* reports and every lifetime.                                             *)
(***************************************************************************)
EXTENDS AsyncJobs, TLAPS

\* The entry never has less time left than expires_at, and is deleted only
\* after expires_at; nobody works or looks before the client has the id.
LifeInv ==
  /\ request # "start" => expires <= entry.left
  /\ request # "accepted" => worker.pc = "idle" /\ \A v \in Viewers : viewer[v].pc = "idle"
  /\ \A v \in Viewers : viewer[v].pc \in {"clean", "delete"} => expires = 0

\* The file is there, whole, or was cleaned up after expires_at.
Kept == file # "partial" /\ (expires > 0 => file = "whole")

\* The worker completes the job last: it never works on a copy that says so.
WorkerInv ==
  /\ worker.copy.status # "completed"
  /\ worker.pc \in {"get", "set"} /\ worker.update = "completed" =>
       worker.next \in {"notify", "done"} /\ Kept

\* Once anybody sees the job completed, the worker is past writing.
Settled == worker.pc \in {"notify", "done"} /\ Kept
SettledInv ==
  /\ entry.job.status = "completed" => Settled
  /\ \A v \in Viewers : viewer[v].copy.status = "completed" => Settled
  /\ \A v \in Viewers : viewer[v].pc = "serve" => viewer[v].copy.status = "completed"

IInv == TypeOK /\ LifeInv /\ WorkerInv /\ SettledInv
-----------------------------------------------------------------------------
\* The invariant holds initially.
LEMMA InitIInv == Init => IInv
<1> SUFFICES ASSUME Init PROVE IInv
  OBVIOUS
<1>1. TypeOK
  BY KindsAssumption, TtlAssumption, BoundAssumption
     DEF Init, TypeOK, Job, JobStatus, Pending, Updates, Positions, Looking
<1>2. LifeInv /\ WorkerInv /\ SettledInv
  BY DEF Init, LifeInv, WorkerInv, SettledInv, Pending
<1> QED
  BY <1>1, <1>2 DEF IInv

\* Every step keeps the types.
LEMMA TypeStep == TypeOK /\ [Next]_vars => TypeOK'
<1> SUFFICES ASSUME TypeOK, [Next]_vars PROVE TypeOK'
  OBVIOUS
<1> USE TtlAssumption, BoundAssumption
    DEF TypeOK, Job, JobStatus, Updates, Positions, Looking
<1>1. CASE Submit
  BY <1>1 DEF Submit, Pending
<1>2. CASE Dispatch
  BY <1>2 DEF Dispatch
<1>3. CASE Refuse
  BY <1>3 DEF Refuse, Stored, Updated
<1>4. CASE Work
  <2> USE DEF Shared, Goes, CallsUpdate
  <2>1. CASE Take \/ WorkEscapes \/ OpenFile \/ Notify
    BY <2>1 DEF Take, WorkEscapes, OpenFile, Notify
  <2>2. CASE LoadJob \/ GetForUpdate
    <3>1. CASE Cached
      BY <2>2, <3>1 DEF LoadJob, GetForUpdate
    <3>2. CASE ~Cached
      BY <2>2, <3>2 DEF LoadJob, GetForUpdate
    <3> QED
      BY <3>1, <3>2
  <2>3. CASE SetUpdated
    BY <2>3 DEF SetUpdated, Stored, Updated
  <2>4. CASE Report
    <3>1. reports' \in 0 .. MaxReports
      BY <2>4 DEF Report
    <3>2. worker' \in [pc : Positions, update : Updates, next : Positions, copy : Job]
      BY <2>4 DEF Report
    <3> QED
      BY <2>4, <3>1, <3>2 DEF Report
  <2>5. CASE WorkFails
    <3>1. PICK p \in {"done", "notify"} : CallsUpdate("failed", p)
      BY <2>5 DEF WorkFails, Ending
    <3>2. worker' \in [pc : Positions, update : Updates, next : Positions, copy : Job]
      BY <3>1
    <3>3. UNCHANGED <<entry, file, reports, notice, kind, request, payload, expires, viewer>>
      BY <2>5 DEF WorkFails
    <3> QED
      BY <3>2, <3>3
  <2>6. CASE CloseFile
    BY <2>6 DEF CloseFile, Ending
  <2>7. CASE LoadPayload
    <3>1. PICK update \in Updates, p \in Positions : CallsUpdate(update, p)
      BY <2>7 DEF LoadPayload
    <3>2. worker' \in [pc : Positions, update : Updates, next : Positions, copy : Job]
      BY <3>1
    <3>3. UNCHANGED <<entry, file, reports, notice, kind, request, payload, expires, viewer>>
      BY <2>7 DEF LoadPayload
    <3> QED
      BY <3>2, <3>3
  <2> QED
    BY <1>4, <2>1, <2>2, <2>3, <2>4, <2>5, <2>6, <2>7 DEF Work
<1>5. CASE Crash
  BY <1>5 DEF Crash, Goes, Shared
<1>6. ASSUME NEW v \in Viewers, GetJob(v) \/ Check(v) \/ CleanUp(v) \/ Delete(v) \/ Serve(v)
      PROVE  TypeOK'
  <2> USE DEF Serves, Looks
  <2>1. CASE GetJob(v)
    <3>1. PICK wants \in BOOLEAN :
            viewer' = [viewer EXCEPT ![v] = [pc |-> "check", wants |-> wants, copy |-> entry.job]]
      BY <2>1 DEF GetJob
    <3> QED
      BY <2>1, <3>1 DEF GetJob
  <2>2. CASE Check(v)
    <3>1. PICK p \in {"clean", "serve", "idle"} : viewer' = [viewer EXCEPT ![v].pc = p]
      BY <2>2 DEF Check
    <3> QED
      BY <2>2, <3>1 DEF Check
  <2>3. CASE CleanUp(v) \/ Delete(v) \/ Serve(v)
    BY <2>3 DEF CleanUp, Delete, Serve, DeleteJob
  <2> QED
    BY <1>6, <2>1, <2>2, <2>3
<1>7. CASE Tick
  BY <1>7 DEF Tick, Less
<1>8. CASE UNCHANGED vars
  BY <1>8 DEF vars
<1> QED
  BY <1>1, <1>2, <1>3, <1>4, <1>5, <1>6, <1>7, <1>8 DEF Next
-----------------------------------------------------------------------------
Rest == LifeInv /\ WorkerInv /\ SettledInv

\* The request: it creates the entry, or marks it failed, before any worker.
LEMMA RequestSteps == ASSUME IInv, Submit \/ Dispatch \/ Refuse PROVE Rest'
<1> USE TtlAssumption
    DEF IInv, TypeOK, Job, JobStatus, Rest, LifeInv, WorkerInv, SettledInv, Settled, Kept
<1>1. CASE Submit
  BY <1>1 DEF Submit, Pending
<1>2. CASE Dispatch
  BY <1>2 DEF Dispatch, Positions
<1>3. CASE Refuse
  BY <1>3 DEF Refuse, Stored, Updated
<1> QED
  BY <1>1, <1>2, <1>3

\* The worker.
LEMMA WorkerSteps == ASSUME IInv, Work \/ Crash PROVE Rest'
<1> USE DEF IInv, TypeOK, Job, JobStatus, Positions, Updates, Shared, Goes, CallsUpdate,
            LifeInv, WorkerInv, SettledInv, Settled, Kept
<1>1. CASE Take \/ WorkEscapes \/ Notify \/ Crash
  BY <1>1 DEF Take, WorkEscapes, Notify, Crash, Rest
<1>2. CASE LoadJob \/ GetForUpdate
  <2>1. CASE Cached
    <3>1. CASE LoadJob
      BY <2>1, <3>1 DEF LoadJob, Rest
    <3>2. CASE GetForUpdate
      BY <2>1, <3>2 DEF GetForUpdate, Rest
    <3> QED
      BY <1>2, <3>1, <3>2
  <2>2. CASE ~Cached
    <3>1. CASE LoadJob
      BY <2>2, <3>1 DEF LoadJob, Rest
    <3>2. CASE GetForUpdate
      BY <2>2, <3>2 DEF GetForUpdate, Rest
    <3> QED
      BY <1>2, <3>1, <3>2
  <2> QED
    BY <2>1, <2>2
<1>3. CASE SetUpdated
  <2>1. entry'.left = Ttl /\ (entry'.job.status = "completed" => worker.update = "completed")
    BY <1>3 DEF SetUpdated, Stored, Updated
  <2> QED
    BY <1>3, <2>1, TtlAssumption DEF SetUpdated, Rest
<1>4. CASE Report \/ WorkFails \/ LoadPayload
  <2>1. PICK update \in {"rows", "failed", "running"}, p \in Positions : CallsUpdate(update, p)
    BY <1>4 DEF Report, WorkFails, LoadPayload, Ending
  <2> QED
    BY <1>4, <2>1 DEF Report, WorkFails, LoadPayload, Rest
<1>5. CASE OpenFile
  BY <1>5 DEF OpenFile, Rest
<1>6. CASE CloseFile
  BY <1>6 DEF CloseFile, Ending, Rest
<1> QED
  BY <1>1, <1>2, <1>3, <1>4, <1>5, <1>6 DEF Work

\* The views: files and entries are removed after expires_at only.
LEMMA ViewerSteps ==
  ASSUME IInv, NEW v \in Viewers, GetJob(v) \/ Check(v) \/ CleanUp(v) \/ Delete(v) \/ Serve(v)
  PROVE  Rest'
<1> USE DEF IInv, TypeOK, Job, JobStatus, Looking, Serves, Looks,
            LifeInv, WorkerInv, SettledInv, Settled, Kept
<1>1. CASE GetJob(v)
  BY <1>1 DEF GetJob, Rest
<1>2. CASE Check(v)
  BY <1>2 DEF Check, Expired, Rest
<1>3. CASE CleanUp(v)
  BY <1>3 DEF CleanUp, Rest
<1>4. CASE Delete(v)
  BY <1>4 DEF Delete, DeleteJob, Rest
<1>5. CASE Serve(v)
  BY <1>5 DEF Serve, Rest
<1> QED
  BY <1>1, <1>2, <1>3, <1>4, <1>5

\* Time passes for the entry and for expires_at alike.
LEMMA TickStep == ASSUME IInv, Tick PROVE Rest'
<1>1. expires \in Nat /\ entry.left \in Nat /\ expires' = Less(expires)
      /\ entry'.left = Less(entry.left) /\ entry'.job = entry.job
      /\ UNCHANGED <<request, file, worker, viewer>>
  BY TtlAssumption DEF Tick, IInv, TypeOK
<1>2. (expires = 0 => expires' = 0) /\ (expires' > 0 => expires > 0)
      /\ (expires <= entry.left => expires' <= entry'.left)
  BY <1>1 DEF Less
<1> QED
  BY <1>1, <1>2 DEF IInv, Rest, LifeInv, WorkerInv, SettledInv, Settled, Kept

LEMMA RestStep == IInv /\ [Next]_vars => Rest'
<1> SUFFICES ASSUME IInv, [Next]_vars PROVE Rest'
  OBVIOUS
<1>1. CASE UNCHANGED vars
  BY <1>1 DEF vars, IInv, Rest, LifeInv, WorkerInv, SettledInv, Settled, Kept
<1> QED
  BY <1>1, RequestSteps, WorkerSteps, ViewerSteps, TickStep DEF Next
-----------------------------------------------------------------------------
\* The inductive invariant holds in every reachable state.
THEOREM JobInvariant == Spec => []IInv
<1>1. IInv /\ [Next]_vars => IInv'
  BY TypeStep, RestStep DEF IInv, Rest
<1> QED
  BY <1>1, InitIInv, PTL DEF Spec

\* Every variable keeps its type.
THEOREM TypeCorrect == Spec => []TypeOK
<1>1. IInv => TypeOK
  BY DEF IInv
<1> QED
  BY <1>1, JobInvariant, PTL

\* Until the expires_in told to the client has passed, the job is found, since
\* every update gives the entry its full lifetime again and expires_at stays.
THEOREM EntriesOutliveExpiry == Spec => []EntryOutlivesExpiry
<1>1. IInv => EntryOutlivesExpiry
  BY TtlAssumption DEF IInv, TypeOK, LifeInv, EntryOutlivesExpiry, Cached
<1> QED
  BY <1>1, JobInvariant, PTL

\* A job that is shown completed before it expires has its file on disk.
THEOREM CompletedJobsHaveFiles == Spec => []CompletedHasFile
<1>1. IInv => CompletedHasFile
  BY DEF IInv, SettledInv, Settled, Kept, CompletedHasFile
<1> QED
  BY <1>1, JobInvariant, PTL

\* No download sends a half-written file, whatever the worker, the other views
\* and the clock do between its check and the sending.
THEOREM DownloadsAreWhole == Spec => []ServesWholeFile
<1>1. IInv => ServesWholeFile
  BY DEF IInv, TypeOK, SettledInv, Settled, Kept, ServesWholeFile
<1> QED
  BY <1>1, JobInvariant, PTL
-----------------------------------------------------------------------------
(* The refinement of JobLifecycle *)

\* Until expires_at the entry says where the worker is, because nobody else
\* writes it once the client has the id: update_job's get and set are not
\* separated by another update.
CurrentInv ==
  /\ request = "dispatch" => entry.job.status = "pending"
  /\ request = "accepted" /\ expires > 0 =>
       /\ worker.pc \in {"queued", "load", "payload"} => entry.job.status = "pending"
       /\ worker.pc \in {"work", "writing"} => entry.job.status = "running"
       /\ worker.pc \in {"get", "set"} =>
            \/ /\ worker.update = "running" /\ worker.next = "work"
               /\ entry.job.status = "pending"
            \/ /\ worker.update = "rows" /\ worker.next \in {"work", "writing"}
               /\ entry.job.status = "running"
            \/ /\ worker.update = "completed" /\ worker.next \in {"notify", "done"}
               /\ entry.job.status = "running"
            \/ /\ worker.update = "failed" /\ worker.next \in {"notify", "done"}
               /\ entry.job.status \in {"pending", "running"}
       /\ worker.pc = "set" => worker.copy = entry.job

LEMMA CurrentInit == Init => CurrentInv
BY DEF Init, CurrentInv

\* The worker's steps keep entry and position together.
LEMMA CurrentWork ==
  ASSUME IInv, CurrentInv, Work \/ Crash PROVE CurrentInv'
<1>0. /\ request' = request /\ expires' = expires
      /\ expires \in Nat /\ entry.left \in Nat
      /\ (request = "accepted" /\ expires > 0 => Cached)
  <2>1. UNCHANGED <<request, expires>>
    BY DEF Work, Crash, Take, LoadJob, LoadPayload, GetForUpdate, SetUpdated,
       Report, WorkFails, WorkEscapes, OpenFile, CloseFile, Notify, Shared
  <2>2. expires \in Nat /\ entry.left \in Nat
    BY TtlAssumption DEF IInv, TypeOK
  <2>3. request = "accepted" /\ expires > 0 => Cached
    BY TtlAssumption, <2>2 DEF IInv, LifeInv, Cached
  <2> QED BY <2>1, <2>2, <2>3
<1> USE DEF CurrentInv, Shared, Goes, CallsUpdate, IInv, TypeOK, Job, LifeInv
<1>1. CASE request # "accepted"
  BY <1>0, <1>1 DEF Work, Crash, Take, LoadJob, LoadPayload, GetForUpdate, SetUpdated,
     Report, WorkFails, WorkEscapes, OpenFile, CloseFile, Notify
<1>2. CASE request = "accepted" /\ expires = 0
  BY <1>0, <1>2
<1>3. CASE request = "accepted" /\ expires > 0
  <2>1. CASE Take \/ WorkEscapes \/ OpenFile \/ Notify \/ Crash
    BY <1>0, <1>3, <2>1 DEF Take, WorkEscapes, OpenFile, Notify, Crash
  <2>2. CASE LoadJob \/ GetForUpdate
    BY <1>0, <1>3, <2>2 DEF LoadJob, GetForUpdate
  <2>3. CASE LoadPayload
    BY <1>0, <1>3, <2>3 DEF LoadPayload
  <2>4. CASE SetUpdated
    <3>1. worker'.pc = worker.next /\ entry'.job = Updated(worker.copy, worker.update)
      BY <2>4 DEF SetUpdated, Stored
    <3>2. worker.copy = entry.job
      BY <1>3, <2>4 DEF SetUpdated
    <3>3. CASE worker.update = "running" \/ worker.update = "rows"
      BY <1>0, <1>3, <2>4, <3>1, <3>2, <3>3 DEF SetUpdated, Updated
    <3>4. CASE worker.update \in {"completed", "failed"}
      <4>1. worker'.pc \in {"notify", "done"}
        BY <1>3, <2>4, <3>1, <3>4 DEF SetUpdated
      <4> QED BY <1>0, <1>3, <4>1
    <3> QED BY <3>3, <3>4 DEF Updates
  <2>5. CASE Report
    <3>1. worker' = [worker EXCEPT !.pc = "get", !.update = "rows", !.next = worker.pc]
          /\ worker.pc \in {"work", "writing"} /\ UNCHANGED entry
      BY <2>5 DEF Report
    <3> QED BY <1>0, <1>3, <3>1
  <2>6. CASE WorkFails
    <3>1. PICK p \in {"notify", "done"} :
            worker' = [worker EXCEPT !.pc = "get", !.update = "failed", !.next = p]
      BY <2>6 DEF WorkFails, Ending
    <3>2. worker.pc \in {"work", "writing"} /\ UNCHANGED entry
      BY <2>6 DEF WorkFails
    <3> QED BY <1>0, <1>3, <3>1, <3>2
  <2>7. CASE CloseFile
    <3>1. PICK p \in {"notify", "done"} :
            worker' = [worker EXCEPT !.pc = "get", !.update = "completed", !.next = p]
      BY <2>7 DEF CloseFile, Ending
    <3>2. worker.pc = "writing" /\ UNCHANGED entry
      BY <2>7 DEF CloseFile
    <3> QED BY <1>0, <1>3, <3>1, <3>2
  <2> QED BY <2>1, <2>2, <2>3, <2>4, <2>5, <2>6, <2>7 DEF Work
<1> QED BY <1>0, <1>1, <1>2, <1>3

LEMMA CurrentStep == IInv /\ CurrentInv /\ [Next]_vars => CurrentInv'
<1> SUFFICES ASSUME IInv, CurrentInv, [Next]_vars PROVE CurrentInv'
  OBVIOUS
<1>0. expires \in Nat
  BY TtlAssumption DEF IInv, TypeOK
<1>1. CASE Submit \/ Refuse
  BY <1>1 DEF Submit, Refuse, CurrentInv, Pending
<1>2. CASE Dispatch
  BY <1>2 DEF Dispatch, CurrentInv, IInv, TypeOK
<1>3. CASE Work \/ Crash
  BY <1>3, CurrentWork
<1>4. ASSUME NEW v \in Viewers, GetJob(v) \/ Check(v) \/ CleanUp(v) \/ Delete(v) \/ Serve(v)
      PROVE  CurrentInv'
  <2>1. UNCHANGED <<request, expires, worker>> /\ entry'.job = entry.job
    BY <1>4 DEF GetJob, Check, CleanUp, Delete, DeleteJob, Serve, Serves, IInv, TypeOK
  <2> QED BY <2>1 DEF CurrentInv
<1>5. CASE Tick
  <2>1. UNCHANGED <<request, worker>> /\ entry'.job = entry.job
        /\ (expires' > 0 => expires > 0)
    BY <1>0, <1>5 DEF Tick, IInv, TypeOK, Less
  <2> QED BY <2>1 DEF CurrentInv
<1>6. CASE UNCHANGED vars
  BY <1>6 DEF vars, CurrentInv
<1> QED BY <1>1, <1>2, <1>3, <1>4, <1>5, <1>6 DEF Next

\* What a poller sees, one fact per case.
PhaseFacts ==
  /\ request \in {"start", "dispatch"} => Phase = "queued"
  /\ request \in {"accepted", "refused"} =>
       /\ expires = 0 => Phase = "gone"
       /\ expires > 0 =>
            /\ entry.job.status = "pending" => Phase = "queued"
            /\ entry.job.status = "running" => Phase = "running"
            /\ entry.job.status = "completed" => Phase = "ok"
            /\ entry.job.status = "failed" => Phase = "failed"

LEMMA PhaseOfState == IInv => PhaseFacts
<1> SUFFICES ASSUME IInv PROVE PhaseFacts
  OBVIOUS
<1>1. request \in {"accepted", "refused"} /\ expires > 0 => Cached /\ ~Expired
  BY TtlAssumption DEF IInv, TypeOK, LifeInv, Cached, Expired
<1>2. expires = 0 => Expired
  BY DEF Expired
<1>3. entry.job.status \in JobStatus
  BY DEF IInv, TypeOK, Job
<1> QED BY <1>1, <1>2, <1>3 DEF PhaseFacts, Phase, JobStatus

\* What a step may do to what a poller sees.
Moves == \/ Lifecycle!Start \/ Lifecycle!Succeed \/ Lifecycle!Fail \/ Lifecycle!Vanish
         \/ UNCHANGED Phase

\* Steps that leave the request, the status and expires_at alone are not seen.
LEMMA Unseen ==
  ASSUME IInv, PhaseFacts, PhaseFacts', UNCHANGED <<request, expires>>,
         entry'.job.status = entry.job.status
  PROVE  UNCHANGED Phase
<1>1. request \in {"start", "dispatch", "accepted", "refused"}
      /\ expires \in Nat /\ entry.job.status \in JobStatus
  BY TtlAssumption DEF IInv, TypeOK, Job
<1>2. expires = 0 \/ expires > 0
  BY <1>1
<1> QED BY <1>1, <1>2 DEF PhaseFacts, JobStatus

LEMMA StepMoves ==
  ASSUME IInv, IInv', CurrentInv, [Next]_vars PROVE Moves
<1>0. PhaseFacts /\ PhaseFacts'
  <2>1. IInv' => PhaseFacts'
    BY PhaseOfState, PTL
  <2> QED BY <2>1, PhaseOfState
<1>1. /\ request \in {"start", "dispatch", "accepted", "refused"}
      /\ expires \in Nat /\ expires' \in Nat
      /\ entry.job.status \in JobStatus /\ entry'.job.status \in JobStatus
  BY TtlAssumption DEF IInv, TypeOK, Job
<1> USE DEF Moves, Lifecycle!Start, Lifecycle!Succeed, Lifecycle!Fail, Lifecycle!Vanish
<1>2. CASE Submit
  BY <1>0, <1>2 DEF Submit, PhaseFacts
<1>3. CASE Dispatch
  <2>1. request = "dispatch" /\ request' = "accepted" /\ entry'.job.status = "pending"
    BY <1>3 DEF Dispatch, CurrentInv
  <2> QED BY <1>0, <1>1, <2>1 DEF PhaseFacts
<1>4. CASE Refuse
  <2>1. request = "dispatch" /\ request' = "refused" /\ entry.job.status = "pending"
    BY <1>4 DEF Refuse, CurrentInv
  <2>2. entry'.job.status \in {"pending", "failed"}
    BY <1>4, <2>1 DEF Refuse, Stored, Updated, IInv, TypeOK, Job
  <2> QED BY <1>0, <1>1, <2>1, <2>2 DEF PhaseFacts
<1>5. CASE SetUpdated
  <2>1. request = "accepted" /\ UNCHANGED <<request, expires>>
    BY <1>5 DEF SetUpdated, Shared, IInv, LifeInv
  <2>2. CASE expires = 0
    BY <1>0, <2>1, <2>2 DEF PhaseFacts
  <2>3. CASE expires > 0
    <3>1. entry'.job = Updated(entry.job, worker.update)
      BY <1>5, <2>1, <2>3 DEF SetUpdated, Stored, CurrentInv
    <3>2. \/ entry.job.status = "pending" /\ entry'.job.status = "running"
          \/ entry.job.status = "running" /\ entry'.job.status = "running"
          \/ entry.job.status = "running" /\ entry'.job.status = "completed"
          \/ entry.job.status \in {"pending", "running"} /\ entry'.job.status = "failed"
      BY <1>5, <2>1, <2>3, <3>1 DEF SetUpdated, CurrentInv, Updated, IInv, TypeOK, Job
    <3> QED BY <1>0, <2>1, <2>3, <3>2 DEF PhaseFacts
  <2> QED BY <1>1, <2>2, <2>3
<1>6. CASE (Work /\ ~SetUpdated) \/ Crash
  <2>1. UNCHANGED <<request, expires, entry>>
    BY <1>6 DEF Work, Crash, Shared, Take, LoadJob, LoadPayload, GetForUpdate, Report,
       WorkFails, WorkEscapes, OpenFile, CloseFile, Notify
  <2> QED BY <1>0, <2>1, Unseen
<1>7. ASSUME NEW v \in Viewers, GetJob(v) \/ Check(v) \/ CleanUp(v) \/ Delete(v) \/ Serve(v)
      PROVE  UNCHANGED Phase
  <2>1. UNCHANGED <<request, expires>> /\ entry'.job = entry.job
    BY <1>7 DEF GetJob, Check, CleanUp, Delete, DeleteJob, Serve, Serves, IInv, TypeOK
  <2> QED BY <1>0, <2>1, Unseen
<1>8. CASE Tick
  <2>1. UNCHANGED request /\ entry'.job.status = entry.job.status
        /\ (expires = 0 => expires' = 0)
    BY <1>1, <1>8 DEF Tick, Less, IInv, TypeOK, Job
  <2>2. CASE expires' = 0
    BY <1>0, <1>1, <2>1, <2>2 DEF PhaseFacts, JobStatus
  <2>3. CASE expires' > 0 /\ expires > 0
    BY <1>0, <1>1, <2>1, <2>3 DEF PhaseFacts, JobStatus
  <2> QED BY <1>1, <2>1, <2>2, <2>3
<1>9. CASE UNCHANGED vars
  BY <1>0, <1>9, Unseen DEF vars
<1> QED BY <1>2, <1>3, <1>4, <1>5, <1>6, <1>7, <1>8, <1>9 DEF Next

\* Whoever polls a file job sees the lifecycle that background jobs promise: in
\* particular no late update takes an outcome back or revives an expired job.
THEOREM JobObeysLifecycle == Spec => ObeysLifecycle
<1>1. Init => Lifecycle!Init
  BY DEF Init, Lifecycle!Init, Phase
<1>2. IInv /\ IInv' /\ CurrentInv /\ [Next]_vars => [Lifecycle!Next]_<<Phase, FALSE, FALSE>>
  BY StepMoves DEF Lifecycle!Next, Moves
<1>3. Init => CurrentInv
  BY CurrentInit
<1>4. IInv /\ CurrentInv /\ [Next]_vars => CurrentInv'
  BY CurrentStep
<1> QED
  BY <1>1, <1>2, <1>3, <1>4, JobInvariant, PTL DEF Spec, ObeysLifecycle, Lifecycle!Spec
=============================================================================
