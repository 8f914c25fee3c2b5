---------------------------- MODULE JobLifecycle ----------------------------
(***************************************************************************)
(* What rail_django promises whoever polls a background job: a task of     *)
(* extensions/tasks, or an Excel, PDF or export job of                     *)
(* extensions/async_jobs.py.  The job is queued, may be seen running, ends *)
(* well only after it was running, and once it has ended it keeps its      *)
(* outcome until nobody can see it any more.  Only an executor that is run *)
(* again (the queue redelivers, or the database raised under it) may take  *)
(* an outcome back, and only one that began before the job was committed   *)
(* may end it well without having been seen.                               *)
(*                                                                         *)
(* Tasks and AsyncJobs implement this specification; phase is what a       *)
(* poller reads at that moment.                                            *)
(***************************************************************************)
VARIABLES phase,   \* what a poller of the job is told
          reruns,  \* the executor may be run again after it has ended
          early    \* the executor may begin before others can see the job

Phases == {"queued", "running", "ok", "failed", "gone"}
Ended == {"ok", "failed"}

TypeOK == phase \in Phases /\ reruns \in BOOLEAN /\ early \in BOOLEAN

Init == phase = "queued" /\ reruns \in BOOLEAN /\ early \in BOOLEAN

\* An executor has taken the job up.
Start == phase = "queued" /\ phase' = "running"

\* The executor has a result.
Succeed == (phase = "running" \/ (early /\ phase = "queued")) /\ phase' = "ok"

\* The job could not be handed to an executor, or the executor gave up.
Fail == phase \in {"queued", "running"} /\ phase' = "failed"

\* The job is not found any more: rolled back, expired or deleted.
Vanish == phase # "gone" /\ phase' = "gone"

\* A second execution of a job that has ended already.
Revive == reruns /\ phase \in Ended \cup {"gone"} /\ phase' \in Ended \cup {"running"}

Next ==
  /\ Start \/ Succeed \/ Fail \/ Vanish \/ Revive \/ UNCHANGED phase
  /\ reruns => reruns'
  /\ UNCHANGED early

Spec == Init /\ [][Next]_<<phase, reruns, early>>
=============================================================================
