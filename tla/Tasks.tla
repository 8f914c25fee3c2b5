------------------------------- MODULE Tasks -------------------------------
(***************************************************************************)
(* One background task of rail_django/extensions/tasks: the mutation that  *)
(* records it and hands it to a backend when its transaction commits, the  *)
(* executor that runs its callable with retries, and the TaskExecution row *)
(* everybody polls.                                                        *)
(*                                                                         *)
(* The mutation opens no transaction.  It runs in one of its caller, in    *)
(* autocommit, or in a transaction managed by hand, where on_commit raises *)
(* and the task is handed over before the commit: its executor then writes *)
(* to a row its connection cannot see.                                     *)
(*                                                                         *)
(* An action is one statement of the executor on the row, with the Python  *)
(* code up to the next one: the executor and the processes around it can   *)
(* die between any two.  attempts is the executor's local variable, and    *)
(* row.attempts what it has stored of it.                                  *)
(*                                                                         *)
(* The backends differ in what happens to a task whose executor dies or    *)
(* raises: a thread and a Celery message acknowledged on receipt (the      *)
(* default) are gone, a Dramatiq message is delivered again.               *)
(***************************************************************************)
EXTENDS Integers

CONSTANTS Backends,     \* the task_settings.backend values considered
          Transactions, \* the transactions the mutation may run in
          Reports,      \* the arguments callables give update_progress
          MaxRetries,   \* the task's max_retries
          MaxFaults     \* bound: deaths of a process, errors of the database
                        \* or of the broker in one behaviour

ASSUME BackendsAssumption == Backends \subseteq {"thread", "celery", "dramatiq"}
ASSUME TransactionsAssumption == Transactions \subseteq {"atomic", "autocommit", "manual"}
ASSUME ReportsAssumption == Reports \subseteq Int
ASSUME BoundsAssumption == MaxRetries \in Nat /\ MaxFaults \in Nat

VARIABLES
  backend,   \* the configured backend
  transaction, \* what the mutation runs in
  request,   \* the mutation that creates the task
  row,       \* the TaskExecution row
  message,   \* what was handed to the backend
  pc,        \* position of the executor in _execute_task
  attempts,  \* its attempt counter
  faults,    \* faults so far
  unsafe     \* history: the database raised inside an executor

vars == <<backend, transaction, request, row, message, pc, attempts, faults, unsafe>>

Requests == {"start", "created", "early", "committed", "again", "done", "rolled back"}
Messages == {"none", "queued", "taken", "lost", "acked"}
Positions == {"idle", "begin", "call", "store", "normalize", "except", "ack"}
TaskStatus == {"NONE", "PENDING", "RUNNING", "RETRYING", "SUCCESS", "FAILED"}
Percent == 0 .. 100
Row == [status : TaskStatus, progress : Percent, attempts : 0 .. MaxRetries + 1,
        error : BOOLEAN, completed : BOOLEAN, expires : {"never", "later", "past"}]
NoRow == [status |-> "NONE", progress |-> 0, attempts |-> 0, error |-> FALSE,
          completed |-> FALSE, expires |-> "never"]

TypeOK ==
  /\ backend \in Backends /\ transaction \in Transactions
  /\ request \in Requests
  /\ row \in Row
  /\ message \in Messages
  /\ pc \in Positions
  /\ attempts \in 0 .. MaxRetries + 1
  /\ faults \in 0 .. MaxFaults
  /\ unsafe \in BOOLEAN

Init ==
  /\ backend \in Backends /\ transaction \in Transactions
  /\ request = "start" /\ row = NoRow /\ message = "none"
  /\ pc = "idle" /\ attempts = 0
  /\ faults = 0 /\ unsafe = FALSE

Fault == faults < MaxFaults /\ faults' = faults + 1
NoFault == UNCHANGED <<faults, unsafe>>
-----------------------------------------------------------------------------
(* The mutation *)

Setting == UNCHANGED <<backend, transaction>>

\* The transaction is managed by hand: the task may be handed over too early.
Early == transaction = "manual"
Created == IF transaction = "autocommit" THEN "committed" ELSE "created"

\* Mutant of Create: the task is scheduled without waiting for the commit.
CreateAndEnqueue ==
  /\ request = "start" /\ request' = Created
  /\ row' = [NoRow EXCEPT !.status = "PENDING"]
  /\ message' = "queued"
  /\ UNCHANGED <<pc, attempts>> /\ Setting /\ NoFault
\* mutate creates the row, which autocommit commits, and calls on_commit, which
\* registers _enqueue, calls it, or raises.
Create ==
  /\ request = "start" /\ request' = Created
  /\ row' = [NoRow EXCEPT !.status = "PENDING"]
  /\ UNCHANGED <<message, pc, attempts>> /\ Setting /\ NoFault

Commit ==
  /\ \/ request = "created" /\ ~Early /\ request' = "committed"
     \/ request = "early" /\ request' = "done"
  /\ UNCHANGED <<row, message, pc, attempts>> /\ Setting /\ NoFault

\* The row is gone, and on_commit drops its callback.
Rollback ==
  /\ request \in {"created", "early"} /\ request' = "rolled back"
  /\ row' = NoRow
  /\ UNCHANGED <<message, pc, attempts>> /\ Setting /\ NoFault

\* _enqueue is called after the commit, or by the except clause around on_commit:
\* before it, or for the second time.
Enqueuing == request \in {"committed", "again"} \/ (request = "created" /\ Early)
Enqueued == request' = IF request = "created" THEN "early" ELSE "done"

\* _enqueue hands the task to the backend.
Enqueue ==
  /\ Enqueuing /\ Enqueued
  /\ message' = "queued"
  /\ UNCHANGED <<row, pc, attempts>> /\ Setting /\ NoFault

\* The backend is not installed or the callable not importable: the error
\* _schedule_task_execution returns becomes the outcome, with no expires_at.
Refuse ==
  /\ Enqueuing /\ Enqueued /\ backend # "thread"
  /\ row' = [row EXCEPT !.status = "FAILED", !.error = TRUE, !.completed = TRUE]
  /\ UNCHANGED <<message, pc, attempts>> /\ Setting /\ NoFault

\* In autocommit on_commit has called _enqueue: its exception is caught, and it
\* is called once more.  A broker that raises has not accepted the task.
EnqueueAgain ==
  /\ request = "committed" /\ transaction = "autocommit" /\ request' = "again"
  /\ Fault
  /\ UNCHANGED <<row, message, pc, attempts, unsafe>> /\ Setting

\* Nobody catches what _enqueue raises, or the web process dies before it.
LoseRequest ==
  /\ Enqueuing /\ Enqueued
  /\ message' = "lost" /\ Fault
  /\ UNCHANGED <<row, pc, attempts, unsafe>> /\ Setting
-----------------------------------------------------------------------------
(* _execute_task *)

Stay == UNCHANGED <<backend, transaction, request>>

\* An update of a row that is not committed, or rolled back, matches none.
Visible == request \in {"committed", "again", "done"}
Stored(new) == row' = IF Visible THEN new ELSE row

\* The executor is called with the task's id, whatever the row says.
Deliver ==
  /\ message = "queued" /\ message' = "taken"
  /\ pc' = "begin" /\ attempts' = 0
  /\ UNCHANGED row /\ Stay /\ NoFault

\* The executor has returned: its message is acknowledged.
Acknowledge ==
  /\ pc = "ack" /\ pc' = "idle" /\ message' = "acked"
  /\ UNCHANGED <<row, attempts>> /\ Stay /\ NoFault

\* One more attempt: RUNNING, started_at and attempts are stored, nothing else.
Attempt ==
  /\ pc = "begin" /\ pc' = "call"
  /\ attempts' = attempts + 1
  /\ Stored([row EXCEPT !.status = "RUNNING", !.attempts = attempts + 1])
  /\ UNCHANGED message /\ Stay /\ NoFault

\* Mutant of Clamped: the upper limit is not applied.
ClampedBelow(p) == IF p < 0 THEN 0 ELSE p
Clamped(p) == IF p < 0 THEN 0 ELSE IF p > 100 THEN 100 ELSE p

\* The callable reports its progress.
UpdateProgress ==
  /\ pc = "call"
  /\ \E p \in Reports : Stored([row EXCEPT !.progress = Clamped(p)])
  /\ UNCHANGED <<message, pc, attempts>> /\ Stay /\ NoFault

\* The callable returns, or raises.
CallEnds ==
  /\ pc = "call" /\ pc' \in {"store", "except"}
  /\ UNCHANGED <<row, message, attempts>> /\ Stay /\ NoFault

\* SUCCESS, result, completed_at and expires_at in one update.
StoreSuccess ==
  /\ pc = "store" /\ pc' = "normalize"
  /\ Stored([row EXCEPT !.status = "SUCCESS", !.progress = 100, !.error = FALSE,
                         !.completed = TRUE, !.expires = "later"])
  /\ UNCHANGED <<message, attempts>> /\ Stay /\ NoFault

\* Mutant of Normalize: a result that cannot be normalized raises.
NormalizeOrRaise ==
  /\ pc = "normalize" /\ pc' \in {"ack", "except"}
  /\ UNCHANGED <<row, message, attempts>> /\ Stay /\ NoFault
\* _normalize_task_result reads the row back and rewrites its result at most.
Normalize ==
  /\ pc = "normalize" /\ pc' = "ack"
  /\ UNCHANGED <<row, message, attempts>> /\ Stay /\ NoFault

\* Mutant of MayRetry: one attempt less than max_retries + 1.
MayRetryLess == attempts < MaxRetries
MayRetry == attempts <= MaxRetries

\* Mutant of Retry: the loop is left for good.
RetryAndReturn ==
  /\ pc = "except" /\ MayRetry /\ pc' = "ack"
  /\ Stored([row EXCEPT !.status = "RETRYING", !.error = TRUE])
  /\ UNCHANGED <<message, attempts>> /\ Stay /\ NoFault
\* The except clause: RETRYING and, after the backoff, the next attempt.
Retry ==
  /\ pc = "except" /\ MayRetry /\ pc' = "begin"
  /\ Stored([row EXCEPT !.status = "RETRYING", !.error = TRUE])
  /\ UNCHANGED <<message, attempts>> /\ Stay /\ NoFault

\* The except clause after the last attempt.
GiveUp ==
  /\ pc = "except" /\ ~MayRetry /\ pc' = "ack"
  /\ Stored([row EXCEPT !.status = "FAILED", !.error = TRUE,
                         !.completed = TRUE, !.expires = "later"])
  /\ UNCHANGED <<message, attempts>> /\ Stay /\ NoFault
-----------------------------------------------------------------------------
(* Faults and time *)

\* What the backend does with a task whose executor ended badly.
Unacked == IF backend = "dramatiq" THEN "queued" ELSE "lost"

\* The process of the executor dies; a thread may not have begun.
Crash ==
  /\ pc # "idle" \/ (backend = "thread" /\ message = "queued")
  /\ pc' = "idle" /\ message' = Unacked
  /\ Fault
  /\ UNCHANGED <<row, attempts, unsafe>> /\ Stay

\* The database raises inside the try block, also after SUCCESS was stored.
StoreRaises ==
  /\ pc \in {"store", "normalize"} /\ pc' = "except"
  /\ Fault /\ unsafe' = TRUE
  /\ UNCHANGED <<row, message, attempts>> /\ Stay

\* The database raises outside it: the exception leaves _execute_task.
UpdateRaises ==
  /\ pc \in {"begin", "except"} /\ pc' = "idle" /\ message' = Unacked
  /\ Fault /\ unsafe' = TRUE
  /\ UNCHANGED <<row, attempts>> /\ Stay

\* expires_at passes.
Expire ==
  /\ row.expires = "later" /\ row' = [row EXCEPT !.expires = "past"]
  /\ UNCHANGED <<message, pc, attempts>> /\ Stay /\ NoFault

Execute == \/ Deliver \/ Attempt \/ CallEnds \/ StoreSuccess \/ Normalize
           \/ Retry \/ GiveUp \/ Acknowledge

Next ==
  \/ Create \/ Commit \/ Rollback \/ Enqueue \/ Refuse \/ EnqueueAgain \/ LoseRequest
  \/ Execute \/ UpdateProgress
  \/ Crash \/ StoreRaises \/ UpdateRaises
  \/ Expire

\* The web process and the executor keep going, and every callable ends.
Fairness == WF_vars(Enqueue \/ Refuse) /\ WF_vars(Execute)
Spec == Init /\ [][Next]_vars /\ Fairness
-----------------------------------------------------------------------------
(* Properties *)

\* What TaskStatusView and the task query tell a poller: an expired row is not
\* found; a mutation whose transaction is open is not committed to anything.
Phase ==
  IF request = "rolled back" \/ row.expires = "past" THEN "gone"
  ELSE IF ~Visible THEN "queued"
  ELSE CASE row.status \in {"NONE", "PENDING"} -> "queued"
         [] row.status \in {"RUNNING", "RETRYING"} -> "running"
         [] row.status = "SUCCESS" -> "ok"
         [] row.status = "FAILED" -> "failed"

\* The executor may run again after the task has ended: the message is
\* delivered again, or an exception followed the SUCCESS it stored.
Reruns == unsafe \/ backend = "dramatiq"

Lifecycle == INSTANCE JobLifecycle WITH phase <- Phase, reruns <- Reruns, early <- Early

\* A task obeys the lifecycle every background job promises: an outcome is
\* never taken back unless the backend redelivers or the database raised, and it
\* is seen running before it ends well unless it was handed over too early.
ObeysLifecycle == Lifecycle!Spec

\* Unless the transaction is managed by hand and on_commit raised, no executor runs
\* for a row that others cannot see or that was rolled back.
RunsOnlyCommitted ==
  message # "none" \/ pc # "idle" =>
    Early \/ (request = "done" /\ row.status # "NONE")

FailedIsExhausted ==
  row.status = "FAILED" =>
    \/ row.attempts = MaxRetries + 1
    \/ row.attempts = 0 /\ (message = "none" \/ Early)
SuccessIsClean ==
  row.status = "SUCCESS" => row.completed /\ row.progress = 100 /\ ~row.error
\* FAILED is final: the callable was tried max_retries + 1 times in the last
\* execution, or the backend refused the task and it was never tried, or all its
\* attempts began before the commit of a task that was handed over too early; a
\* task reported as SUCCESS is complete and shows no error of an earlier attempt.
OutcomeIsEarned == FailedIsExhausted /\ SuccessIsClean

Settled == row.status \in {"SUCCESS", "FAILED"}
\* Every task that is committed before it is handed over gets an outcome, or its
\* message was lost with the process that held it; with a backend that redelivers
\* it always gets one.
TaskSettles ==
  /\ request = "committed" ~> Settled \/ message = "lost"
  /\ (message = "queued" /\ backend = "dramatiq" /\ ~Early) ~>
       (Settled /\ message = "acked")

\* Why the safety properties are inductive.  Where the mutation and the message
\* are tells whether there is a row and an executor;
Blank == row.attempts = 0 /\ row.expires = "never"
MessageInv ==
  /\ pc # "idle" <=> message = "taken"
  /\ message # "none" => request = "done" \/ (Early /\ request \in {"early", "rolled back"})
  /\ request = "early" => Early
  /\ request \in {"committed", "again"} => ~Early
  /\ request \in {"start", "rolled back"} => row.status = "NONE" /\ Blank
  /\ request \in {"created", "committed", "again"} => row.status = "PENDING" /\ Blank
  /\ request = "early" =>
       (row.status = "PENDING" \/ (row.status = "FAILED" /\ message = "none")) /\ Blank
  /\ request = "done" => row.status # "NONE"

\* where the executor is tells what it has stored of its current attempt, if it
\* could see the row;
Unseen == Early /\ row.attempts = 0 /\ row.status \in {"NONE", "PENDING"}
AttemptInv ==
  /\ pc = "begin" => attempts <= MaxRetries
  /\ pc \in {"call", "store", "normalize", "except"} =>
       attempts > 0 /\ (row.attempts = attempts \/ (Early /\ row.attempts = 0))
  /\ pc \in {"call", "store"} => row.status = "RUNNING" \/ Unseen
  /\ pc = "normalize" => row.status = "SUCCESS" \/ Unseen
  /\ pc = "except" => row.status \in {"RUNNING", "SUCCESS"} \/ Unseen

\* and without a second execution, an executor under way has no outcome yet.
FirstRunInv ==
  ~Reruns /\ (message = "queued" \/ pc \in {"begin", "call", "store", "except"}) =>
    row.status \notin {"SUCCESS", "FAILED"} /\ row.expires = "never"
=============================================================================
