---------------------------- MODULE TasksProofs ----------------------------
(***************************************************************************)
(* What Tasks promises for every max_retries, every set of backends, every *)
(* number of faults and whatever callables report as progress.             *)
(***************************************************************************)
EXTENDS Tasks, TLAPS

\* update_progress stores a percentage, whatever the callable reports.
LEMMA ClampedIsPercentage == \A p \in Int : Clamped(p) \in Percent
  BY DEF Clamped, Percent

\* The percentages the executor stores itself.
LEMMA Percentages == 0 \in Percent /\ 100 \in Percent
  BY DEF Percent

(***************************************************************************)
(* The inductive invariant: the type, which needs AttemptInv to bound the  *)
(* counter of attempts, and the parts that Tasks explains.                 *)
(***************************************************************************)
IInv == TypeOK /\ MessageInv /\ AttemptInv /\ FirstRunInv
          /\ FailedIsExhausted /\ SuccessIsClean

\* The row is well-formed before there is one, and when it is created.
LEMMA NewRows == NoRow \in Row /\ [NoRow EXCEPT !.status = "PENDING"] \in Row
  <1>1. 0 \in 0 .. MaxRetries + 1
    BY BoundsAssumption
  <1> QED
    BY <1>1, Percentages DEF NoRow, Row, TaskStatus

\* A task starts in the invariant: there is no row and no message.
LEMMA InitInvariant == Init => IInv
  <1> SUFFICES ASSUME Init PROVE IInv
    OBVIOUS
  <1>1. TypeOK
    <2>1. 0 \in 0 .. MaxRetries + 1 /\ 0 \in 0 .. MaxFaults
      BY BoundsAssumption
    <2> QED
    BY <2>1, NewRows DEF Init, TypeOK, Requests, Messages, Positions
  <1>2. MessageInv /\ AttemptInv /\ FirstRunInv
    BY DEF Init, MessageInv, AttemptInv, FirstRunInv, Blank, NoRow
  <1>3. FailedIsExhausted /\ SuccessIsClean
    BY DEF Init, FailedIsExhausted, SuccessIsClean, NoRow
  <1> QED
    BY <1>1, <1>2, <1>3 DEF IInv

\* The counter of attempts starts in its range and stays there.
LEMMA CounterBounded ==
  /\ 0 \in 0 .. MaxRetries + 1
  /\ \A n \in 0 .. MaxRetries + 1 : n <= MaxRetries => n + 1 \in 0 .. MaxRetries + 1
  BY BoundsAssumption

\* It counts.
LEMMA CounterCounts ==
  ASSUME attempts \in 0 .. MaxRetries + 1
  PROVE  /\ attempts \in Nat /\ attempts + 1 > 0 /\ 0 <= MaxRetries
         /\ ~(attempts <= MaxRetries) => attempts = MaxRetries + 1
  BY BoundsAssumption

\* Faults are counted up to their bound.
LEMMA FaultBounded ==
  ASSUME faults \in 0 .. MaxFaults, Fault PROVE faults' \in 0 .. MaxFaults
  BY BoundsAssumption DEF Fault

(***************************************************************************)
(* What the statements write.  An executor that cannot see the row leaves  *)
(* it as it is.                                                            *)
(***************************************************************************)
Writes(status, tried, expires) ==
  /\ row' \in Row
  /\ row'.status = status /\ row'.attempts = tried /\ row'.expires = expires

LEMMA CreateEffect ==
  ASSUME Create PROVE Writes("PENDING", 0, "never")
  BY NewRows DEF Create, Writes, NoRow

LEMMA RollbackEffect ==
  ASSUME Rollback PROVE Writes("NONE", 0, "never")
  BY NewRows DEF Rollback, Writes, NoRow

LEMMA RefuseEffect ==
  ASSUME TypeOK, Refuse PROVE Writes("FAILED", row.attempts, row.expires)
  BY DEF Refuse, TypeOK, Row, TaskStatus, Writes

LEMMA AttemptEffect ==
  ASSUME TypeOK, AttemptInv, Attempt
  PROVE  /\ Visible => Writes("RUNNING", attempts + 1, row.expires)
         /\ ~Visible => UNCHANGED row
  <1>1. attempts + 1 \in 0 .. MaxRetries + 1
    BY CounterBounded, Zenon DEF Attempt, AttemptInv, TypeOK
  <1> QED
    BY <1>1 DEF Attempt, Stored, TypeOK, Row, TaskStatus, Writes

LEMMA UpdateProgressEffect ==
  ASSUME TypeOK, UpdateProgress PROVE Writes(row.status, row.attempts, row.expires)
  BY ReportsAssumption, ClampedIsPercentage
  DEF UpdateProgress, Stored, TypeOK, Row, Writes

LEMMA StoreSuccessEffect ==
  ASSUME TypeOK, StoreSuccess
  PROVE  /\ Visible => Writes("SUCCESS", row.attempts, "later")
         /\ Visible => row'.completed /\ row'.progress = 100 /\ ~row'.error
         /\ ~Visible => UNCHANGED row
  BY Percentages DEF StoreSuccess, Stored, TypeOK, Row, TaskStatus, Writes

LEMMA RetryEffect ==
  ASSUME TypeOK, Retry
  PROVE  /\ Visible => Writes("RETRYING", row.attempts, row.expires)
         /\ ~Visible => UNCHANGED row
  BY DEF Retry, Stored, TypeOK, Row, TaskStatus, Writes

LEMMA GiveUpEffect ==
  ASSUME TypeOK, GiveUp
  PROVE  /\ Visible => Writes("FAILED", row.attempts, "later")
         /\ ~Visible => UNCHANGED row
  BY DEF GiveUp, Stored, TypeOK, Row, TaskStatus, Writes

LEMMA ExpireEffect ==
  ASSUME TypeOK, Expire
  PROVE  /\ row.expires = "later" /\ Writes(row.status, row.attempts, "past")
         /\ row'.completed = row.completed /\ row'.progress = row.progress
         /\ row'.error = row.error
  BY DEF Expire, TypeOK, Row, Writes

\* Every statement leaves a well-formed row, message and executor behind.
LEMMA StepType == ASSUME TypeOK, AttemptInv, [Next]_vars PROVE TypeOK'
  <1> USE DEF TypeOK, Requests, Messages, Positions
  <1>1. CASE Create
    BY <1>1, CreateEffect DEF Create, Setting, NoFault, Created, Writes
  <1>2. CASE Commit
    BY <1>2 DEF Commit, Setting, NoFault
  <1>3. CASE Rollback
    BY <1>3, RollbackEffect DEF Rollback, Setting, NoFault, Writes
  <1>4. CASE Enqueue
    BY <1>4 DEF Enqueue, Setting, NoFault, Enqueuing, Enqueued
  <1>5. CASE Refuse
    BY <1>5, RefuseEffect DEF Refuse, Setting, NoFault, Enqueuing, Enqueued, Writes
  <1>6. CASE EnqueueAgain
    BY <1>6, FaultBounded DEF EnqueueAgain, Setting
  <1>7. CASE LoseRequest
    BY <1>7, FaultBounded DEF LoseRequest, Setting, Enqueuing, Enqueued
  <1>8. CASE Deliver
    <2>1. attempts' \in 0 .. MaxRetries + 1
      BY <1>8, CounterBounded, Zenon DEF Deliver
    <2>2. pc' \in Positions /\ message' \in Messages
      BY <1>8 DEF Deliver
    <2>3. UNCHANGED <<backend, transaction, request, row, faults, unsafe>>
      BY <1>8 DEF Deliver, NoFault, Stay
    <2> HIDE DEF Positions, Messages, Requests
    <2> QED
      BY <2>1, <2>2, <2>3
  <1>9. CASE Attempt
    <2>1. attempts' \in 0 .. MaxRetries + 1
      BY <1>9, CounterBounded, Zenon DEF Attempt, AttemptInv
    <2>2. pc' \in Positions /\ message' \in Messages
      BY <1>9 DEF Attempt
    <2>3. UNCHANGED <<backend, transaction, request, faults, unsafe>>
      BY <1>9 DEF Attempt, NoFault, Stay
    <2>4. row' \in Row
      BY <1>9, AttemptEffect DEF Writes
    <2> HIDE DEF Positions, Messages, Requests
    <2> QED
      BY <2>1, <2>2, <2>3, <2>4
  <1>10. CASE UpdateProgress
    BY <1>10, UpdateProgressEffect DEF UpdateProgress, Stay, NoFault, Writes
  <1>11. CASE CallEnds
    BY <1>11 DEF CallEnds, Stay, NoFault
  <1>12. CASE StoreSuccess
    BY <1>12, StoreSuccessEffect DEF StoreSuccess, Stay, NoFault, Writes
  <1>13. CASE Normalize
    BY <1>13 DEF Normalize, Stay, NoFault
  <1>14. CASE Retry
    BY <1>14, RetryEffect DEF Retry, Stay, NoFault, MayRetry, Writes
  <1>15. CASE GiveUp
    BY <1>15, GiveUpEffect DEF GiveUp, Stay, NoFault, MayRetry, Writes
  <1>16. CASE Acknowledge
    BY <1>16 DEF Acknowledge, Stay, NoFault
  <1>17. CASE Crash
    BY <1>17, FaultBounded DEF Crash, Stay, Unacked
  <1>18. CASE StoreRaises
    BY <1>18, FaultBounded DEF StoreRaises, Stay
  <1>19. CASE UpdateRaises
    BY <1>19, FaultBounded DEF UpdateRaises, Stay, Unacked
  <1>20. CASE Expire
    BY <1>20, ExpireEffect DEF Expire, Stay, NoFault, Writes
  <1>21. CASE UNCHANGED vars
    BY <1>21 DEF vars
  <1> QED
    BY <1>1, <1>2, <1>3, <1>4, <1>5, <1>6, <1>7, <1>8, <1>9, <1>10, <1>11,
       <1>12, <1>13, <1>14, <1>15, <1>16, <1>17, <1>18, <1>19, <1>20, <1>21
    DEF Next, Execute

\* Every statement keeps row, message and position together.
LEMMA StepMessage ==
  ASSUME TypeOK, MessageInv, AttemptInv, [Next]_vars PROVE MessageInv'
  <1> USE BoundsAssumption DEF TypeOK, MessageInv, Blank, Early, Visible, Writes,
      Requests, Messages, Positions
  <1>1. CASE Create
    BY <1>1, CreateEffect DEF Create, Setting, NoFault, Created
  <1>2. CASE Commit
    BY <1>2 DEF Commit, Setting, NoFault
  <1>3. CASE Rollback
    BY <1>3, RollbackEffect DEF Rollback, Setting, NoFault
  <1>4. CASE Enqueue
    BY <1>4 DEF Enqueue, Setting, NoFault, Enqueuing, Enqueued
  <1>5. CASE Refuse
    BY <1>5, RefuseEffect DEF Refuse, Setting, NoFault, Enqueuing, Enqueued
  <1>6. CASE EnqueueAgain
    BY <1>6 DEF EnqueueAgain, Setting, Fault
  <1>7. CASE LoseRequest
    BY <1>7 DEF LoseRequest, Setting, Fault, Enqueuing, Enqueued
  <1>8. CASE Deliver
    BY <1>8 DEF Deliver, Stay, NoFault
  <1>9. CASE Attempt
    BY <1>9, AttemptEffect DEF Attempt, Stay, NoFault
  <1>10. CASE UpdateProgress
    BY <1>10, UpdateProgressEffect DEF UpdateProgress, Stay, NoFault
  <1>11. CASE CallEnds
    BY <1>11 DEF CallEnds, Stay, NoFault
  <1>12. CASE StoreSuccess
    BY <1>12, StoreSuccessEffect DEF StoreSuccess, Stay, NoFault
  <1>13. CASE Normalize
    BY <1>13 DEF Normalize, Stay, NoFault
  <1>14. CASE Retry
    BY <1>14, RetryEffect DEF Retry, Stay, NoFault, MayRetry
  <1>15. CASE GiveUp
    BY <1>15, GiveUpEffect DEF GiveUp, Stay, NoFault, MayRetry
  <1>16. CASE Acknowledge
    BY <1>16 DEF Acknowledge, Stay, NoFault
  <1>17. CASE Crash
    BY <1>17 DEF Crash, Stay, Fault, Unacked
  <1>18. CASE StoreRaises
    BY <1>18 DEF StoreRaises, Stay, Fault
  <1>19. CASE UpdateRaises
    BY <1>19 DEF UpdateRaises, Stay, Fault, Unacked
  <1>20. CASE Expire
    BY <1>20, ExpireEffect DEF Expire, Stay, NoFault
  <1>21. CASE UNCHANGED vars
    BY <1>21 DEF vars
  <1> QED
    BY <1>1, <1>2, <1>3, <1>4, <1>5, <1>6, <1>7, <1>8, <1>9, <1>10, <1>11,
       <1>12, <1>13, <1>14, <1>15, <1>16, <1>17, <1>18, <1>19, <1>20, <1>21
    DEF Next, Execute

\* Every statement stores what its position says of the current attempt.
LEMMA StepAttempt ==
  ASSUME TypeOK, MessageInv, AttemptInv, [Next]_vars PROVE AttemptInv'
  <1> USE BoundsAssumption DEF TypeOK, MessageInv, AttemptInv, Unseen, Blank, Early, Visible,
      Writes, Requests
  <1>1. CASE Create
    BY <1>1, CreateEffect DEF Create, Setting, NoFault, Created
  <1>2. CASE Commit
    BY <1>2 DEF Commit, Setting, NoFault
  <1>3. CASE Rollback
    BY <1>3, RollbackEffect DEF Rollback, Setting, NoFault
  <1>4. CASE Enqueue
    BY <1>4 DEF Enqueue, Setting, NoFault, Enqueuing, Enqueued
  <1>5. CASE Refuse
    BY <1>5, RefuseEffect DEF Refuse, Setting, NoFault, Enqueuing, Enqueued
  <1>6. CASE EnqueueAgain
    BY <1>6 DEF EnqueueAgain, Setting, Fault
  <1>7. CASE LoseRequest
    BY <1>7 DEF LoseRequest, Setting, Fault, Enqueuing, Enqueued
  <1>8. CASE Deliver
    <2>1. pc' = "begin" /\ attempts' = 0
      BY <1>8 DEF Deliver
    <2>2. 0 <= MaxRetries
      BY CounterCounts, Zenon DEF TypeOK
    <2> QED
      BY <2>1, <2>2
  <1>9. CASE Attempt
    <2>1. /\ pc' = "call" /\ attempts' = attempts + 1 /\ attempts \in Nat
          /\ UNCHANGED <<transaction, request>> /\ attempts' > 0
      <3>1. attempts \in Nat
        BY CounterCounts, Zenon DEF TypeOK
      <3>2. attempts + 1 > 0
        BY CounterCounts, Zenon DEF TypeOK
      <3> HIDE DEF TypeOK, MessageInv, AttemptInv
      <3> QED
        BY <1>9, <3>1, <3>2 DEF Attempt, Stay
    <2>2. CASE Visible
      <3>1. row'.attempts = attempts' /\ row'.status = "RUNNING"
        BY <1>9, <2>1, <2>2, AttemptEffect
      <3> HIDE DEF TypeOK, MessageInv, Writes
      <3> QED
        BY <2>1, <3>1
    <2>3. CASE ~Visible
      <3>1. Early /\ row.attempts = 0 /\ row.status \in {"NONE", "PENDING"} /\ row' = row
        BY <1>9, <2>3, AttemptEffect DEF Attempt
      <3> HIDE DEF TypeOK, MessageInv, Writes
      <3> QED
        BY <2>1, <3>1
    <2> QED
      BY <2>2, <2>3
  <1>10. CASE UpdateProgress
    <2>1. /\ row'.status = row.status /\ row'.attempts = row.attempts
          /\ UNCHANGED <<pc, attempts, transaction>>
      BY <1>10, UpdateProgressEffect DEF UpdateProgress, Stay
    <2> HIDE DEF TypeOK, MessageInv, Writes
    <2> QED
      BY <2>1
  <1>11. CASE CallEnds
    BY <1>11 DEF CallEnds, Stay, NoFault
  <1>12. CASE StoreSuccess
    BY <1>12, StoreSuccessEffect DEF StoreSuccess, Stay, NoFault
  <1>13. CASE Normalize
    BY <1>13 DEF Normalize, Stay, NoFault
  <1>14. CASE Retry
    BY <1>14, RetryEffect DEF Retry, Stay, NoFault, MayRetry
  <1>15. CASE GiveUp
    BY <1>15, GiveUpEffect DEF GiveUp, Stay, NoFault, MayRetry
  <1>16. CASE Acknowledge
    BY <1>16 DEF Acknowledge, Stay, NoFault
  <1>17. CASE Crash
    BY <1>17 DEF Crash, Stay, Fault, Unacked
  <1>18. CASE StoreRaises
    BY <1>18 DEF StoreRaises, Stay, Fault
  <1>19. CASE UpdateRaises
    BY <1>19 DEF UpdateRaises, Stay, Fault, Unacked
  <1>20. CASE Expire
    BY <1>20, ExpireEffect DEF Expire, Stay, NoFault
  <1>21. CASE UNCHANGED vars
    BY <1>21 DEF vars
  <1> QED
    BY <1>1, <1>2, <1>3, <1>4, <1>5, <1>6, <1>7, <1>8, <1>9, <1>10, <1>11,
       <1>12, <1>13, <1>14, <1>15, <1>16, <1>17, <1>18, <1>19, <1>20, <1>21
    DEF Next, Execute

\* An executor under way has no outcome yet, unless it runs again.
LEMMA StepFirstRun ==
  ASSUME TypeOK, MessageInv, AttemptInv, FirstRunInv, [Next]_vars PROVE FirstRunInv'
  <1> USE DEF MessageInv, AttemptInv, FirstRunInv, Unseen, Reruns, Blank, Early, Visible,
      Writes
  <1>1. CASE Create
    BY <1>1, CreateEffect DEF Create, Setting, NoFault, Created
  <1>2. CASE Commit
    BY <1>2 DEF Commit, Setting, NoFault
  <1>3. CASE Rollback
    BY <1>3, RollbackEffect DEF Rollback, Setting, NoFault
  <1>4. CASE Enqueue
    BY <1>4 DEF Enqueue, Setting, NoFault, Enqueuing, Enqueued
  <1>5. CASE Refuse
    BY <1>5, RefuseEffect DEF Refuse, Setting, NoFault, Enqueuing, Enqueued
  <1>6. CASE EnqueueAgain
    BY <1>6 DEF EnqueueAgain, Setting, Fault
  <1>7. CASE LoseRequest
    BY <1>7 DEF LoseRequest, Setting, Fault, Enqueuing, Enqueued
  <1>8. CASE Deliver
    BY <1>8 DEF Deliver, Stay, NoFault
  <1>9. CASE Attempt
    BY <1>9, AttemptEffect DEF Attempt, Stay, NoFault
  <1>10. CASE UpdateProgress
    BY <1>10, UpdateProgressEffect DEF UpdateProgress, Stay, NoFault
  <1>11. CASE CallEnds
    BY <1>11 DEF CallEnds, Stay, NoFault
  <1>12. CASE StoreSuccess
    BY <1>12, StoreSuccessEffect DEF StoreSuccess, Stay, NoFault
  <1>13. CASE Normalize
    BY <1>13 DEF Normalize, Stay, NoFault
  <1>14. CASE Retry
    BY <1>14, RetryEffect DEF Retry, Stay, NoFault, MayRetry
  <1>15. CASE GiveUp
    BY <1>15, GiveUpEffect DEF GiveUp, Stay, NoFault, MayRetry
  <1>16. CASE Acknowledge
    BY <1>16 DEF Acknowledge, Stay, NoFault
  <1>17. CASE Crash
    BY <1>17 DEF Crash, Stay, Fault, Unacked
  <1>18. CASE StoreRaises
    BY <1>18 DEF StoreRaises, Stay, Fault
  <1>19. CASE UpdateRaises
    BY <1>19 DEF UpdateRaises, Stay, Fault, Unacked
  <1>20. CASE Expire
    BY <1>20, ExpireEffect DEF Expire, Stay, NoFault
  <1>21. CASE UNCHANGED vars
    BY <1>21 DEF vars
  <1> QED
    BY <1>1, <1>2, <1>3, <1>4, <1>5, <1>6, <1>7, <1>8, <1>9, <1>10, <1>11,
       <1>12, <1>13, <1>14, <1>15, <1>16, <1>17, <1>18, <1>19, <1>20, <1>21
    DEF Next, Execute

\* FAILED is only stored after the last attempt, or by the mutation.
LEMMA StepFailed ==
  ASSUME TypeOK, MessageInv, AttemptInv, FailedIsExhausted, [Next]_vars
  PROVE  FailedIsExhausted'
  <1> USE BoundsAssumption DEF MessageInv, AttemptInv, FailedIsExhausted, Unseen, Blank,
      Early, Visible, Writes
  <1>1. CASE Create
    BY <1>1, CreateEffect DEF Create, Setting, NoFault, Created
  <1>2. CASE Commit
    BY <1>2 DEF Commit, Setting, NoFault
  <1>3. CASE Rollback
    BY <1>3, RollbackEffect DEF Rollback, Setting, NoFault
  <1>4. CASE Enqueue
    BY <1>4 DEF Enqueue, Setting, NoFault, Enqueuing, Enqueued
  <1>5. CASE Refuse
    BY <1>5, RefuseEffect DEF Refuse, Setting, NoFault, Enqueuing, Enqueued
  <1>6. CASE EnqueueAgain
    BY <1>6 DEF EnqueueAgain, Setting, Fault
  <1>7. CASE LoseRequest
    BY <1>7 DEF LoseRequest, Setting, Fault, Enqueuing, Enqueued
  <1>8. CASE Deliver
    BY <1>8 DEF Deliver, Stay, NoFault
  <1>9. CASE Attempt
    BY <1>9, AttemptEffect DEF Attempt, Stay, NoFault
  <1>10. CASE UpdateProgress
    BY <1>10, UpdateProgressEffect DEF UpdateProgress, Stay, NoFault
  <1>11. CASE CallEnds
    BY <1>11 DEF CallEnds, Stay, NoFault
  <1>12. CASE StoreSuccess
    BY <1>12, StoreSuccessEffect DEF StoreSuccess, Stay, NoFault
  <1>13. CASE Normalize
    BY <1>13 DEF Normalize, Stay, NoFault
  <1>14. CASE Retry
    BY <1>14, RetryEffect DEF Retry, Stay, NoFault, MayRetry
  <1>15. CASE GiveUp
    <2>1. attempts = MaxRetries + 1 /\ pc = "except"
      BY <1>15, CounterCounts DEF GiveUp, MayRetry, TypeOK
    <2>2. row'.attempts = row.attempts /\ UNCHANGED <<transaction, message>>
      BY <1>15, GiveUpEffect DEF GiveUp, Stay
    <2> QED
      BY <2>1, <2>2
  <1>16. CASE Acknowledge
    BY <1>16 DEF Acknowledge, Stay, NoFault
  <1>17. CASE Crash
    BY <1>17 DEF Crash, Stay, Fault, Unacked
  <1>18. CASE StoreRaises
    BY <1>18 DEF StoreRaises, Stay, Fault
  <1>19. CASE UpdateRaises
    BY <1>19 DEF UpdateRaises, Stay, Fault, Unacked
  <1>20. CASE Expire
    BY <1>20, ExpireEffect DEF Expire, Stay, NoFault
  <1>21. CASE UNCHANGED vars
    BY <1>21 DEF vars
  <1> QED
    BY <1>1, <1>2, <1>3, <1>4, <1>5, <1>6, <1>7, <1>8, <1>9, <1>10, <1>11,
       <1>12, <1>13, <1>14, <1>15, <1>16, <1>17, <1>18, <1>19, <1>20, <1>21
    DEF Next, Execute

\* SUCCESS is stored with everything that belongs to it, and progress no more.
LEMMA StepSuccess ==
  ASSUME TypeOK, MessageInv, AttemptInv, SuccessIsClean, [Next]_vars PROVE SuccessIsClean'
  <1> USE DEF MessageInv, AttemptInv, SuccessIsClean, Unseen, Blank, Early, Visible, Writes
  <1>1. CASE Create
    BY <1>1, CreateEffect DEF Create, Setting, NoFault, Created
  <1>2. CASE Commit
    BY <1>2 DEF Commit, Setting, NoFault
  <1>3. CASE Rollback
    BY <1>3, RollbackEffect DEF Rollback, Setting, NoFault
  <1>4. CASE Enqueue
    BY <1>4 DEF Enqueue, Setting, NoFault, Enqueuing, Enqueued
  <1>5. CASE Refuse
    BY <1>5, RefuseEffect DEF Refuse, Setting, NoFault, Enqueuing, Enqueued
  <1>6. CASE EnqueueAgain
    BY <1>6 DEF EnqueueAgain, Setting, Fault
  <1>7. CASE LoseRequest
    BY <1>7 DEF LoseRequest, Setting, Fault, Enqueuing, Enqueued
  <1>8. CASE Deliver
    BY <1>8 DEF Deliver, Stay, NoFault
  <1>9. CASE Attempt
    BY <1>9, AttemptEffect DEF Attempt, Stay, NoFault
  <1>10. CASE UpdateProgress
    BY <1>10, UpdateProgressEffect DEF UpdateProgress, Stay, NoFault
  <1>11. CASE CallEnds
    BY <1>11 DEF CallEnds, Stay, NoFault
  <1>12. CASE StoreSuccess
    BY <1>12, StoreSuccessEffect DEF StoreSuccess, Stay, NoFault
  <1>13. CASE Normalize
    BY <1>13 DEF Normalize, Stay, NoFault
  <1>14. CASE Retry
    BY <1>14, RetryEffect DEF Retry, Stay, NoFault, MayRetry
  <1>15. CASE GiveUp
    BY <1>15, GiveUpEffect DEF GiveUp, Stay, NoFault, MayRetry
  <1>16. CASE Acknowledge
    BY <1>16 DEF Acknowledge, Stay, NoFault
  <1>17. CASE Crash
    BY <1>17 DEF Crash, Stay, Fault, Unacked
  <1>18. CASE StoreRaises
    BY <1>18 DEF StoreRaises, Stay, Fault
  <1>19. CASE UpdateRaises
    BY <1>19 DEF UpdateRaises, Stay, Fault, Unacked
  <1>20. CASE Expire
    BY <1>20, ExpireEffect DEF Expire, Stay, NoFault
  <1>21. CASE UNCHANGED vars
    BY <1>21 DEF vars
  <1> QED
    BY <1>1, <1>2, <1>3, <1>4, <1>5, <1>6, <1>7, <1>8, <1>9, <1>10, <1>11,
       <1>12, <1>13, <1>14, <1>15, <1>16, <1>17, <1>18, <1>19, <1>20, <1>21
    DEF Next, Execute

\* No statement leaves the invariant, so no execution of the task does.
THEOREM TaskInvariant == Spec => []IInv
  <1>1. Init => IInv
    BY InitInvariant
  <1>2. IInv /\ [Next]_vars => IInv'
    BY StepType, StepMessage, StepAttempt, StepFirstRun, StepFailed, StepSuccess
    DEF IInv
  <1> QED
    BY <1>1, <1>2, PTL DEF Spec

(***************************************************************************)
(* The properties the TLC run checks, for all values of the constants.     *)
(***************************************************************************)

\* Row, message and executor are always well-formed.
THEOREM TypeCorrect == Spec => []TypeOK
  <1>1. IInv => TypeOK
    BY DEF IInv
  <1> QED
    BY <1>1, TaskInvariant, PTL

\* on_commit: no executor ever runs for a row that was not committed.
THEOREM OnlyCommittedTasksRun == Spec => []RunsOnlyCommitted
  <1>1. IInv => RunsOnlyCommitted
    BY DEF IInv, MessageInv, RunsOnlyCommitted
  <1> QED
    BY <1>1, TaskInvariant, PTL

\* A task is FAILED only after max_retries + 1 attempts, or without any, and
\* SUCCESS shows no trace of the attempts that failed.
THEOREM OutcomesAreEarned == Spec => []OutcomeIsEarned
  <1>1. IInv => OutcomeIsEarned
    BY DEF IInv, OutcomeIsEarned
  <1> QED
    BY <1>1, TaskInvariant, PTL

(***************************************************************************)
(* Tasks implements JobLifecycle: every statement moves what a poller sees *)
(* along the lifecycle, or leaves it alone.                                *)
(***************************************************************************)
Gone == request = "rolled back" \/ row.expires = "past"

\* What a poller sees, one fact per status.
PhaseFacts ==
  /\ Gone => Phase = "gone"
  /\ ~Gone /\ ~Visible => Phase = "queued"
  /\ ~Gone /\ row.status \in {"NONE", "PENDING"} => Phase = "queued"
  /\ ~Gone /\ Visible /\ row.status \in {"RUNNING", "RETRYING"} => Phase = "running"
  /\ ~Gone /\ Visible /\ row.status = "SUCCESS" => Phase = "ok"
  /\ ~Gone /\ Visible /\ row.status = "FAILED" => Phase = "failed"

\* The facts hold in every state.
LEMMA PhaseOfStatus == PhaseFacts /\ PhaseFacts'
  BY DEF PhaseFacts, Phase, Gone

\* What a step of the lifecycle may do to the phase.
Moves == Lifecycle!Start \/ Lifecycle!Succeed \/ Lifecycle!Fail
           \/ Lifecycle!Vanish \/ Lifecycle!Revive \/ UNCHANGED Phase

\* A step that leaves the row's status, its expiry and who can see it alone is not
\* seen.
LEMMA UnseenStep ==
  ASSUME row.status \in TaskStatus, row'.status = row.status,
         row'.expires = row.expires,
         (request = "rolled back") <=> (request' = "rolled back"), Visible <=> Visible'
  PROVE UNCHANGED Phase
  <1>1. Gone <=> Gone'
    BY DEF Gone
  <1>2. CASE Gone
    BY <1>1, <1>2, PhaseOfStatus DEF PhaseFacts
  <1>4. CASE ~Gone /\ ~Visible
    BY <1>1, <1>4, PhaseOfStatus DEF PhaseFacts
  <1>3. CASE ~Gone /\ Visible
    <2>1. CASE row.status \in {"NONE", "PENDING"}
      BY <1>1, <1>3, <2>1, PhaseOfStatus DEF PhaseFacts
    <2>2. CASE row.status \in {"RUNNING", "RETRYING"}
      <3>1. Phase = "running"
        BY <1>3, <2>2, PhaseOfStatus DEF PhaseFacts
      <3>2. Phase' = "running"
        BY <1>1, <1>3, <2>2, PhaseOfStatus DEF PhaseFacts
      <3> QED
        BY <3>1, <3>2
    <2>3. CASE row.status = "SUCCESS"
      BY <1>1, <1>3, <2>3, PhaseOfStatus DEF PhaseFacts
    <2>4. CASE row.status = "FAILED"
      BY <1>1, <1>3, <2>4, PhaseOfStatus DEF PhaseFacts
    <2> QED
      BY <2>1, <2>2, <2>3, <2>4 DEF TaskStatus
  <1> QED
    BY <1>2, <1>3, <1>4

\* Every statement of the mutation and the executor is a move.
LEMMA StepMoves == ASSUME IInv, [Next]_vars PROVE Moves
  <1> row.status \in TaskStatus
    BY DEF IInv, TypeOK, Row
  <1> USE DEF IInv, TypeOK, MessageInv, AttemptInv, FirstRunInv, Visible, Unseen, Early
  <1>1. CASE Commit
    <2>1. /\ ~Gone /\ ~Gone' /\ ~Visible /\ row' = row
          /\ row.status \in {"PENDING", "FAILED"}
      BY <1>1 DEF Commit, Gone, Blank
    <2>2. Phase = "queued" /\ Phase' \in {"queued", "failed"}
      <3> HIDE DEF IInv, TypeOK, MessageInv, AttemptInv, FirstRunInv, Visible, Gone
      <3>1. CASE Visible'
        BY <2>1, <3>1, PhaseOfStatus DEF PhaseFacts
      <3>2. CASE ~Visible'
        BY <2>1, <3>2, PhaseOfStatus DEF PhaseFacts
      <3> QED
        BY <3>1, <3>2
    <2> QED
      BY <2>2 DEF Moves, Lifecycle!Fail
  <1>2. CASE Enqueue
    BY <1>2, UnseenStep DEF Enqueue, Setting, Enqueuing, Enqueued, Early, Moves
  <1>3. CASE LoseRequest
    BY <1>3, UnseenStep DEF LoseRequest, Setting, Enqueuing, Enqueued, Early, Moves
  <1>4. CASE Deliver
    BY <1>4, UnseenStep DEF Deliver, Stay, Moves
  <1>5. CASE CallEnds
    BY <1>5, UnseenStep DEF CallEnds, Stay, Moves
  <1>6. CASE Normalize
    BY <1>6, UnseenStep DEF Normalize, Stay, Moves
  <1>7. CASE Acknowledge
    BY <1>7, UnseenStep DEF Acknowledge, Stay, Moves
  <1>8. CASE Crash
    BY <1>8, UnseenStep DEF Crash, Stay, Moves
  <1>9. CASE StoreRaises
    BY <1>9, UnseenStep DEF StoreRaises, Stay, Moves
  <1>10. CASE UpdateRaises
    BY <1>10, UnseenStep DEF UpdateRaises, Stay, Moves
  <1>11. CASE UpdateProgress
    <2>1. row'.status = row.status /\ row'.expires = row.expires /\ request' = request
      BY <1>11, UpdateProgressEffect DEF UpdateProgress, Writes, Stay
    <2>2. Visible <=> Visible'
      BY <2>1
    <2> HIDE DEF IInv, TypeOK, MessageInv, AttemptInv, FirstRunInv, Visible
    <2> QED
      BY <2>1, <2>2, UnseenStep DEF Moves
  <1>12. CASE Create
    <2>1. /\ row.status = "NONE" /\ row.expires = "never" /\ request = "start"
          /\ row'.status = "PENDING" /\ row'.expires = "never"
          /\ request' \in {"created", "committed"}
      BY <1>12, CreateEffect DEF Create, Created, Blank, Writes
    <2>2. ~Gone /\ ~Gone'
      BY <2>1 DEF Gone
    <2>3. Phase = "queued" /\ Phase' = "queued"
      <3> HIDE DEF IInv, TypeOK, MessageInv, AttemptInv, FirstRunInv, Visible
      <3> QED
        BY <2>1, <2>2, PhaseOfStatus DEF PhaseFacts
    <2> QED
      BY <2>3 DEF Moves
  <1>13. CASE Rollback
    <2>1. Gone'
      BY <1>13 DEF Rollback, Gone
    <2>2. Phase' = "gone"
      BY <2>1, PhaseOfStatus DEF PhaseFacts
    <2> QED
      BY <2>2 DEF Moves, Lifecycle!Vanish
  <1>14. CASE Refuse
    <2>1. Writes("FAILED", row.attempts, row.expires)
      BY <1>14, RefuseEffect
    <2>2. /\ row.status = "PENDING" /\ row.expires = "never"
          /\ row'.status = "FAILED" /\ row'.expires = "never"
          /\ request # "rolled back" /\ request' # "rolled back"
      BY <1>14, <2>1 DEF Refuse, Enqueuing, Enqueued, Writes, Blank
    <2>3. ~Gone /\ ~Gone' /\ Phase = "queued" /\ Phase' \in {"queued", "failed"}
      BY <2>2, PhaseOfStatus DEF Gone, PhaseFacts
    <2> QED
      BY <2>3 DEF Moves, Lifecycle!Fail
  <1>15. CASE Attempt
    <2>1. CASE ~Visible
      BY <1>15, <2>1, AttemptEffect, UnseenStep DEF Attempt, Stay, Moves
    <2>2. CASE Visible
      <3>1. Visible' /\ row'.status = "RUNNING" /\ row'.expires = row.expires
        BY <1>15, <2>2, AttemptEffect DEF Attempt, Stay, Writes
      <3>2. Gone <=> Gone'
        BY <1>15, <3>1 DEF Gone, Attempt, Stay
      <3>3. row.status \in {"SUCCESS", "FAILED"} => Reruns
        BY <1>15 DEF Attempt
      <3> HIDE DEF IInv, TypeOK, MessageInv, AttemptInv, FirstRunInv, Visible
      <3> QED
        BY <2>2, <3>1, <3>2, <3>3, PhaseOfStatus
        DEF PhaseFacts, TaskStatus, Moves, Lifecycle!Start, Lifecycle!Revive,
            Lifecycle!Ended
    <2> QED
      BY <2>1, <2>2
  <1>16. CASE StoreSuccess
    <2>1. CASE ~Visible
      BY <1>16, <2>1, StoreSuccessEffect, UnseenStep DEF StoreSuccess, Stay, Moves
    <2>2. CASE Visible
      <3>1. Visible' /\ row'.status = "SUCCESS" /\ row'.expires = "later"
        BY <1>16, <2>2, StoreSuccessEffect DEF StoreSuccess, Stay, Writes
      <3>2. ~Gone' /\ (Gone => Reruns)
        BY <1>16, <2>2, <3>1 DEF Gone, StoreSuccess, Stay
      <3>3. row.status = "RUNNING" \/ (Early /\ row.status = "PENDING")
        BY <1>16, <2>2 DEF StoreSuccess, Blank
      <3> HIDE DEF IInv, TypeOK, MessageInv, AttemptInv, FirstRunInv, Visible, Early
      <3> QED
        BY <2>2, <3>1, <3>2, <3>3, PhaseOfStatus
        DEF PhaseFacts, Moves, Lifecycle!Succeed, Lifecycle!Revive, Lifecycle!Ended
    <2> QED
      BY <2>1, <2>2
  <1>17. CASE Retry
    <2>1. CASE ~Visible
      BY <1>17, <2>1, RetryEffect, UnseenStep DEF Retry, Stay, Moves
    <2>2. CASE Visible
      <3>1. Visible' /\ row'.status = "RETRYING" /\ row'.expires = row.expires
        BY <1>17, <2>2, RetryEffect DEF Retry, Stay, Writes
      <3>2. Gone <=> Gone'
        BY <1>17, <3>1 DEF Gone, Retry, Stay
      <3>3. \/ row.status \in {"RUNNING", "PENDING"}
            \/ row.status = "SUCCESS" /\ Reruns
        BY <1>17, <2>2 DEF Retry, Blank
      <3> HIDE DEF IInv, TypeOK, MessageInv, AttemptInv, FirstRunInv, Visible
      <3> QED
        BY <2>2, <3>1, <3>2, <3>3, PhaseOfStatus
        DEF PhaseFacts, Moves, Lifecycle!Start, Lifecycle!Revive, Lifecycle!Ended
    <2> QED
      BY <2>1, <2>2
  <1>18. CASE GiveUp
    <2>1. CASE ~Visible
      BY <1>18, <2>1, GiveUpEffect, UnseenStep DEF GiveUp, Stay, Moves
    <2>2. CASE Visible
      <3>1. Visible' /\ row'.status = "FAILED" /\ row'.expires = "later"
        BY <1>18, <2>2, GiveUpEffect DEF GiveUp, Stay, Writes
      <3>2. ~Gone' /\ (Gone => Reruns)
        BY <1>18, <2>2, <3>1 DEF Gone, GiveUp, Stay
      <3>3. \/ row.status \in {"RUNNING", "PENDING"}
            \/ row.status = "SUCCESS" /\ Reruns
        BY <1>18, <2>2 DEF GiveUp, Blank
      <3> HIDE DEF IInv, TypeOK, MessageInv, AttemptInv, FirstRunInv, Visible
      <3> QED
        BY <2>2, <3>1, <3>2, <3>3, PhaseOfStatus
        DEF PhaseFacts, Moves, Lifecycle!Fail, Lifecycle!Revive, Lifecycle!Ended
    <2> QED
      BY <2>1, <2>2
  <1>19. CASE Expire
    <2>1. Gone' /\ row.expires = "later"
      BY <1>19, ExpireEffect DEF Expire, Writes, Gone
    <2>2. CASE Gone
      BY <2>1, <2>2, PhaseOfStatus DEF PhaseFacts, Moves
    <2>3. CASE ~Gone
      <3>1. request = "done" \/ request \notin Requests
        BY <2>1 DEF Blank, Requests
      <3>2. Visible
        BY <3>1 DEF Requests
      <3> HIDE DEF Visible
      <3> QED
        BY <2>1, <2>3, <3>2, PhaseOfStatus
        DEF PhaseFacts, TaskStatus, Moves, Lifecycle!Vanish
    <2> QED
      BY <2>2, <2>3
  <1>20. CASE EnqueueAgain
    BY <1>20, UnseenStep DEF EnqueueAgain, Setting, Visible, Moves
  <1>21. CASE UNCHANGED vars
    BY <1>21, UnseenStep DEF vars, Moves
  <1> QED
    BY <1>1, <1>2, <1>3, <1>4, <1>5, <1>6, <1>7, <1>8, <1>9, <1>10, <1>11,
       <1>12, <1>13, <1>14, <1>15, <1>16, <1>17, <1>18, <1>19, <1>20, <1>21
    DEF Next, Execute

\* Once the executor may run again, it may for good.
LEMMA StepReruns == ASSUME [Next]_vars PROVE (Reruns => Reruns') /\ Early' = Early
  <1>1. /\ backend' = backend /\ transaction' = transaction
        /\ unsafe' = unsafe \/ unsafe' = TRUE
    BY DEF Next, vars, Execute, Create, Commit, Rollback, Enqueue, Refuse,
       EnqueueAgain, LoseRequest, Deliver, Attempt, CallEnds, StoreSuccess, Normalize,
       Retry, GiveUp, Acknowledge, UpdateProgress, Crash, StoreRaises, UpdateRaises,
       Expire, Stay, Setting, NoFault
  <1> QED
    BY <1>1 DEF Reruns, Early

\* Whoever polls a task sees the lifecycle that background jobs promise.
THEOREM TaskObeysLifecycle == Spec => ObeysLifecycle
  <1>1. Init => Lifecycle!Init
    BY DEF Init, Lifecycle!Init, Phase, Visible, Reruns, Early, NoRow
  <1>2. IInv /\ [Next]_vars => [Lifecycle!Next]_<<Phase, Reruns, Early>>
    BY StepMoves, StepReruns DEF Lifecycle!Next, Moves
  <1> QED
    BY <1>1, <1>2, TaskInvariant, PTL DEF Spec, ObeysLifecycle, Lifecycle!Spec
=============================================================================
