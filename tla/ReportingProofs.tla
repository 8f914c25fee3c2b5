-------------------------- MODULE ReportingProofs --------------------------
(***************************************************************************)
(* Theorems about Reporting, for any number of runExport mutations, any    *)
(* versions of the data and any number of faults.                          *)
(***************************************************************************)
EXTENDS Reporting, TLAPS, SequenceTheorems

\* The positions in which a runExport mutation holds the row's lock.
InTransaction == {"build", "render", "store", "finish", "fail", "commit"}

\* Who holds the lock, and what the row is like then: a run that saved once
\* holds it until it ends, and commits an outcome only.
LockInv ==
  /\ holder = Nobody => locked = row
  /\ holder # Nobody => /\ pc[holder] \in InTransaction
                        /\ locked.status \in {"RUNNING", "COMPLETED", "FAILED"}
  /\ \A r \in Runs : /\ pc[r] \in InTransaction => holder = r
                     /\ pc[r] = "commit" => locked.status \in {"COMPLETED", "FAILED"}

\* Where the creator is.
CreatorInv ==
  /\ pc[Creator] = "idle" => row.status = "NONE" /\ locked.status = "NONE"
  /\ pc[Creator] # "commit"
  /\ lost => pc[Creator] = "done"

\* A completed row, committed or not, names a file of its payload, and so does
\* a copy that is about to be saved.
Matches(x) == x.file \in DOMAIN disk /\ disk[x.file] = x.payload
FileInv ==
  /\ row.status = "COMPLETED" => Matches(row)
  /\ locked.status = "COMPLETED" => Matches(locked)
  /\ \A a \in Actors : pc[a] = "finish" => Matches(copy[a])

IInv == TypeOK /\ LockInv /\ CreatorInv /\ FileInv /\ RunningIsAttended
-----------------------------------------------------------------------------
\* The versions there are, and the rows a row begins and ends as.
LEMMA SmallFacts ==
  /\ 0 \in Versions
  /\ \A v \in 1 .. MaxVersion : v \in Versions
  /\ NoRow \in Row /\ NoCopy \in Copy
  /\ \A x \in ExportStatus : [NoRow EXCEPT !.status = x] \in Row
<1>1. 0 \in Versions /\ \A v \in 1 .. MaxVersion : v \in Versions
  BY BoundsAssumption DEF Versions
<1> QED
  BY <1>1 DEF NoRow, NoCopy, Row, Copy, ExportStatus

\* The invariant holds initially.
LEMMA InitIInv == Init => IInv
<1> SUFFICES ASSUME Init PROVE IInv
  OBVIOUS
<1> USE DEF Init
<1>1. TypeOK
  <2>1. source \in 1 .. MaxVersion /\ faults \in 0 .. MaxFaults
    BY BoundsAssumption
  <2>2. row \in Row /\ locked \in Row /\ copy \in [Actors -> Copy]
    BY SmallFacts
  <2>3. disk \in Seq(Versions) /\ holder \in Runs \cup {Nobody}
    OBVIOUS
  <2>4. pc \in [Actors -> Positions]
    BY DEF Positions
  <2> QED
    BY <2>1, <2>2, <2>3, <2>4 DEF TypeOK
<1>2. row.status = "NONE" /\ locked.status = "NONE"
  BY DEF NoRow
<1>3. LockInv /\ CreatorInv
  BY <1>2, ActorsAssumption DEF LockInv, CreatorInv, Actors, InTransaction
<1>4. FileInv /\ RunningIsAttended
  BY <1>2 DEF FileInv, RunningIsAttended, Actors
<1> QED
  BY <1>1, <1>3, <1>4 DEF IInv

\* Every step keeps the types.
LEMMA TypeStep == TypeOK /\ [Next]_vars => TypeOK'
<1> SUFFICES ASSUME TypeOK, [Next]_vars PROVE TypeOK'
  OBVIOUS
<1> USE DEF TypeOK, Positions, Goto, Actors
<1>1. CASE Create
  BY <1>1, SmallFacts DEF Create, ExportStatus
<1>2. CASE Record
  BY <1>2 DEF Record
<1>3. CASE Delete
  BY <1>3, SmallFacts DEF Delete, ExportStatus
<1>4. CASE Change
  BY <1>4, BoundsAssumption DEF Change
<1>5. ASSUME NEW a \in Actors, Step(a) PROVE TypeOK'
  <2>1. CASE Refuse(a)
    BY <2>1 DEF Refuse
  <2>2. CASE Start(a)
    BY <2>2 DEF Start, Save, Row, ExportStatus
  <2>3. CASE Build(a)
    BY <2>3, SmallFacts DEF Build, Keep, Copy
  <2>4. CASE Reject(a)
    BY <2>4 DEF Reject, Keep
  <2>5. CASE Render(a)
    BY <2>5 DEF Render, Keep
  <2>6. CASE Store(a)
    <3>1. copy[a].payload \in Versions
      BY DEF Copy
    <3>2. disk' \in Seq(Versions) /\ Len(disk) + 1 \in Nat
      BY <2>6, <3>1 DEF Store
    <3>3. copy' \in [Actors -> Copy]
      BY <2>6, <3>2 DEF Store, Copy
    <3> QED
      BY <2>6, <3>2, <3>3 DEF Store, Keep
  <2>7. CASE Finish(a)
    BY <2>7 DEF Finish, Save, After, Row, Copy, ExportStatus
  <2>8. CASE Fail(a)
    BY <2>8 DEF Fail, Save, After, Row, Copy, ExportStatus
  <2>9. CASE Vanished(a)
    BY <2>9 DEF Vanished, Keep
  <2> QED
    BY <1>5, <2>1, <2>2, <2>3, <2>4, <2>5, <2>6, <2>7, <2>8, <2>9 DEF Step
<1>6. ASSUME NEW a \in Actors, StoreFails(a) PROVE TypeOK'
  BY <1>6, BoundsAssumption DEF StoreFails, Keep, Fault
<1>7. ASSUME NEW a \in Actors, DatabaseFails(a) PROVE TypeOK'
  <2>1. faults' \in 0 .. MaxFaults
    BY <1>7, BoundsAssumption DEF DatabaseFails, Fault
  <2>2. CASE a = Creator
    BY <1>7, <2>1, <2>2 DEF DatabaseFails
  <2>3. CASE a # Creator
    BY <1>7, <2>1, <2>3 DEF DatabaseFails, RollBack
  <2> QED
    BY <2>2, <2>3
<1>8. ASSUME NEW a \in Actors, Crash(a) PROVE TypeOK'
  <2>1. faults' \in 0 .. MaxFaults
    BY <1>8, BoundsAssumption DEF Crash, Fault
  <2> QED
    BY <1>8, <2>1 DEF Crash, RollBack
<1>9. ASSUME NEW r \in Runs, Load(r) PROVE TypeOK'
  BY <1>9 DEF Load, Row, Copy
<1>10. ASSUME NEW r \in Runs, Commit(r) PROVE TypeOK'
  BY <1>10 DEF Commit
<1>11. CASE UNCHANGED vars
  BY <1>11 DEF vars
<1> QED
  BY <1>1, <1>2, <1>3, <1>4, <1>5, <1>6, <1>7, <1>8, <1>9, <1>10, <1>11 DEF Next
-----------------------------------------------------------------------------
(* The lock *)

\* A save by a run: it holds the lock, and the committed row is as before.
LEMMA RunSaves ==
  ASSUME LockInv, CreatorInv, NEW r \in Runs, NEW new, Save(r, new)
  PROVE  /\ holder' = r /\ locked' = new /\ row' = row
         /\ \A s \in Runs : pc[s] \in InTransaction => s = r
         /\ pc[Creator] # "idle"
<1>1. holder' = r /\ locked' = new /\ row' = row /\ holder \in {Nobody, r} /\ Exists
  BY ActorsAssumption DEF Save
<1>2. \A s \in Runs : pc[s] \in InTransaction => s = r
  BY <1>1, ActorsAssumption DEF LockInv
<1>3. pc[Creator] # "idle"
  BY <1>1 DEF CreatorInv, Exists
<1> QED
  BY <1>1, <1>2, <1>3

\* A save by the creator: nobody holds the lock, and it is visible at once.
LEMMA CreatorSaves ==
  ASSUME LockInv, CreatorInv, NEW new, Save(Creator, new)
  PROVE  /\ holder = Nobody /\ holder' = Nobody /\ locked' = new /\ row' = new
         /\ \A s \in Runs : pc[s] \notin InTransaction
<1>1. holder = Nobody /\ holder' = Nobody /\ locked' = new /\ row' = new
  BY DEF Save
<1>2. \A s \in Runs : pc[s] \notin InTransaction
  BY <1>1, ActorsAssumption DEF LockInv
<1> QED
  BY <1>1, <1>2

\* A row that is gone is gone for everybody.
LEMMA GoneUnlocked ==
  ASSUME LockInv, ~Exists
  PROVE  holder = Nobody /\ locked = row /\ \A s \in Runs : pc[s] \notin InTransaction
<1>1. holder = Nobody
  BY DEF LockInv, Exists
<1> QED
  BY <1>1, ActorsAssumption DEF LockInv
-----------------------------------------------------------------------------
(* One lemma per kind of step: the rest of the invariant is kept *)

Rest == LockInv /\ CreatorInv /\ FileInv /\ RunningIsAttended

\* Steps that touch neither the row, the lock, the files nor any copy.
LEMMA QuietSteps ==
  ASSUME IInv, NEW a \in Actors, Refuse(a) \/ Reject(a) \/ Render(a) \/ StoreFails(a)
  PROVE  Rest'
<1>1. /\ UNCHANGED <<row, locked, holder, disk, copy, lost>>
      /\ pc \in [Actors -> Positions]
  BY DEF Refuse, Reject, Render, StoreFails, Keep, IInv, TypeOK
<1>2. CASE Refuse(a)
  <2>1. pc[a] = "start" /\ pc' = [pc EXCEPT ![a] = IF a = Creator THEN "record" ELSE "done"]
    BY <1>2 DEF Refuse, Goto
  <2> QED
    BY <1>1, <2>1, ActorsAssumption
       DEF Rest, IInv, LockInv, CreatorInv, FileInv, Matches, RunningIsAttended, InRun,
           Actors, InTransaction
<1>3. CASE Reject(a) \/ Render(a) \/ StoreFails(a)
  <2>1. /\ pc[a] \in {"build", "render", "store"}
        /\ \E p \in {"fail", "store"} : pc' = [pc EXCEPT ![a] = p]
    BY <1>3 DEF Reject, Render, StoreFails, Goto
  <2> QED
    BY <1>1, <2>1, ActorsAssumption
       DEF Rest, IInv, LockInv, CreatorInv, FileInv, Matches, RunningIsAttended, InRun,
           Actors, InTransaction
<1> QED
  BY <1>2, <1>3

\* Building the payload and storing the file change the copy of the row.
LEMMA CopySteps ==
  ASSUME IInv, NEW a \in Actors, Build(a) \/ Store(a)
  PROVE  Rest'
<1>1. UNCHANGED <<row, locked, holder, lost>> /\ pc \in [Actors -> Positions]
  BY DEF Build, Store, Keep, IInv, TypeOK
<1>2. LockInv' /\ CreatorInv' /\ RunningIsAttended'
  <2>1. /\ pc[a] \in {"build", "store"}
        /\ \E p \in {"render", "finish"} : pc' = [pc EXCEPT ![a] = p]
    BY DEF Build, Store, Goto
  <2> QED
    BY <1>1, <2>1, ActorsAssumption
       DEF IInv, LockInv, CreatorInv, RunningIsAttended, InRun, Actors, InTransaction
<1>3. ASSUME Build(a) PROVE FileInv'
  <2>1. /\ \A b \in Actors : b # a => copy'[b] = copy[b] /\ pc'[b] = pc[b]
        /\ pc'[a] = "render" /\ UNCHANGED disk
    BY <1>1, <1>3 DEF Build, Keep, Goto, IInv, TypeOK
  <2> QED
    BY <1>1, <2>1 DEF IInv, FileInv, Matches
<1>4. ASSUME Store(a) PROVE FileInv'
  <2>1. disk \in Seq(Versions) /\ copy[a].payload \in Versions /\ copy \in [Actors -> Copy]
    BY DEF IInv, TypeOK, Copy
  <2>2. disk' = Append(disk, copy[a].payload)
    BY <1>4 DEF Store
  <2>3. \A i \in DOMAIN disk : i \in DOMAIN disk' /\ disk'[i] = disk[i]
    BY <2>1, <2>2
  <2>4. Len(disk) + 1 \in DOMAIN disk' /\ disk'[Len(disk) + 1] = copy[a].payload
    BY <2>1, <2>2
  <2>5. copy'[a].file = Len(disk) + 1 /\ copy'[a].payload = copy[a].payload
    BY <1>4, <2>1 DEF Store, Copy
  <2>6. \A b \in Actors : b # a => copy'[b] = copy[b] /\ pc'[b] = pc[b]
    BY <1>1, <1>4, <2>1 DEF Store, Goto
  <2> QED
    BY <1>1, <2>3, <2>4, <2>5, <2>6 DEF IInv, FileInv, Matches
<1> QED
  BY <1>2, <1>3, <1>4 DEF Rest

\* A run, or the creator, saves RUNNING.
LEMMA StartSteps == ASSUME IInv, NEW a \in Actors, Start(a) PROVE Rest'
<1> DEFINE new == [locked EXCEPT !.status = "RUNNING"]
<1>1. /\ pc[a] = "start" /\ pc' = [pc EXCEPT ![a] = "build"] /\ Save(a, new)
      /\ UNCHANGED <<disk, copy, lost>> /\ pc \in [Actors -> Positions]
  BY DEF Start, Goto, IInv, TypeOK
<1>2. new.status = "RUNNING"
  BY DEF IInv, TypeOK, Row
<1> HIDE DEF new
<1>3. CASE a \in Runs
  <2>1. /\ holder' = a /\ locked' = new /\ row' = row
        /\ \A s \in Runs : pc[s] \in InTransaction => s = a
        /\ pc[Creator] # "idle"
    BY <1>1, <1>3, RunSaves DEF IInv
  <2> QED
    BY <1>1, <1>2, <1>3, <2>1, ActorsAssumption
       DEF Rest, IInv, LockInv, CreatorInv, FileInv, Matches, RunningIsAttended, InRun,
           Actors, InTransaction
<1>4. CASE a = Creator
  <2>1. /\ holder = Nobody /\ holder' = Nobody /\ locked' = new /\ row' = new
        /\ \A s \in Runs : pc[s] \notin InTransaction
    BY <1>1, <1>4, CreatorSaves DEF IInv
  <2> QED
    BY <1>1, <1>2, <1>4, <2>1, ActorsAssumption
       DEF Rest, IInv, LockInv, CreatorInv, FileInv, Matches, RunningIsAttended, InRun,
           Actors, InTransaction
<1> QED
  BY <1>3, <1>4 DEF Actors

\* A run, or the creator, saves an outcome.
LEMMA OutcomeSteps == ASSUME IInv, NEW a \in Actors, Finish(a) \/ Fail(a) PROVE Rest'
<1>1. PICK new : /\ Save(a, new)
                 /\ new.status \in {"COMPLETED", "FAILED"}
                 /\ new.status = "COMPLETED" => Matches(new)
  <2>1. CASE Finish(a)
    <3>1. Matches(copy[a])
      BY <2>1 DEF Finish, IInv, FileInv
    <3>2. Matches([status |-> "COMPLETED", payload |-> copy[a].payload, file |-> copy[a].file])
      BY <3>1 DEF Matches
    <3> QED
      BY <2>1, <3>2 DEF Finish
  <2>2. CASE Fail(a)
    <3> DEFINE failed == [locked EXCEPT !.status = "FAILED", !.payload = copy[a].payload]
    <3>1. failed.status = "FAILED" /\ Save(a, failed)
      BY <2>2 DEF Fail, IInv, TypeOK, Row
    <3> QED
      BY <3>1
  <2> QED
    BY <2>1, <2>2
<1>2. /\ pc[a] \in {"finish", "fail"} /\ pc' = [pc EXCEPT ![a] = After(a)]
      /\ UNCHANGED <<disk, copy, lost>> /\ pc \in [Actors -> Positions]
  BY DEF Finish, Fail, Goto, IInv, TypeOK
<1>3. CASE a \in Runs
  <2>1. /\ holder' = a /\ locked' = new /\ row' = row
        /\ \A s \in Runs : pc[s] \in InTransaction => s = a
        /\ pc[Creator] # "idle"
    BY <1>1, <1>3, RunSaves DEF IInv
  <2>2. pc' = [pc EXCEPT ![a] = "commit"]
    BY <1>2, <1>3, ActorsAssumption DEF After
  <2>3. LockInv'
    BY <1>1, <1>2, <1>3, <2>1, <2>2, ActorsAssumption DEF IInv, LockInv, Actors, InTransaction
  <2>4. CreatorInv' /\ RunningIsAttended'
    BY <1>2, <1>3, <2>1, <2>2, ActorsAssumption
       DEF IInv, CreatorInv, RunningIsAttended, InRun, Actors
  <2>5. FileInv'
    BY <1>1, <1>2, <1>3, <2>1, <2>2 DEF IInv, FileInv, Matches, Actors
  <2> QED
    BY <2>3, <2>4, <2>5 DEF Rest
<1>4. CASE a = Creator
  <2>1. /\ holder = Nobody /\ holder' = Nobody /\ locked' = new /\ row' = new
        /\ \A s \in Runs : pc[s] \notin InTransaction
    BY <1>1, <1>4, CreatorSaves DEF IInv
  <2>2. pc' = [pc EXCEPT ![a] = "done"]
    BY <1>2, <1>4 DEF After
  <2>3. LockInv'
    BY <1>1, <1>2, <1>4, <2>1, <2>2, ActorsAssumption DEF IInv, LockInv, Actors, InTransaction
  <2>4. CreatorInv' /\ RunningIsAttended'
    BY <1>1, <1>2, <1>4, <2>1, <2>2
       DEF IInv, CreatorInv, RunningIsAttended, InRun, Actors
  <2>5. FileInv'
    BY <1>1, <1>2, <1>4, <2>1, <2>2 DEF IInv, FileInv, Matches, Actors
  <2> QED
    BY <2>3, <2>4, <2>5 DEF Rest
<1> QED
  BY <1>3, <1>4 DEF Actors

\* A save finds no row.
LEMMA VanishedStep == ASSUME IInv, NEW a \in Actors, Vanished(a) PROVE Rest'
<1>1. /\ UNCHANGED <<row, locked, holder, disk, copy, lost>>
      /\ pc \in [Actors -> Positions] /\ pc' = [pc EXCEPT ![a] = "done"]
      /\ pc[a] \in {"start", "finish", "fail"}
  BY DEF Vanished, Keep, Goto, IInv, TypeOK
<1>2. /\ holder = Nobody /\ locked = row /\ \A s \in Runs : pc[s] \notin InTransaction
      /\ row.status # "RUNNING"
  BY GoneUnlocked DEF Vanished, Exists, IInv
<1> QED
  BY <1>1, <1>2, ActorsAssumption
     DEF Rest, IInv, LockInv, CreatorInv, FileInv, Matches, RunningIsAttended, InRun,
         Actors, InTransaction

\* The creator's database error or death.
LEMMA CreatorFaults ==
  ASSUME IInv, DatabaseFails(Creator) \/ Crash(Creator) PROVE Rest'
<1>1. UNCHANGED <<row, locked, holder, disk, copy>> /\ pc \in [Actors -> Positions]
  BY ActorsAssumption DEF DatabaseFails, Crash, RollBack, IInv, TypeOK, LockInv
<1>2. /\ pc[Creator] \notin {"idle", "done"} /\ ~lost
      /\ \E p \in {"fail", "done"} : pc' = [pc EXCEPT ![Creator] = p]
  BY DEF DatabaseFails, Crash, Goto, IInv, CreatorInv
<1>3. PICK p \in {"fail", "done"} : pc' = [pc EXCEPT ![Creator] = p]
  BY <1>2
<1>4. pc'[Creator] = p /\ \A r \in Runs : pc'[r] = pc[r]
  BY <1>1, <1>3, ActorsAssumption DEF Actors
<1>5. LockInv'
  BY <1>1, <1>4, ActorsAssumption DEF IInv, TypeOK, LockInv
<1>6. CreatorInv'
  <2>1. lost' => p = "done"
    <3>1. CASE DatabaseFails(Creator)
      <4>1. lost' => pc[Creator] = "fail"
        BY <3>1 DEF DatabaseFails
      <4>2. pc[Creator] = "fail" => pc' = [pc EXCEPT ![Creator] = "done"]
        BY <3>1 DEF DatabaseFails, Goto
      <4> QED
        BY <1>1, <1>4, <4>1, <4>2 DEF Actors
    <3>2. CASE Crash(Creator)
      <4>1. pc' = [pc EXCEPT ![Creator] = "done"]
        BY <3>2 DEF Crash, Goto
      <4> QED
        BY <1>1, <1>4, <4>1 DEF Actors
    <3> QED
      BY <3>1, <3>2
  <2> QED
    BY <1>1, <1>4, <2>1 DEF IInv, CreatorInv
<1>7. FileInv'
  <2>1. \A b \in Actors : pc'[b] = "finish" => pc[b] = "finish"
    BY <1>4 DEF Actors
  <2> QED
    BY <1>1, <2>1 DEF IInv, FileInv, Matches
<1>8. RunningIsAttended'
  <2>1. row.status = "RUNNING" => InRun(Creator)
    BY <1>2 DEF IInv, RunningIsAttended
  <2>2. InRun(Creator) => p = "fail" \/ lost'
    <3>1. CASE DatabaseFails(Creator)
      <4>1. pc[Creator] = "fail" => lost'
        BY <3>1 DEF DatabaseFails
      <4>2. pc[Creator] \in {"build", "finish"} => pc' = [pc EXCEPT ![Creator] = "fail"]
        BY <3>1 DEF DatabaseFails, Goto
      <4>3. pc[Creator] \notin {"render", "store"}
        BY <3>1 DEF DatabaseFails
      <4> QED
        BY <1>1, <1>4, <4>1, <4>2, <4>3 DEF InRun, Actors
    <3>2. CASE Crash(Creator)
      BY <3>2 DEF Crash
    <3> QED
      BY <3>1, <3>2
  <2> QED
    BY <1>1, <1>4, <2>1, <2>2 DEF RunningIsAttended, InRun
<1> QED
  BY <1>5, <1>6, <1>7, <1>8 DEF Rest

\* A run's database error or death rolls its transaction back.
LEMMA RunFaults ==
  ASSUME IInv, NEW r \in Runs, DatabaseFails(r) \/ Crash(r) PROVE Rest'
<1>1. /\ UNCHANGED <<row, disk, copy, lost>> /\ RollBack(r)
      /\ pc' = [pc EXCEPT ![r] = "done"] /\ pc \in [Actors -> Positions]
  BY ActorsAssumption DEF DatabaseFails, Crash, RollBack, Goto, IInv, TypeOK
<1>2. CASE holder = r
  <2>1. /\ holder' = Nobody /\ locked' = row
        /\ \A s \in Runs : pc[s] \in InTransaction => s = r
    BY <1>1, <1>2, ActorsAssumption DEF RollBack, IInv, LockInv
  <2> QED
    BY <1>1, <2>1, ActorsAssumption
       DEF Rest, IInv, LockInv, CreatorInv, FileInv, Matches, RunningIsAttended, InRun,
           Actors, InTransaction
<1>3. CASE holder # r
  <2>1. UNCHANGED <<holder, locked>> /\ pc[r] \notin InTransaction
    BY <1>1, <1>3 DEF RollBack, IInv, LockInv
  <2> QED
    BY <1>1, <1>3, <2>1, ActorsAssumption
       DEF Rest, IInv, LockInv, CreatorInv, FileInv, Matches, RunningIsAttended, InRun,
           Actors, InTransaction
<1> QED
  BY <1>2, <1>3

\* A run begins, or commits.
LEMMA RunEnds == ASSUME IInv, NEW r \in Runs, Load(r) \/ Commit(r) PROVE Rest'
<1>1. UNCHANGED <<locked, disk, lost>> /\ pc \in [Actors -> Positions]
  BY DEF Load, Commit, IInv, TypeOK
<1>2. CASE Load(r)
  <2>1. /\ pc[r] = "idle" /\ pc' = [pc EXCEPT ![r] = "start"]
        /\ UNCHANGED <<row, holder>>
        /\ \A b \in Actors : b # r => copy'[b] = copy[b]
    BY <1>2 DEF Load, Goto, IInv, TypeOK
  <2> QED
    BY <1>1, <2>1, ActorsAssumption
       DEF Rest, IInv, LockInv, CreatorInv, FileInv, Matches, RunningIsAttended, InRun,
           Actors, InTransaction
<1>3. CASE Commit(r)
  <2>1. /\ pc[r] = "commit" /\ pc' = [pc EXCEPT ![r] = "done"] /\ row' = locked
        /\ holder' = Nobody /\ UNCHANGED copy
    BY <1>3 DEF Commit, Goto
  <2>2. /\ holder = r /\ locked.status \in {"COMPLETED", "FAILED"}
        /\ \A s \in Runs : pc[s] \in InTransaction => s = r
    BY <2>1, ActorsAssumption DEF IInv, LockInv, InTransaction
  <2> QED
    BY <1>1, <2>1, <2>2, ActorsAssumption
       DEF Rest, IInv, LockInv, CreatorInv, FileInv, Matches, RunningIsAttended, InRun,
           Actors, InTransaction
<1> QED
  BY <1>2, <1>3

\* The row is created, or deleted.
LEMMA RowSteps == ASSUME IInv, Create \/ Delete PROVE Rest'
<1>1. /\ locked' = row' /\ row'.status \in {"PENDING", "DELETED"}
      /\ UNCHANGED <<holder, disk, copy, lost>> /\ pc \in [Actors -> Positions]
  BY DEF Create, Delete, NoRow, IInv, TypeOK
<1>2. \A s \in Runs : pc[s] \notin InTransaction
  <2>1. CASE Create
    <3>1. locked.status = "NONE"
      BY <2>1 DEF Create, IInv, CreatorInv
    <3> QED
      BY <3>1, GoneUnlocked DEF IInv, Exists
  <2>2. CASE Delete
    BY <2>2, ActorsAssumption DEF Delete, IInv, LockInv
  <2> QED
    BY <2>1, <2>2
<1>3. holder = Nobody
  BY <1>2 DEF IInv, TypeOK, LockInv
<1>4. pc' = pc \/ (pc[Creator] = "idle" /\ pc' = [pc EXCEPT ![Creator] = "start"])
  BY DEF Create, Delete, Goto
<1>5. pc[Creator] = "idle" => pc'[Creator] = "start"
  BY <1>1 DEF Create, Delete, Goto, IInv, CreatorInv, Exists, Actors
<1> QED
  BY <1>1, <1>2, <1>3, <1>4, <1>5, ActorsAssumption
     DEF Rest, IInv, LockInv, CreatorInv, FileInv, Matches, RunningIsAttended, InRun,
         Actors, InTransaction

\* Every step keeps the rest of the invariant.
LEMMA RestStep == IInv /\ [Next]_vars => Rest'
<1> SUFFICES ASSUME IInv, [Next]_vars PROVE Rest'
  OBVIOUS
<1>1. CASE Create \/ Delete
  BY <1>1, RowSteps
<1>2. CASE Record
  <2>1. /\ UNCHANGED <<row, locked, holder, disk, copy, lost>> /\ pc \in [Actors -> Positions]
        /\ pc[Creator] = "record" /\ pc' = [pc EXCEPT ![Creator] = "done"]
    BY <1>2 DEF Record, Goto, IInv, TypeOK
  <2> QED
    BY <2>1, ActorsAssumption
       DEF Rest, IInv, LockInv, CreatorInv, FileInv, Matches, RunningIsAttended, InRun,
           Actors, InTransaction
<1>3. CASE Change \/ UNCHANGED vars
  <2>1. UNCHANGED <<row, locked, holder, disk, pc, copy, lost>>
    BY <1>3 DEF Change, vars
  <2> QED
    BY <2>1 DEF Rest, IInv, LockInv, CreatorInv, FileInv, Matches, RunningIsAttended, InRun
<1>4. ASSUME NEW a \in Actors, Step(a) PROVE Rest'
  BY <1>4, QuietSteps, CopySteps, StartSteps, OutcomeSteps, VanishedStep DEF Step
<1>5. ASSUME NEW a \in Actors, StoreFails(a) PROVE Rest'
  BY <1>5, QuietSteps
<1>6. ASSUME NEW a \in Actors, DatabaseFails(a) \/ Crash(a) PROVE Rest'
  BY <1>6, CreatorFaults, RunFaults DEF Actors
<1>7. ASSUME NEW r \in Runs, Load(r) \/ Commit(r) PROVE Rest'
  BY <1>7, RunEnds
<1> QED
  BY <1>1, <1>2, <1>3, <1>4, <1>5, <1>6, <1>7 DEF Next
-----------------------------------------------------------------------------
\* The inductive invariant holds in every reachable state.
THEOREM ReportingInvariant == Spec => []IInv
<1>1. Init => IInv
  BY InitIInv
<1>2. IInv /\ [Next]_vars => IInv'
  BY TypeStep, RestStep DEF IInv, Rest
<1> QED
  BY <1>1, <1>2, PTL DEF Spec

\* Every variable keeps its type.
THEOREM TypeCorrect == Spec => []TypeOK
<1>1. IInv => TypeOK
  BY DEF IInv
<1> QED
  BY <1>1, ReportingInvariant, PTL

\* Whoever finds the job COMPLETED finds a file rendered from the payload of
\* the same row, whatever runs of run_export work on the job at the same time:
\* a run stores its payload and its file by one save, from one copy of the row.
THEOREM CompletedFilesMatch == Spec => []CompletedFileMatchesPayload
<1>1. IInv => CompletedFileMatchesPayload
  BY DEF IInv, FileInv, Matches, CompletedFileMatchesPayload
<1> QED
  BY <1>1, ReportingInvariant, PTL

\* A job is seen RUNNING only while its creator is inside run_export, or after
\* the creator died there or could save neither outcome.
THEOREM RunningAttended == Spec => []RunningIsAttended
<1>1. IInv => RunningIsAttended
  BY DEF IInv
<1> QED
  BY <1>1, ReportingInvariant, PTL
=============================================================================
