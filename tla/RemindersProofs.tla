---------------------------- MODULE RemindersProofs ----------------------------
(***************************************************************************)
(* Theorems about Reminders, for all lead, lookahead and overdue times,    *)
(* for any number of workers and attempts, and for any number of schedule  *)
(* changes, acceptances, crashes and errors.                               *)
(***************************************************************************)
EXTENDS Reminders, TLAPS

-----------------------------------------------------------------------------
(* Type correctness *)

\* A busy handler's job is active and its own, and a job that is not given up
\* has attempts left.
JobsHandled ==
  /\ \A v \in Versions : jobs[v].state \in {"delayed", "active"} => jobs[v].tries < Attempts
  /\ \A w \in Workers : workers[w] # Free => jobs[workers[w]].state = "active"
  /\ \A w, x \in Workers : workers[w] # Free /\ workers[w] = workers[x] => w = x

TypeInv == TypeOK /\ JobsHandled

LEMMA TypeInvInit == Init => TypeInv
<1> SUFFICES ASSUME Init PROVE TypeInv
  OBVIOUS
<1>1. 0 \in Times /\ 0 \in Versions /\ 1 \in 1..MaxAccepts /\ 0 \in 0..MaxFailures
  BY TimesAssumption, BoundsAssumption DEF Times, Versions
<1>2. TypeOK
  <2>1. NoJob \in [state : {"none", "delayed", "active", "failed"},
                  runAt : Times, tries : 0..Attempts]
    BY <1>1, BoundsAssumption DEF NoJob
  <2>2. NoScan \in [pc : {"idle", "add", "mark"}, version : Versions,
                   start : Times \cup {NoStart}]
    BY <1>1 DEF NoScan
  <2> QED BY <1>1, <2>1, <2>2 DEF Init, TypeOK, Statuses
<1>3. JobsHandled
  BY DEF Init, JobsHandled, NoJob
<1> QED BY <1>2, <1>3 DEF TypeInv

\* A job whose handler threw keeps its type, and is waiting with attempts left
\* or given up.
LEMMA FailedJob ==
  ASSUME TypeInv, NEW v \in Versions, jobs[v].state \in {"delayed", "active"}
  PROVE  /\ Failed(jobs[v]) \in [state : {"none", "delayed", "active", "failed"},
                                 runAt : Times, tries : 0..Attempts]
         /\ Failed(jobs[v]).state = "delayed" => Failed(jobs[v]).tries < Attempts
         /\ Failed(jobs[v]).state \in {"delayed", "failed"}
         /\ Failed(jobs[v]).tries = jobs[v].tries + 1
         /\ Failed(jobs[v]).runAt = now
         /\ Failed(jobs[v]).state = "failed" => jobs[v].tries + 1 >= Attempts
<1>1. jobs[v] \in [state : {"none", "delayed", "active", "failed"},
                  runAt : Times, tries : 0..Attempts]
  BY DEF TypeInv, TypeOK
<1>2. jobs[v].tries \in Nat /\ jobs[v].tries < Attempts /\ now \in Times
  BY <1>1, BoundsAssumption DEF TypeInv, TypeOK, JobsHandled
<1>3. jobs[v].tries + 1 \in 0..Attempts
  BY <1>2, BoundsAssumption
<1>4. CASE jobs[v].tries + 1 < Attempts
  <2>1. Failed(jobs[v]) = [jobs[v] EXCEPT !.tries = jobs[v].tries + 1, !.runAt = now,
                                          !.state = "delayed"]
    BY <1>4 DEF Failed
  <2> QED BY <1>1, <1>2, <1>3, <1>4, <2>1
<1>5. CASE ~(jobs[v].tries + 1 < Attempts)
  <2>1. Failed(jobs[v]) = [jobs[v] EXCEPT !.tries = jobs[v].tries + 1, !.runAt = now,
                                          !.state = "failed"]
    BY <1>5 DEF Failed
  <2>2. jobs[v].tries + 1 >= Attempts
    BY <1>2, <1>5, BoundsAssumption
  <2> QED BY <1>1, <1>2, <1>3, <2>1, <2>2
<1> QED BY <1>4, <1>5

LEMMA RunAtType ==
  ASSUME NEW start \in Times \cup {NoStart}, now \in Times
  PROVE  RunAt(start) \in Times /\ RunAt(start) >= start - Lead
BY TimesAssumption DEF RunAt, Times, NoStart

LEMMA TypeInvNext == TypeInv /\ [Next]_vars => TypeInv'
<1> SUFFICES ASSUME TypeInv, [Next]_vars PROVE TypeInv'
  OBVIOUS
<1>0. /\ TypeOK /\ JobsHandled /\ now \in Times /\ sent \in Nat /\ failures \in Nat
      /\ asg.version \in Nat /\ accepts \in Nat /\ raced \in BOOLEAN
  BY BoundsAssumption, TimesAssumption DEF TypeInv, TypeOK, Times, Versions
<1>1. TypeOK'
  <2> USE <1>0 DEF TypeOK
  <2>1. ASSUME NEW t \in Times, Propose(t) PROVE TypeOK'
    <3>1. asg.version + 1 \in Versions
      BY <2>1, BoundsAssumption DEF Propose, Versions
    <3> QED BY <2>1, <3>1, BoundsAssumption DEF Propose, Schedule, Statuses
  <2>2. ASSUME Confirm PROVE TypeOK'
    <3>1. asg.version + 1 \in Versions
      BY <2>2, BoundsAssumption DEF Confirm, Versions
    <3> QED BY <2>2, <3>1 DEF Confirm, Schedule, Statuses
  <2>3. ASSUME Reject PROVE TypeOK'
    <3>1. asg.version + 1 \in Versions
      BY <2>3, BoundsAssumption DEF Reject, Versions
    <3> QED BY <2>3, <3>1 DEF Reject, Schedule, Statuses
  <2>4. ASSUME Reaccept PROVE TypeOK'
    <3>1. 0 \in Versions /\ accepts + 1 \in 1..MaxAccepts
      BY <2>4, BoundsAssumption DEF Reaccept, Versions
    <3> QED BY <2>4, <3>1 DEF Reaccept, Schedule, Statuses
  <2>5. ASSUME Revoke PROVE TypeOK'
    BY <2>5 DEF Revoke, Schedule, Statuses
  <2>6. ASSUME Complete PROVE TypeOK'
    BY <2>6 DEF Complete, Statuses
  <2>7. ASSUME ScanRead PROVE TypeOK'
    <3>1. [pc |-> "add", version |-> asg.version, start |-> asg.start]
            \in [pc : {"idle", "add", "mark"}, version : Versions,
                start : Times \cup {NoStart}]
      OBVIOUS
    <3> QED BY <2>7, <3>1 DEF ScanRead
  <2>8. ASSUME ScanAdd PROVE TypeOK'
    <3>1. scan.version \in Versions /\ RunAt(scan.start) \in Times
      BY RunAtType
    <3>2. 0 \in 0..Attempts
      BY BoundsAssumption
    <3>3. [state |-> "delayed", runAt |-> RunAt(scan.start), tries |-> 0]
            \in [state : {"none", "delayed", "active", "failed"},
                runAt : Times, tries : 0..Attempts]
      BY <3>1, <3>2
    <3> QED BY <2>8, <3>1, <3>3 DEF ScanAdd
  <2>9. ASSUME ScanMark PROVE TypeOK'
    <3>1. NoScan \in [pc : {"idle", "add", "mark"}, version : Versions,
                     start : Times \cup {NoStart}]
      BY BoundsAssumption DEF NoScan, Versions
    <3>2. MarkQueued(asg) \in [status : Statuses, version : Versions,
                               start : Times \cup {NoStart},
                               reminder : {"NONE", "QUEUED", "SENT", "OVERDUE"}]
      BY DEF MarkQueued
    <3> QED BY <2>9, <3>1, <3>2 DEF ScanMark
  <2>10. ASSUME ScanFails PROVE TypeOK'
    BY <2>10, BoundsAssumption DEF ScanFails, NoScan, Versions
  <2>11. ASSUME NEW w \in Workers, NEW v \in Versions, HandleReminder(w, v) PROVE TypeOK'
    <3>1. NoJob \in [state : {"none", "delayed", "active", "failed"},
                    runAt : Times, tries : 0..Attempts]
      BY BoundsAssumption, TimesAssumption DEF NoJob, Times
    <3> QED BY <2>11, <3>1 DEF HandleReminder
  <2>12. ASSUME NEW w \in Workers, MarkSent(w) PROVE TypeOK'
    <3>1. workers[w] \in Versions /\ jobs[workers[w]].state = "active"
      BY <2>12 DEF MarkSent, JobsHandled
    <3>2. NoJob \in [state : {"none", "delayed", "active", "failed"},
                    runAt : Times, tries : 0..Attempts]
      BY BoundsAssumption, TimesAssumption DEF NoJob, Times
    <3>3. Failed(jobs[workers[w]]) \in [state : {"none", "delayed", "active", "failed"},
                                       runAt : Times, tries : 0..Attempts]
      BY <3>1, FailedJob DEF TypeInv
    <3> QED BY <2>12, <3>1, <3>2, <3>3 DEF MarkSent
  <2>13. ASSUME NEW v \in Versions, ReadFails(v) PROVE TypeOK'
    <3>1. Failed(jobs[v]) \in [state : {"none", "delayed", "active", "failed"},
                              runAt : Times, tries : 0..Attempts]
      BY <2>13, FailedJob DEF TypeInv, ReadFails, Due
    <3> QED BY <2>13, <3>1, BoundsAssumption DEF ReadFails
  <2>14. ASSUME NEW w \in Workers, MarkSentFails(w) PROVE TypeOK'
    <3>1. workers[w] \in Versions /\ jobs[workers[w]].state = "active"
      BY <2>14 DEF MarkSentFails, JobsHandled
    <3>2. Failed(jobs[workers[w]]) \in [state : {"none", "delayed", "active", "failed"},
                                       runAt : Times, tries : 0..Attempts]
      BY <3>1, FailedJob DEF TypeInv
    <3> QED BY <2>14, <3>1, <3>2, BoundsAssumption DEF MarkSentFails
  <2>15. ASSUME MarkOverdue PROVE TypeOK'
    BY <2>15 DEF MarkOverdue
  <2>16. ASSUME Tick PROVE TypeOK'
    <3>1. now + 1 \in Times
      BY <2>16, TimesAssumption DEF Tick, Times
    <3> QED BY <2>16, <3>1 DEF Tick
  <2>17. ASSUME UNCHANGED vars PROVE TypeOK'
    BY <2>17 DEF vars
  <2> QED
    BY <2>1, <2>2, <2>3, <2>4, <2>5, <2>6, <2>7, <2>8, <2>9, <2>10, <2>11, <2>12,
       <2>13, <2>14, <2>15, <2>16, <2>17
    DEF Next, Services, Scan, Handle
<1>2. JobsHandled'
  <2> USE <1>0 DEF JobsHandled
  <2>1. ASSUME NEW t \in Times, Propose(t) PROVE JobsHandled'
    BY <2>1 DEF Propose, Schedule
  <2>2. ASSUME Confirm PROVE JobsHandled'
    BY <2>2 DEF Confirm, Schedule
  <2>3. ASSUME Reject PROVE JobsHandled'
    BY <2>3 DEF Reject, Schedule
  <2>4. ASSUME Reaccept PROVE JobsHandled'
    BY <2>4 DEF Reaccept, Schedule
  <2>5. ASSUME Revoke PROVE JobsHandled'
    BY <2>5 DEF Revoke, Schedule
  <2>6. ASSUME Complete PROVE JobsHandled'
    BY <2>6 DEF Complete
  <2>7. ASSUME ScanRead PROVE JobsHandled'
    BY <2>7 DEF ScanRead
  <2>8. ASSUME ScanAdd PROVE JobsHandled'
    <3>1. \A w \in Workers : workers[w] # Free => workers[w] \in Versions
      BY DEF TypeOK
    <3>2. \A w \in Workers : workers[w] # Free => jobs'[workers[w]] = jobs[workers[w]]
      BY <2>8, <3>1 DEF ScanAdd, TypeOK
    <3>3. \A v \in Versions : jobs'[v] # jobs[v] => jobs'[v].tries = 0
      BY <2>8 DEF ScanAdd, TypeOK
    <3> QED BY <2>8, <3>2, <3>3, BoundsAssumption DEF ScanAdd
  <2>9. ASSUME ScanMark PROVE JobsHandled'
    BY <2>9 DEF ScanMark
  <2>10. ASSUME ScanFails PROVE JobsHandled'
    BY <2>10 DEF ScanFails
  <2>11. ASSUME NEW w \in Workers, NEW v \in Versions, HandleReminder(w, v)
         PROVE  JobsHandled'
    <3>1. \A x \in Workers : workers[x] # v
      BY <2>11 DEF HandleReminder, Due, Free, Versions
    <3>2. v # Free
      BY DEF Versions, Free
    <3>3. CASE Wanted(v)
      <4>1. /\ workers' = [workers EXCEPT ![w] = v]
            /\ jobs' = [jobs EXCEPT ![v].state = "active"]
        BY <2>11, <3>3 DEF HandleReminder
      <4>2. jobs'[v].state = "active" /\ jobs'[v].tries = jobs[v].tries
        BY <4>1 DEF TypeOK
      <4>3. jobs[v].tries < Attempts
        BY <2>11 DEF HandleReminder, Due
      <4>4. \A x \in Versions : x # v => jobs'[x] = jobs[x]
        BY <4>1 DEF TypeOK
      <4>5. \A x \in Workers : workers'[x] = IF x = w THEN v ELSE workers[x]
        BY <4>1 DEF TypeOK
      <4>6. \A x \in Workers : workers[x] \in Versions \cup {Free}
        BY DEF TypeOK
      <4> QED BY <3>1, <4>2, <4>3, <4>4, <4>5, <4>6
    <3>4. CASE ~Wanted(v)
      BY <2>11, <3>1, <3>4 DEF HandleReminder, NoJob, TypeOK
    <3> QED BY <3>3, <3>4
  <2>12. ASSUME NEW w \in Workers, MarkSent(w) PROVE JobsHandled'
    <3>1. workers[w] \in Versions /\ jobs[workers[w]].state = "active"
      BY <2>12 DEF MarkSent, TypeOK
    <3>2. \A x \in Workers : x # w /\ workers[x] # Free => workers[x] # workers[w]
      BY <2>12 DEF MarkSent
    <3>3. jobs' = [jobs EXCEPT ![workers[w]] = jobs'[workers[w]]]
      BY <2>12, <3>1 DEF MarkSent, TypeOK
    <3>4. jobs'[workers[w]].state = "delayed" => jobs'[workers[w]].tries < Attempts
      BY <2>12, <3>1, FailedJob DEF MarkSent, NoJob, TypeInv, TypeOK
    <3>5. jobs'[workers[w]].state # "active"
      BY <2>12, <3>1, FailedJob DEF MarkSent, NoJob, TypeInv, TypeOK
    <3>6. workers' = [workers EXCEPT ![w] = Free]
      BY <2>12 DEF MarkSent
    <3> QED BY <3>1, <3>2, <3>3, <3>4, <3>5, <3>6 DEF TypeOK
  <2>13. ASSUME NEW v \in Versions, ReadFails(v) PROVE JobsHandled'
    <3>1. \A x \in Workers : workers[x] # v
      BY <2>13 DEF ReadFails, Due, Free, Versions
    <3>2. Failed(jobs[v]).state = "delayed" => Failed(jobs[v]).tries < Attempts
      BY <2>13, FailedJob DEF TypeInv, ReadFails, Due
    <3>3. Failed(jobs[v]).state # "active"
      BY <2>13, FailedJob DEF TypeInv, ReadFails, Due
    <3> QED BY <2>13, <3>1, <3>2, <3>3 DEF ReadFails, TypeOK
  <2>14. ASSUME NEW w \in Workers, MarkSentFails(w) PROVE JobsHandled'
    <3>1. workers[w] \in Versions /\ jobs[workers[w]].state = "active"
      BY <2>14 DEF MarkSentFails, TypeOK
    <3>2. \A x \in Workers : x # w /\ workers[x] # Free => workers[x] # workers[w]
      BY <2>14 DEF MarkSentFails
    <3>3. /\ Failed(jobs[workers[w]]).state = "delayed" =>
               Failed(jobs[workers[w]]).tries < Attempts
          /\ Failed(jobs[workers[w]]).state # "active"
      BY <3>1, FailedJob DEF TypeInv
    <3> QED BY <2>14, <3>1, <3>2, <3>3 DEF MarkSentFails, TypeOK
  <2>15. ASSUME MarkOverdue PROVE JobsHandled'
    BY <2>15 DEF MarkOverdue
  <2>16. ASSUME Tick PROVE JobsHandled'
    BY <2>16 DEF Tick
  <2>17. ASSUME UNCHANGED vars PROVE JobsHandled'
    BY <2>17 DEF vars
  <2> QED
    BY <2>1, <2>2, <2>3, <2>4, <2>5, <2>6, <2>7, <2>8, <2>9, <2>10, <2>11, <2>12,
       <2>13, <2>14, <2>15, <2>16, <2>17
    DEF Next, Services, Scan, Handle
<1> QED BY <1>1, <1>2 DEF TypeInv

\* The row, the queue's jobs, the scan and the handlers keep values of their
\* types, however many times a job fails.
THEOREM ReminderTypes == Spec => []TypeOK
<1>1. TypeInv => TypeOK
  BY DEF TypeInv
<1> QED BY <1>1, TypeInvInit, TypeInvNext, PTL DEF Spec

-----------------------------------------------------------------------------
(* Reminders are not early *)

\* Within the first acceptance versions only grow: a scan and the jobs are of
\* versions up to the present one; what is of the present version has the start
\* of the confirmed visit, and a job that runs or ran has been due.
JobsOfVersion ==
  accepts = 1 =>
    /\ \A v \in Versions : jobs[v].state # "none" => v <= asg.version
    /\ \A v \in Versions : jobs[v].state \in {"active", "failed"} => jobs[v].runAt <= now
    /\ scan.pc # "idle" => scan.version <= asg.version
    /\ asg.status = "scheduled" =>
         /\ scan.pc # "idle" /\ scan.version = asg.version => scan.start = asg.start
         /\ jobs[asg.version].state # "none" => jobs[asg.version].runAt >= asg.start - Lead

EarlyInv == TypeInv /\ JobsOfVersion

LEMMA EarlyInvInit == Init => EarlyInv
<1> SUFFICES ASSUME Init PROVE EarlyInv
  OBVIOUS
<1>1. JobsOfVersion
  BY DEF Init, JobsOfVersion, NoJob, NoScan
<1> QED BY <1>1, TypeInvInit DEF EarlyInv

LEMMA NextVersion ==
  ASSUME TypeOK, asg.version < MaxVersion PROVE asg.version + 1 \in Versions
BY BoundsAssumption DEF TypeOK, Versions

LEMMA EarlyInvNext == EarlyInv /\ [Next]_vars => EarlyInv'
<1> SUFFICES ASSUME EarlyInv, [Next]_vars PROVE EarlyInv'
  OBVIOUS
<1>0. /\ TypeInv /\ TypeOK /\ JobsOfVersion
      /\ asg.version \in Versions /\ asg.start \in Times \cup {NoStart}
      /\ accepts \in Nat /\ accepts >= 1
      /\ jobs \in [Versions -> [state : {"none", "delayed", "active", "failed"},
                                runAt : Times, tries : 0..Attempts]]
      /\ scan.version \in Versions
      /\ \A w \in Workers : workers[w] \in Versions \cup {Free}
      /\ DOMAIN asg = {"status", "version", "start", "reminder"}
  BY BoundsAssumption DEF EarlyInv, TypeInv, TypeOK
<1>1. /\ \A v \in Versions : v \in Int /\ jobs[v].runAt \in Int
      /\ now \in Int /\ Lead \in Int /\ asg.start \in Int
  BY <1>0, TimesAssumption, BoundsAssumption DEF Versions, Times, TypeOK, NoStart
<1>2. JobsOfVersion'
  <2> USE <1>0, <1>1 DEF JobsOfVersion
  <2>1. ASSUME NEW t \in Times, Propose(t) PROVE JobsOfVersion'
    <3>1. /\ asg'.version = asg.version + 1 /\ asg'.status # "scheduled"
          /\ UNCHANGED <<jobs, scan, now, accepts>>
      BY <2>1 DEF Propose, Schedule
    <3> QED BY <3>1
  <2>2. ASSUME Confirm PROVE JobsOfVersion'
    <3>1. /\ asg'.version = asg.version + 1
          /\ UNCHANGED <<jobs, scan, now, accepts>>
      BY <2>2 DEF Confirm, Schedule
    <3>2. asg.version + 1 \in Versions
      BY <2>2, NextVersion DEF Confirm
    <3>3. accepts = 1 => jobs[asg.version + 1].state = "none"
      BY <3>2
    <3> QED BY <3>1, <3>3
  <2>3. ASSUME Reject PROVE JobsOfVersion'
    <3>1. /\ asg'.version = asg.version + 1 /\ asg'.status # "scheduled"
          /\ UNCHANGED <<jobs, scan, now, accepts>>
      BY <2>3 DEF Reject, Schedule
    <3> QED BY <3>1
  <2>4. ASSUME Reaccept PROVE JobsOfVersion'
    <3>1. accepts' # 1
      BY <2>4 DEF Reaccept
    <3> QED BY <3>1
  <2>5. ASSUME Revoke PROVE JobsOfVersion'
    BY <2>5 DEF Revoke, Schedule
  <2>6. ASSUME Complete PROVE JobsOfVersion'
    BY <2>6 DEF Complete
  <2>7. ASSUME ScanRead PROVE JobsOfVersion'
    <3>1. UNCHANGED <<asg, accepts, jobs, now>>
      BY <2>7 DEF ScanRead
    <3>2. \/ scan' = scan
          \/ scan'.pc = "add" /\ scan'.version = asg.version /\ scan'.start = asg.start
      BY <2>7 DEF ScanRead
    <3> QED BY <3>1, <3>2
  <2>8. ASSUME ScanAdd PROVE JobsOfVersion'
    <3>1. scan.start \in Times \cup {NoStart}
      BY DEF TypeOK
    <3>2. RunAt(scan.start) >= scan.start - Lead /\ RunAt(scan.start) \in Times
      BY <3>1, RunAtType DEF TypeOK
    <3>3. CASE jobs[scan.version].state = "none"
      <4>1. \A v \in Versions :
              jobs'[v] = IF v = scan.version
                         THEN [state |-> "delayed", runAt |-> RunAt(scan.start), tries |-> 0]
                         ELSE jobs[v]
        BY <2>8, <3>3 DEF ScanAdd
      <4>2. UNCHANGED <<asg, accepts, now>> /\ scan' = [scan EXCEPT !.pc = "mark"]
        BY <2>8 DEF ScanAdd
      <4>3. scan.pc # "idle" /\ scan'.version = scan.version /\ scan'.start = scan.start
        BY <2>8, <4>2 DEF ScanAdd, TypeOK
      <4> QED BY <3>1, <3>2, <4>1, <4>2, <4>3
    <3>4. CASE jobs[scan.version].state # "none"
      BY <2>8, <3>4 DEF ScanAdd, TypeOK
    <3> QED BY <3>3, <3>4
  <2>9. ASSUME ScanMark PROVE JobsOfVersion'
    BY <2>9 DEF ScanMark, MarkQueued, NoScan
  <2>10. ASSUME ScanFails PROVE JobsOfVersion'
    BY <2>10 DEF ScanFails, NoScan
  <2>11. ASSUME NEW w \in Workers, NEW v \in Versions, HandleReminder(w, v)
         PROVE  JobsOfVersion'
    <3>1. jobs[v].state = "delayed" /\ jobs[v].runAt <= now
      BY <2>11 DEF HandleReminder, Due
    <3>2. \A x \in Versions : x # v => jobs'[x] = jobs[x]
      BY <2>11 DEF HandleReminder
    <3>3. \/ jobs'[v].state = "active" /\ jobs'[v].runAt = jobs[v].runAt
          \/ jobs'[v].state = "none"
      BY <2>11 DEF HandleReminder, NoJob
    <3>4. UNCHANGED <<asg, accepts, scan, now>>
      BY <2>11 DEF HandleReminder
    <3> QED BY <3>1, <3>2, <3>3, <3>4
  <2>12. ASSUME NEW w \in Workers, MarkSent(w) PROVE JobsOfVersion'
    <3>1. workers[w] \in Versions /\ jobs[workers[w]].state = "active"
      BY <2>12 DEF MarkSent, TypeInv, JobsHandled
    <3>2. \A x \in Versions : x # workers[w] => jobs'[x] = jobs[x]
      BY <2>12, <3>1 DEF MarkSent
    <3>3. UNCHANGED <<accepts, scan, now>>
      BY <2>12 DEF MarkSent
    <3>4. CASE asg.status = "none"
      <4>1. jobs'[workers[w]].runAt = now /\ asg' = asg
        BY <2>12, <3>1, <3>4, FailedJob DEF MarkSent
      <4> QED BY <3>1, <3>2, <3>3, <3>4, <4>1
    <3>5. CASE asg.status # "none"
      <4>1. jobs'[workers[w]].state = "none"
        BY <2>12, <3>1, <3>5 DEF MarkSent, NoJob
      <4>2. asg'.version = asg.version /\ asg'.status = asg.status /\ asg'.start = asg.start
        BY <2>12, <3>5 DEF MarkSent
      <4> QED BY <3>2, <3>3, <4>1, <4>2
    <3> QED BY <3>4, <3>5
  <2>13. ASSUME NEW v \in Versions, ReadFails(v) PROVE JobsOfVersion'
    <3>1. jobs[v].state = "delayed" /\ jobs[v].runAt <= now
      BY <2>13 DEF ReadFails, Due
    <3>2. \A x \in Versions : x # v => jobs'[x] = jobs[x]
      BY <2>13 DEF ReadFails
    <3>3. jobs'[v].runAt = now
      BY <2>13, <3>1, FailedJob DEF ReadFails
    <3>5. accepts = 1 /\ asg.status = "scheduled" /\ v = asg.version => now >= asg.start - Lead
      BY <3>1
    <3>4. UNCHANGED <<asg, accepts, scan, now>>
      BY <2>13 DEF ReadFails
    <3> QED BY <3>1, <3>2, <3>3, <3>4, <3>5
  <2>14. ASSUME NEW w \in Workers, MarkSentFails(w) PROVE JobsOfVersion'
    <3>1. workers[w] \in Versions /\ jobs[workers[w]].state = "active"
      BY <2>14 DEF MarkSentFails, TypeInv, JobsHandled
    <3>2. \A x \in Versions : x # workers[w] => jobs'[x] = jobs[x]
      BY <2>14, <3>1 DEF MarkSentFails
    <3>3. jobs'[workers[w]].runAt = now
      BY <2>14, <3>1, FailedJob DEF MarkSentFails
    <3>5. accepts = 1 /\ asg.status = "scheduled" /\ workers[w] = asg.version
            => now >= asg.start - Lead
      BY <3>1
    <3>4. UNCHANGED <<asg, accepts, scan, now>>
      BY <2>14 DEF MarkSentFails
    <3> QED BY <3>1, <3>2, <3>3, <3>4, <3>5
  <2>15. ASSUME MarkOverdue PROVE JobsOfVersion'
    BY <2>15 DEF MarkOverdue
  <2>16. ASSUME Tick PROVE JobsOfVersion'
    <3>1. now' = now + 1 /\ UNCHANGED <<asg, accepts, jobs, scan>>
      BY <2>16 DEF Tick
    <3>2. \A v \in Versions : jobs[v].runAt <= now => jobs[v].runAt <= now + 1
      OBVIOUS
    <3> QED BY <3>1, <3>2
  <2>17. ASSUME UNCHANGED vars PROVE JobsOfVersion'
    BY <2>17 DEF vars
  <2> QED
    BY <2>1, <2>2, <2>3, <2>4, <2>5, <2>6, <2>7, <2>8, <2>9, <2>10, <2>11, <2>12,
       <2>13, <2>14, <2>15, <2>16, <2>17
    DEF Next, Services, Scan, Handle
<1> QED BY <1>2, TypeInvNext DEF EarlyInv

\* Within the first acceptance no reminder goes out before its lead time: the
\* step that sends one is the handler's, whose job is due, and the job of the
\* confirmed version was made due Lead before the confirmed start at least.
THEOREM RemindersNotEarly == Spec => NeverEarly
<1>1. EarlyInv /\ [Next]_vars
        => (sent' > sent /\ accepts = 1 => now >= asg.start - Lead)
  <2> SUFFICES ASSUME EarlyInv, [Next]_vars, sent' > sent, accepts = 1
               PROVE  now >= asg.start - Lead
    OBVIOUS
  <2>1. sent \in Nat /\ now \in Nat /\ Lead \in Nat /\ TypeOK
    BY TimesAssumption DEF EarlyInv, TypeInv, TypeOK, Times
  <2>2. PICK w \in Workers, v \in Versions : HandleReminder(w, v) /\ Wanted(v)
    BY <2>1
    DEF Next, Services, Scan, Handle, vars, Propose, Confirm, Reject, Reaccept, Revoke,
        Complete, Schedule, ScanRead, ScanAdd, ScanMark, ScanFails, HandleReminder,
        MarkSent, ReadFails, MarkSentFails, MarkOverdue, Tick
  <2>3. /\ asg.status = "scheduled" /\ asg.version = v
        /\ jobs[v].state = "delayed" /\ jobs[v].runAt <= now
    BY <2>2 DEF HandleReminder, Wanted, Due
  <2>4. jobs[v].runAt >= asg.start - Lead
    BY <2>3 DEF EarlyInv, JobsOfVersion
  <2>5. jobs[v].runAt \in Nat /\ asg.start \in Int
    BY <2>1, TimesAssumption DEF TypeOK, Times, NoStart
  <2> QED BY <2>1, <2>3, <2>4, <2>5
<1> QED BY <1>1, EarlyInvInit, EarlyInvNext, PTL DEF Spec, NeverEarly

-----------------------------------------------------------------------------
(* At most one reminder *)

\* Without a failure: once the job of the confirmed visit is in the queue, the
\* scan is about to mark the row or the row is marked, so that no scan adds the
\* job again; and once the reminder is out the job is not waiting any more.
OnlyOneJob ==
  failures = 0 /\ accepts = 1 =>
    /\ sent <= 1
    /\ asg.status = "scheduled" =>
         /\ scan.pc = "add" /\ scan.version = asg.version =>
              jobs[asg.version].state = "none" /\ sent = 0
         /\ jobs[asg.version].state # "none" \/ sent > 0 =>
              asg.reminder # "NONE" \/ (scan.pc = "mark" /\ scan.version = asg.version)
         /\ sent > 0 => jobs[asg.version].state \in {"none", "active"}

OnceInv == EarlyInv /\ OnlyOneJob

LEMMA OnceInvInit == Init => OnceInv
<1> SUFFICES ASSUME Init PROVE OnceInv
  OBVIOUS
<1>1. OnlyOneJob
  BY DEF Init, OnlyOneJob
<1> QED BY <1>1, EarlyInvInit DEF OnceInv

LEMMA OnceInvNext == OnceInv /\ [Next]_vars => OnceInv'
<1> SUFFICES ASSUME OnceInv, [Next]_vars PROVE OnceInv'
  OBVIOUS
<1>0. /\ EarlyInv /\ TypeInv /\ TypeOK /\ OnlyOneJob
      /\ asg.version \in Versions /\ scan.version \in Versions
      /\ jobs \in [Versions -> [state : {"none", "delayed", "active", "failed"},
                                runAt : Times, tries : 0..Attempts]]
      /\ DOMAIN asg = {"status", "version", "start", "reminder"}
      /\ sent \in Nat /\ failures \in Nat /\ accepts \in Nat /\ accepts >= 1
      /\ scan \in [pc : {"idle", "add", "mark"}, version : Versions,
                   start : Times \cup {NoStart}]
  BY BoundsAssumption DEF OnceInv, EarlyInv, TypeInv, TypeOK
<1>2. OnlyOneJob'
  <2> USE <1>0 DEF OnlyOneJob
  <2>1. ASSUME NEW t \in Times, Propose(t) PROVE OnlyOneJob'
    <3>1. /\ asg'.status # "scheduled" /\ sent' = 0
          /\ UNCHANGED <<failures, accepts>>
      BY <2>1 DEF Propose, Schedule
    <3> QED BY <3>1
  <2>2. ASSUME Confirm PROVE OnlyOneJob'
    <3>1. /\ asg'.version = asg.version + 1 /\ sent' = 0
          /\ UNCHANGED <<jobs, scan, failures, accepts>>
      BY <2>2 DEF Confirm, Schedule
    <3>2. asg.version + 1 \in Versions
      BY <2>2, NextVersion DEF Confirm
    <3>3. asg.version \in Int /\ scan.version \in Int
      BY DEF Versions
    <3>4. accepts = 1 =>
            /\ jobs[asg.version + 1].state = "none"
            /\ scan.pc # "idle" => scan.version # asg.version + 1
      BY <3>2, <3>3 DEF EarlyInv, JobsOfVersion
    <3> QED BY <3>1, <3>4
  <2>3. ASSUME Reject PROVE OnlyOneJob'
    <3>1. /\ asg'.status # "scheduled" /\ sent' = 0
          /\ UNCHANGED <<failures, accepts>>
      BY <2>3 DEF Reject, Schedule
    <3> QED BY <3>1
  <2>4. ASSUME Reaccept PROVE OnlyOneJob'
    <3>1. accepts' # 1
      BY <2>4 DEF Reaccept
    <3> QED BY <3>1
  <2>5. ASSUME Revoke PROVE OnlyOneJob'
    <3>1. /\ asg'.status # "scheduled" /\ sent' = 0
          /\ UNCHANGED <<failures, accepts>>
      BY <2>5 DEF Revoke, Schedule
    <3> QED BY <3>1
  <2>6. ASSUME Complete PROVE OnlyOneJob'
    <3>1. asg'.status # "scheduled" /\ UNCHANGED <<sent, failures, accepts>>
      BY <2>6 DEF Complete
    <3> QED BY <3>1
  <2>7. ASSUME ScanRead PROVE OnlyOneJob'
    <3>1. UNCHANGED <<asg, jobs, sent, failures, accepts>> /\ scan.pc = "idle"
      BY <2>7 DEF ScanRead
    <3>2. \/ scan' = scan
          \/ /\ scan'.pc = "add" /\ asg.status = "scheduled" /\ asg.reminder = "NONE"
      BY <2>7 DEF ScanRead, Matched
    <3> QED BY <3>1, <3>2
  <2>8. ASSUME ScanAdd PROVE OnlyOneJob'
    <3>1. /\ UNCHANGED <<asg, sent, failures, accepts>> /\ scan.pc = "add"
          /\ scan'.pc = "mark" /\ scan'.version = scan.version
      BY <2>8 DEF ScanAdd
    <3>2. \A v \in Versions : v # scan.version => jobs'[v] = jobs[v]
      BY <2>8 DEF ScanAdd
    <3> QED BY <3>1, <3>2
  <2>9. ASSUME ScanMark PROVE OnlyOneJob'
    <3>1. /\ UNCHANGED <<jobs, sent, failures, accepts>> /\ scan'.pc = "idle"
          /\ asg'.version = asg.version /\ asg'.status = asg.status
      BY <2>9 DEF ScanMark, MarkQueued, NoScan
    <3>2. asg.status = "scheduled" => asg'.reminder = "QUEUED"
      BY <2>9 DEF ScanMark, MarkQueued
    <3> QED BY <3>1, <3>2
  <2>10. ASSUME ScanFails PROVE OnlyOneJob'
    <3>1. failures' # 0
      BY <2>10 DEF ScanFails
    <3> QED BY <3>1
  <2>11. ASSUME NEW w \in Workers, NEW v \in Versions, HandleReminder(w, v)
         PROVE  OnlyOneJob'
    <3>1. UNCHANGED <<asg, scan, failures, accepts>> /\ jobs[v].state = "delayed"
      BY <2>11 DEF HandleReminder, Due
    <3>2. \A x \in Versions : x # v => jobs'[x] = jobs[x]
      BY <2>11 DEF HandleReminder
    <3>3. CASE Wanted(v)
      <4>1. sent' = sent + 1 /\ jobs'[v].state = "active"
        BY <2>11, <3>3 DEF HandleReminder
      <4>2. v = asg.version /\ asg.status = "scheduled"
        BY <3>3 DEF Wanted
      <4>3. failures = 0 /\ accepts = 1 => sent = 0
        BY <3>1, <4>2
      <4> QED BY <3>1, <3>2, <4>1, <4>2, <4>3
    <3>4. CASE ~Wanted(v)
      <4>1. sent' = sent /\ jobs'[v].state = "none"
        BY <2>11, <3>4 DEF HandleReminder, NoJob
      <4> QED BY <3>1, <3>2, <4>1
    <3> QED BY <3>3, <3>4
  <2>12. ASSUME NEW w \in Workers, MarkSent(w) PROVE OnlyOneJob'
    <3>1. workers[w] \in Versions /\ jobs[workers[w]].state = "active"
      BY <2>12 DEF MarkSent, TypeInv, JobsHandled, TypeOK
    <3>2. \A x \in Versions : x # workers[w] => jobs'[x] = jobs[x]
      BY <2>12, <3>1 DEF MarkSent
    <3>3. UNCHANGED <<accepts, scan, sent, failures>>
      BY <2>12 DEF MarkSent
    <3>4. CASE asg.status = "none"
      <4>1. asg' = asg
        BY <2>12, <3>4 DEF MarkSent
      <4> QED BY <3>3, <3>4, <4>1
    <3>5. CASE asg.status # "none"
      <4>1. jobs'[workers[w]].state = "none"
        BY <2>12, <3>1, <3>5 DEF MarkSent, NoJob
      <4>2. /\ asg'.version = asg.version /\ asg'.status = asg.status
            /\ asg'.reminder = "SENT"
        BY <2>12, <3>5 DEF MarkSent
      <4> QED BY <3>1, <3>2, <3>3, <4>1, <4>2
    <3> QED BY <3>4, <3>5
  <2>13. ASSUME NEW v \in Versions, ReadFails(v) PROVE OnlyOneJob'
    <3>1. failures' # 0
      BY <2>13 DEF ReadFails
    <3> QED BY <3>1
  <2>14. ASSUME NEW w \in Workers, MarkSentFails(w) PROVE OnlyOneJob'
    <3>1. failures' # 0
      BY <2>14 DEF MarkSentFails
    <3> QED BY <3>1
  <2>15. ASSUME MarkOverdue PROVE OnlyOneJob'
    <3>1. /\ asg'.version = asg.version /\ asg'.status = asg.status
          /\ asg'.reminder = "OVERDUE"
          /\ UNCHANGED <<jobs, scan, sent, failures, accepts>>
      BY <2>15 DEF MarkOverdue
    <3> QED BY <3>1
  <2>16. ASSUME Tick PROVE OnlyOneJob'
    BY <2>16 DEF Tick
  <2>17. ASSUME UNCHANGED vars PROVE OnlyOneJob'
    BY <2>17 DEF vars
  <2> QED
    BY <2>1, <2>2, <2>3, <2>4, <2>5, <2>6, <2>7, <2>8, <2>9, <2>10, <2>11, <2>12,
       <2>13, <2>14, <2>15, <2>16, <2>17
    DEF Next, Services, Scan, Handle
<1> QED BY <1>2, EarlyInvNext DEF OnceInv

\* Without a failure, and within the first acceptance, a confirmation is
\* reminded of at most once, whatever the scan, the handlers and the overdue
\* marking overwrite in reminderStatus, and wherever a schedule change lands.
THEOREM RemindedOnce == Spec => []AtMostOneReminder
<1>1. OnceInv => AtMostOneReminder
  BY DEF OnceInv, OnlyOneJob, AtMostOneReminder
<1> QED BY <1>1, OnceInvInit, OnceInvNext, PTL DEF Spec

-----------------------------------------------------------------------------
(* A visit marked QUEUED has a job *)

\* As long as nothing disturbed it: what the scan and the handlers work on is
\* the present version, a row marked SENT was reminded, a job fails no more
\* often than there are failures and is given up only after all its attempts,
\* and a row marked, or about to be marked, has a job or its reminder.
MarkedHasJob ==
  Undisturbed =>
    /\ scan.pc # "idle" => scan.version = asg.version
    /\ asg.status # "none" =>
         \A v \in Versions : /\ jobs[v].tries <= failures
                             /\ jobs[v].state # "failed"
    /\ \A w \in Workers : workers[w] # Free => workers[w] = asg.version /\ sent > 0
    /\ asg.status = "scheduled" =>
         /\ asg.reminder = "SENT" => sent > 0
         /\ asg.reminder = "QUEUED" \/ scan.pc = "mark" =>
              sent > 0 \/ jobs[asg.version].state \in {"delayed", "active"}

QueuedInv == EarlyInv /\ MarkedHasJob

LEMMA QueuedInvInit == Init => QueuedInv
<1> SUFFICES ASSUME Init PROVE QueuedInv
  OBVIOUS
<1>1. MarkedHasJob
  BY DEF Init, MarkedHasJob, NoJob, NoScan, Free
<1> QED BY <1>1, EarlyInvInit DEF QueuedInv

\* A change of the schedule leaves a visit undisturbed only while neither the
\* scan nor a handler works on it.
LEMMA ChangeWhenQuiet ==
  ASSUME QueuedInv, NEW row, Schedule(row), accepts' = accepts, Undisturbed',
         row.status = "none" \/ asg.status # "none", row.reminder = "NONE" \/ row.status = "none"
  PROVE  MarkedHasJob'
<1>1. /\ ~raced /\ Quiet /\ UNCHANGED <<jobs, scan, workers, failures>>
      /\ asg' = row
  BY DEF Schedule, Undisturbed
<1>2. Undisturbed
  BY <1>1 DEF Undisturbed
<1>3. scan'.pc = "idle" /\ \A w \in Workers : workers'[w] = Free
  BY <1>1 DEF Quiet
<1> QED BY <1>1, <1>2, <1>3 DEF QueuedInv, MarkedHasJob

LEMMA QueuedInvNext == QueuedInv /\ [Next]_vars => QueuedInv'
<1> SUFFICES ASSUME QueuedInv, [Next]_vars PROVE QueuedInv'
  OBVIOUS
<1>0. /\ EarlyInv /\ TypeInv /\ TypeOK /\ MarkedHasJob
      /\ asg.version \in Versions /\ scan.version \in Versions
      /\ jobs \in [Versions -> [state : {"none", "delayed", "active", "failed"},
                                runAt : Times, tries : 0..Attempts]]
      /\ DOMAIN asg = {"status", "version", "start", "reminder"}
      /\ sent \in Nat /\ failures \in Nat /\ accepts \in Nat /\ accepts >= 1
      /\ Attempts \in Nat /\ Attempts > 0
      /\ \A w \in Workers : workers[w] \in Versions \cup {Free}
  BY BoundsAssumption DEF QueuedInv, EarlyInv, TypeInv, TypeOK
<1>1. MarkedHasJob'
  <2> SUFFICES ASSUME Undisturbed' PROVE MarkedHasJob'
    BY DEF MarkedHasJob
  <2> USE <1>0
  <2>1. ASSUME NEW t \in Times, Propose(t) PROVE MarkedHasJob'
    BY <2>1, ChangeWhenQuiet DEF Propose
  <2>2. ASSUME Confirm PROVE MarkedHasJob'
    <3> DEFINE row == [asg EXCEPT !.status = "scheduled", !.version = @ + 1,
                                  !.reminder = "NONE"]
    <3>1. Schedule(row) /\ asg.status # "none" /\ accepts' = accepts
      BY <2>2 DEF Confirm
    <3>2. row.reminder = "NONE"
      OBVIOUS
    <3> HIDE DEF row
    <3> QED BY <3>1, <3>2, ChangeWhenQuiet
  <2>3. ASSUME Reject PROVE MarkedHasJob'
    BY <2>3, ChangeWhenQuiet DEF Reject
  <2>4. ASSUME Reaccept PROVE MarkedHasJob'
    <3>1. accepts' # 1
      BY <2>4 DEF Reaccept
    <3> QED BY <3>1 DEF Undisturbed
  <2>5. ASSUME Revoke PROVE MarkedHasJob'
    <3> DEFINE row == [asg EXCEPT !.status = "none", !.start = NoStart]
    <3>1. Schedule(row) /\ accepts' = accepts
      BY <2>5 DEF Revoke
    <3>2. row.status = "none"
      OBVIOUS
    <3> HIDE DEF row
    <3> QED BY <3>1, <3>2, ChangeWhenQuiet
  <2> USE DEF MarkedHasJob, Undisturbed
  <2>6. ASSUME Complete PROVE MarkedHasJob'
    <3>1. /\ asg'.status = "completed" /\ asg'.version = asg.version /\ asg.status # "none"
          /\ UNCHANGED <<accepts, jobs, scan, workers, sent, raced, failures>>
      BY <2>6 DEF Complete
    <3> QED BY <3>1
  <2>7. ASSUME ScanRead PROVE MarkedHasJob'
    <3>1. UNCHANGED <<asg, accepts, jobs, workers, sent, raced, failures>> /\ scan.pc = "idle"
      BY <2>7 DEF ScanRead
    <3>2. \/ scan' = scan
          \/ scan'.pc = "add" /\ scan'.version = asg.version
      BY <2>7 DEF ScanRead
    <3> QED BY <3>1, <3>2
  <2>8. ASSUME ScanAdd PROVE MarkedHasJob'
    <3>1. /\ UNCHANGED <<asg, accepts, workers, sent, raced, failures>> /\ scan.pc = "add"
          /\ scan'.pc = "mark" /\ scan'.version = scan.version
      BY <2>8 DEF ScanAdd, TypeOK
    <3>2. \A v \in Versions : v # scan.version => jobs'[v] = jobs[v]
      BY <2>8 DEF ScanAdd
    <3>3. \/ jobs[scan.version].state # "none" /\ jobs'[scan.version] = jobs[scan.version]
          \/ jobs'[scan.version].state = "delayed" /\ jobs'[scan.version].tries = 0
      BY <2>8 DEF ScanAdd
    <3> QED BY <3>1, <3>2, <3>3
  <2>9. ASSUME ScanMark PROVE MarkedHasJob'
    <3>1. /\ UNCHANGED <<accepts, jobs, workers, sent, raced, failures>> /\ scan.pc = "mark"
          /\ scan'.pc = "idle" /\ asg'.version = asg.version /\ asg'.status = asg.status
      BY <2>9 DEF ScanMark, MarkQueued, NoScan
    <3>2. asg.status = "scheduled" => asg'.reminder = "QUEUED"
      BY <2>9 DEF ScanMark, MarkQueued
    <3> QED BY <3>1, <3>2
  <2>10. ASSUME ScanFails PROVE MarkedHasJob'
    <3>1. /\ UNCHANGED <<asg, accepts, jobs, workers, sent, raced>>
          /\ failures' = failures + 1 /\ scan'.pc = "idle"
      BY <2>10 DEF ScanFails, NoScan
    <3>2. Undisturbed
      BY <3>1
    <3>3. \A v \in Versions : jobs[v].tries \in Int
      OBVIOUS
    <3> QED BY <3>1, <3>2, <3>3
  <2>11. ASSUME NEW w \in Workers, NEW v \in Versions, HandleReminder(w, v)
         PROVE  MarkedHasJob'
    <3>1. UNCHANGED <<asg, scan, failures, accepts, raced>> /\ jobs[v].state = "delayed"
      BY <2>11 DEF HandleReminder, Due
    <3>2. \A x \in Versions : x # v => jobs'[x] = jobs[x]
      BY <2>11 DEF HandleReminder
    <3>3. CASE Wanted(v)
      <4>1. /\ sent' = sent + 1 /\ jobs'[v].state = "active" /\ jobs'[v].tries = jobs[v].tries
            /\ workers' = [workers EXCEPT ![w] = v]
        BY <2>11, <3>3 DEF HandleReminder
      <4>2. v = asg.version /\ asg.status = "scheduled" /\ sent' > 0
        BY <3>3, <4>1 DEF Wanted
      <4>3. \A x \in Workers : workers'[x] # Free => workers'[x] = asg.version
        BY <3>1, <4>1, <4>2 DEF TypeOK
      <4> QED BY <3>1, <3>2, <4>1, <4>2, <4>3
    <3>4. CASE ~Wanted(v)
      <4>1. /\ UNCHANGED <<sent, workers>>
            /\ jobs'[v].state = "none" /\ jobs'[v].tries = 0
        BY <2>11, <3>4 DEF HandleReminder, NoJob
      <4>2. v = asg.version /\ asg.status = "scheduled" => asg.reminder = "SENT"
        BY <3>4 DEF Wanted
      <4> QED BY <3>1, <3>2, <4>1, <4>2
    <3> QED BY <3>3, <3>4
  <2>12. ASSUME NEW w \in Workers, MarkSent(w) PROVE MarkedHasJob'
    <3>1. workers[w] \in Versions /\ workers[w] # Free
      BY <2>12 DEF MarkSent, TypeOK
    <3>2. \A x \in Versions : x # workers[w] => jobs'[x] = jobs[x]
      BY <2>12, <3>1 DEF MarkSent
    <3>3. UNCHANGED <<accepts, scan, sent, failures, raced>>
      BY <2>12 DEF MarkSent
    <3>4. \A x \in Workers : workers'[x] # Free => workers'[x] = workers[x]
      BY <2>12 DEF MarkSent, TypeOK
    <3>5. workers[w] = asg.version /\ sent > 0
      BY <3>1, <3>3
    <3>6. CASE asg.status = "none"
      <4>1. asg' = asg
        BY <2>12, <3>6 DEF MarkSent
      <4> QED BY <3>3, <3>4, <3>6, <4>1
    <3>7. CASE asg.status # "none"
      <4>1. jobs'[workers[w]].state = "none" /\ jobs'[workers[w]].tries = 0
        BY <2>12, <3>1, <3>7 DEF MarkSent, NoJob
      <4>2. asg'.version = asg.version /\ asg'.status = asg.status
        BY <2>12, <3>7 DEF MarkSent
      <4> QED BY <3>1, <3>2, <3>3, <3>4, <3>5, <3>7, <4>1, <4>2
    <3> QED BY <3>6, <3>7
  <2>13. ASSUME NEW v \in Versions, ReadFails(v) PROVE MarkedHasJob'
    <3>1. jobs[v].state = "delayed" /\ failures' = failures + 1
      BY <2>13 DEF ReadFails, Due
    <3>2. \A x \in Versions : x # v => jobs'[x] = jobs[x]
      BY <2>13 DEF ReadFails
    <3>3. /\ jobs'[v].tries = jobs[v].tries + 1
          /\ jobs'[v].state \in {"delayed", "failed"}
          /\ jobs'[v].state = "failed" => jobs[v].tries + 1 >= Attempts
      BY <2>13, <3>1, FailedJob DEF ReadFails
    <3>4. UNCHANGED <<asg, accepts, scan, workers, sent, raced>>
      BY <2>13 DEF ReadFails
    <3>5. Undisturbed /\ \A x \in Versions : jobs[x].tries \in Int
      BY <3>1, <3>4
    <3> QED BY <3>1, <3>2, <3>3, <3>4, <3>5
  <2>14. ASSUME NEW w \in Workers, MarkSentFails(w) PROVE MarkedHasJob'
    <3>1. /\ workers[w] \in Versions /\ workers[w] # Free /\ failures' = failures + 1
          /\ jobs[workers[w]].state = "active"
      BY <2>14 DEF MarkSentFails, TypeInv, JobsHandled
    <3>2. \A x \in Versions : x # workers[w] => jobs'[x] = jobs[x]
      BY <2>14, <3>1 DEF MarkSentFails
    <3>3. /\ jobs'[workers[w]].tries = jobs[workers[w]].tries + 1
          /\ jobs'[workers[w]].state \in {"delayed", "failed"}
          /\ jobs'[workers[w]].state = "failed" => jobs[workers[w]].tries + 1 >= Attempts
      BY <2>14, <3>1, FailedJob DEF MarkSentFails
    <3>4. UNCHANGED <<asg, accepts, scan, sent, raced>>
      BY <2>14 DEF MarkSentFails
    <3>5. Undisturbed /\ \A x \in Versions : jobs[x].tries \in Int
      BY <3>1, <3>4
    <3>6. \A x \in Workers : workers'[x] # Free => workers'[x] = workers[x]
      BY <2>14 DEF MarkSentFails, TypeOK
    <3> QED BY <3>1, <3>2, <3>3, <3>4, <3>5, <3>6
  <2>15. ASSUME MarkOverdue PROVE MarkedHasJob'
    <3>1. /\ asg'.version = asg.version /\ asg'.status = asg.status
          /\ asg'.reminder = "OVERDUE"
          /\ UNCHANGED <<accepts, jobs, scan, workers, sent, raced, failures>>
      BY <2>15 DEF MarkOverdue
    <3> QED BY <3>1
  <2>16. ASSUME Tick PROVE MarkedHasJob'
    BY <2>16 DEF Tick
  <2>17. ASSUME UNCHANGED vars PROVE MarkedHasJob'
    BY <2>17 DEF vars
  <2> QED
    BY <2>1, <2>2, <2>3, <2>4, <2>5, <2>6, <2>7, <2>8, <2>9, <2>10, <2>11, <2>12,
       <2>13, <2>14, <2>15, <2>16, <2>17
    DEF Next, Services, Scan, Handle
<1> QED BY <1>1, EarlyInvNext DEF QueuedInv

\* While nothing disturbed it, a confirmed visit marked QUEUED, which no later
\* scan looks at again, has had its reminder or has a job that will send it.
THEOREM QueuedVisitHasJob == Spec => []QueuedHasJob
<1>1. QueuedInv => QueuedHasJob
  BY DEF QueuedInv, MarkedHasJob, QueuedHasJob
<1> QED BY <1>1, QueuedInvInit, QueuedInvNext, PTL DEF Spec

=============================================================================
