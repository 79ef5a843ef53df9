------------------------------- MODULE Reminders -------------------------------
(***************************************************************************)
(* RemindersService for one assignment: the periodic scan that enqueues a  *)
(* BullMQ job for a confirmed visit, the worker that runs the job when it  *)
(* is due, and the marking of overdue visits.  The assignment is changed   *)
(* meanwhile by AssignmentsService and QuotesService, whose writes appear  *)
(* here with what they do to the fields the reminders read.                *)
(*                                                                         *)
(* Time is counted in units longer than the poll interval and than a scan  *)
(* (5 minutes against a lead of 30 and a lookahead of 120): a scan starts  *)
(* and ends between two ticks.  The queue keeps at most one job per job id *)
(* assignment:<id>:v<version>, so jobs are indexed by version.             *)
(***************************************************************************)
EXTENDS Integers, FiniteSets

CONSTANTS
  Lead,           \* REMINDER_LEAD_MINUTES
  Lookahead,      \* REMINDER_LOOKAHEAD_MINUTES
  Overdue,        \* REMINDER_OVERDUE_MINUTES
  Attempts,       \* attempts of a job before BullMQ gives up (3)
  Workers,        \* handlers the worker runs at once (REMINDER_WORKER_CONCURRENCY)
  Horizon,        \* bound on time
  MaxVersion,     \* bound on scheduleVersion
  MaxAccepts,     \* bound on the acceptances of the job
  MaxFailures     \* bound on crashes and database or Redis errors

ASSUME TimesAssumption ==
  /\ Lead \in Nat /\ Overdue \in Nat /\ Horizon \in Nat
  /\ Lookahead \in Nat /\ Lookahead >= Lead
ASSUME BoundsAssumption ==
  /\ Attempts \in Nat \ {0} /\ MaxVersion \in Nat
  /\ MaxAccepts \in Nat \ {0} /\ MaxFailures \in Nat

VARIABLES
  asg,            \* the assignment: status, version, start and reminderStatus
  accepts,        \* how many acceptances the assignment went through
  jobs,           \* the BullMQ job of each version
  scan,           \* the scan in progress and the row it read
  workers,        \* the version each busy handler has notified about
  now,            \* the clock
  polled,         \* has the scan of this interval ended?
  sent,           \* history: reminders sent for the present confirmation
  raced,          \* history: did a schedule change ever land while a scan or
                  \* a handler was between its read and its write?
  failures        \* history: crashes and errors so far

vars == <<asg, accepts, jobs, scan, workers, now, polled, sent, raced, failures>>

Versions == 0..MaxVersion
Times == 0..Horizon
NoStart == -1
Free == -1

NoJob == [state |-> "none", runAt |-> 0, tries |-> 0]
NoScan == [pc |-> "idle", version |-> 0, start |-> NoStart]

Init ==
  /\ asg = [status |-> "pending_schedule", version |-> 0, start |-> NoStart,
            reminder |-> "NONE"]
  /\ accepts = 1
  /\ jobs = [v \in Versions |-> NoJob]
  /\ scan = NoScan
  /\ workers = [w \in Workers |-> Free]
  /\ now = 0
  /\ polled = FALSE
  /\ sent = 0
  /\ raced = FALSE
  /\ failures = 0

-----------------------------------------------------------------------------
(* What other services do to the assignment *)

Quiet == scan.pc = "idle" /\ \A w \in Workers : workers[w] = Free

\* A write that starts another schedule: the reminder of the old one is reset.
Schedule(row) ==
  /\ asg' = row
  /\ sent' = 0
  /\ raced' = (raced \/ ~Quiet)
  /\ UNCHANGED <<jobs, scan, workers, now, polled, failures>>

\* updateAssignmentSchedule with a window that starts at t, or a confirmation.
Propose(t) ==
  /\ asg.status \notin {"none", "provider_rejected"}
  /\ asg.version < MaxVersion
  /\ Schedule([status |-> "schedule_proposed", version |-> asg.version + 1,
               start |-> t, reminder |-> "NONE"])
  /\ UNCHANGED accepts

Confirm ==
  /\ asg.status # "none" /\ asg.start # NoStart
  /\ asg.version < MaxVersion
  /\ Schedule([asg EXCEPT !.status = "scheduled", !.version = @ + 1,
                          !.reminder = "NONE"])
  /\ UNCHANGED accepts

Reject ==
  /\ asg.status # "none"
  /\ asg.version < MaxVersion
  /\ Schedule([status |-> "provider_rejected", version |-> asg.version + 1,
               start |-> NoStart, reminder |-> "NONE"])
  /\ UNCHANGED accepts

\* acceptQuote resets the rejected row, its version included.
Reaccept ==
  /\ asg.status = "provider_rejected"
  /\ accepts < MaxAccepts
  /\ accepts' = accepts + 1
  /\ Schedule([status |-> "pending_schedule", version |-> 0, start |-> NoStart,
               reminder |-> "NONE"])

\* revokeAcceptance deletes the row; a later row has another id and other jobs.
Revoke ==
  /\ asg.status \notin {"none", "provider_rejected"}
  /\ Schedule([asg EXCEPT !.status = "none", !.start = NoStart])
  /\ UNCHANGED accepts

\* Completion leaves the schedule and the reminder as they are.
Complete ==
  /\ asg.status # "none"
  /\ asg' = [asg EXCEPT !.status = "completed"]
  /\ UNCHANGED <<accepts, jobs, scan, workers, now, polled, sent, raced, failures>>

-----------------------------------------------------------------------------
(* scanAndEnqueue *)

\* Mutant: the query does not ask for reminderStatus NONE.
MatchedAnyReminder ==
  /\ asg.status = "scheduled"
  /\ asg.start # NoStart /\ now <= asg.start /\ asg.start <= now + Lookahead

\* The where clause of findMany.
Matched ==
  /\ asg.status = "scheduled" /\ asg.reminder = "NONE"
  /\ asg.start # NoStart /\ now <= asg.start /\ asg.start <= now + Lookahead

\* findMany: the row the loop works on is the one of this moment.
ScanRead ==
  /\ scan.pc = "idle" /\ ~polled
  /\ IF Matched
     THEN /\ scan' = [pc |-> "add", version |-> asg.version, start |-> asg.start]
          /\ UNCHANGED polled
     ELSE polled' = TRUE /\ UNCHANGED scan
  /\ UNCHANGED <<asg, accepts, jobs, workers, now, sent, raced, failures>>

\* Mutant: the job is due at once.
RunAtOnce(start) == now

\* When the job is due: its delay is Math.max(0, start - lead - now).
RunAt(start) == IF start - Lead > now THEN start - Lead ELSE now

\* Mutant: a visit inside its lead time gets no job.
ScanAddAhead ==
  LET v == scan.version IN
  /\ scan.pc = "add"
  /\ jobs' = IF jobs[v].state = "none" /\ scan.start - Lead > now
             THEN [jobs EXCEPT ![v] = [state |-> "delayed",
                                       runAt |-> RunAt(scan.start), tries |-> 0]]
             ELSE jobs
  /\ scan' = [scan EXCEPT !.pc = "mark"]
  /\ UNCHANGED <<asg, accepts, workers, now, polled, sent, raced, failures>>

\* queue.add ignores a job whose id the queue still holds, a failed one included.
ScanAdd ==
  LET v == scan.version IN
  /\ scan.pc = "add"
  /\ jobs' = IF jobs[v].state = "none"
             THEN [jobs EXCEPT ![v] = [state |-> "delayed",
                                       runAt |-> RunAt(scan.start), tries |-> 0]]
             ELSE jobs
  /\ scan' = [scan EXCEPT !.pc = "mark"]
  /\ UNCHANGED <<asg, accepts, workers, now, polled, sent, raced, failures>>

\* Mutant: the mark is written to the wrong column.
Queued(row) == [row EXCEPT !.status = "QUEUED"]

MarkQueued(row) == [row EXCEPT !.reminder = "QUEUED"]

\* The update names the row by id only; it fails when the row is gone.
ScanMark ==
  /\ scan.pc = "mark"
  /\ asg' = IF asg.status = "none" THEN asg ELSE MarkQueued(asg)
  /\ scan' = NoScan
  /\ polled' = TRUE
  /\ UNCHANGED <<accepts, jobs, workers, now, sent, raced, failures>>

\* Redis or the database fails, or the process dies, in the middle of a scan.
ScanFails ==
  /\ scan.pc # "idle"
  /\ failures < MaxFailures
  /\ failures' = failures + 1
  /\ scan' = NoScan
  /\ polled' = TRUE
  /\ UNCHANGED <<asg, accepts, jobs, workers, now, sent, raced>>

-----------------------------------------------------------------------------
(* handleReminder *)

Due(v) == jobs[v].state = "delayed" /\ jobs[v].runAt <= now

\* The row calls for the reminder of version v.
Wanted(v) ==
  /\ asg.status = "scheduled" /\ asg.version = v
  /\ asg.reminder # "SENT"

\* The handler reads the row and, if the reminder is still wanted, sends it; a
\* job that is not wanted ends and is removed from the queue.
HandleReminder(w, v) ==
  /\ workers[w] = Free /\ Due(v)
  /\ IF Wanted(v)
     THEN /\ sent' = sent + 1
          /\ workers' = [workers EXCEPT ![w] = v]
          /\ jobs' = [jobs EXCEPT ![v].state = "active"]
     ELSE /\ jobs' = [jobs EXCEPT ![v] = NoJob]
          /\ UNCHANGED <<sent, workers>>
  /\ UNCHANGED <<asg, accepts, scan, now, polled, raced, failures>>

\* Mutant: a job gets one attempt.
FailedForGood(job) == [job EXCEPT !.tries = @ + 1, !.state = "failed"]

\* A job whose handler threw: run again after its backoff, a few minutes, or
\* kept as failed when its attempts are used up.
Failed(job) ==
  [job EXCEPT !.tries = @ + 1, !.runAt = now,
              !.state = IF job.tries + 1 < Attempts THEN "delayed" ELSE "failed"]

\* The update names the row by id only; when the row is gone the job fails.
MarkSent(w) ==
  LET v == workers[w] IN
  /\ v # Free
  /\ IF asg.status = "none"
     THEN jobs' = [jobs EXCEPT ![v] = Failed(jobs[v])] /\ UNCHANGED asg
     ELSE /\ asg' = [asg EXCEPT !.reminder = "SENT"]
          /\ jobs' = [jobs EXCEPT ![v] = NoJob]
  /\ workers' = [workers EXCEPT ![w] = Free]
  /\ UNCHANGED <<accepts, scan, now, polled, sent, raced, failures>>

\* The database fails when the handler reads the row: nothing is sent.
ReadFails(v) ==
  /\ Due(v)
  /\ failures < MaxFailures
  /\ failures' = failures + 1
  /\ jobs' = [jobs EXCEPT ![v] = Failed(jobs[v])]
  /\ UNCHANGED <<asg, accepts, scan, workers, now, polled, sent, raced>>

\* It fails when the handler marks the row: the reminder is out.
MarkSentFails(w) ==
  LET v == workers[w] IN
  /\ v # Free
  /\ failures < MaxFailures
  /\ failures' = failures + 1
  /\ jobs' = [jobs EXCEPT ![v] = Failed(jobs[v])]
  /\ workers' = [workers EXCEPT ![w] = Free]
  /\ UNCHANGED <<asg, accepts, scan, now, polled, sent, raced>>

-----------------------------------------------------------------------------
\* markOverdue: one statement.
MarkOverdue ==
  /\ asg.status = "scheduled" /\ asg.start # NoStart
  /\ asg.start < now - Overdue
  /\ asg.reminder # "OVERDUE"
  /\ asg' = [asg EXCEPT !.reminder = "OVERDUE"]
  /\ UNCHANGED <<accepts, jobs, scan, workers, now, polled, sent, raced, failures>>

\* A unit of time passes once the scan of the interval is over.
Tick ==
  /\ now < Horizon
  /\ polled
  /\ now' = now + 1
  /\ polled' = FALSE
  /\ UNCHANGED <<asg, accepts, jobs, scan, workers, sent, raced, failures>>

Services ==
  \/ \E t \in Times : t > now /\ Propose(t)
  \/ Confirm \/ Reject \/ Reaccept \/ Revoke \/ Complete

Scan == ScanRead \/ ScanAdd \/ ScanMark

Handle == \E w \in Workers : MarkSent(w) \/ \E v \in Versions : HandleReminder(w, v)

Next ==
  \/ Services
  \/ Scan \/ ScanFails
  \/ Handle
  \/ \E v \in Versions : ReadFails(v)
  \/ \E w \in Workers : MarkSentFails(w)
  \/ MarkOverdue
  \/ Tick

Spec == Init /\ [][Next]_vars

\* The poll timer fires, the worker takes the jobs that are due, time passes.
FairSpec == Spec /\ WF_vars(Scan) /\ WF_vars(Handle) /\ WF_vars(Tick)

-----------------------------------------------------------------------------
(* Properties *)

Statuses == {"none", "pending_schedule", "schedule_proposed", "scheduled",
             "provider_rejected", "completed"}

\* Rows, jobs and the locals of the scan and the handlers hold values of their
\* types.
TypeOK ==
  /\ asg \in [status : Statuses, version : Versions,
              start : Times \cup {NoStart},
              reminder : {"NONE", "QUEUED", "SENT", "OVERDUE"}]
  /\ accepts \in 1..MaxAccepts
  /\ jobs \in [Versions -> [state : {"none", "delayed", "active", "failed"},
                            runAt : Times, tries : 0..Attempts]]
  /\ scan \in [pc : {"idle", "add", "mark"}, version : Versions,
               start : Times \cup {NoStart}]
  /\ workers \in [Workers -> Versions \cup {Free}]
  /\ now \in Times
  /\ polled \in BOOLEAN
  /\ sent \in Nat
  /\ raced \in BOOLEAN
  /\ failures \in 0..MaxFailures

\* The schedule changed only between scans and handlers, in one acceptance,
\* and there were not failures enough to use up a job's attempts.
Undisturbed == ~raced /\ accepts = 1 /\ failures < Attempts

\* A confirmed visit marked QUEUED, which no later scan looks at again, has its
\* reminder sent or a job in the queue that will send it.
QueuedHasJob ==
  Undisturbed /\ asg.status = "scheduled" /\ asg.reminder = "QUEUED" =>
    sent > 0 \/ jobs[asg.version].state \in {"delayed", "active"}

\* Without a failure, and within the first acceptance, a confirmation is
\* reminded of at most once, whatever the handlers, the scan, the overdue
\* marking and a schedule change in between overwrite in reminderStatus.
AtMostOneReminder == failures = 0 /\ accepts = 1 => sent <= 1

\* Within the first acceptance no reminder goes out before its lead time,
\* however often the visit is moved while jobs of its old versions wait.
NeverEarly ==
  [][sent' > sent /\ accepts = 1 => now >= asg.start - Lead]_vars

\* A visit confirmed more polls ahead than there are failures is reminded of,
\* unless its schedule changes again or a change lands inside a scan.
EveryVisitReminded ==
  \A v \in Versions :
    (asg.status = "scheduled" /\ asg.version = v /\ asg.start > now + MaxFailures)
      ~> \/ sent > 0
         \/ asg.status # "scheduled" \/ asg.version # v
         \/ ~Undisturbed

-----------------------------------------------------------------------------
(* What the runbook says and the code does not do *)

\* docs/M4-Reminder-Worker-Runbook.md: REMINDER_LEAD_MINUTES is the minutes
\* before scheduledStart to send the reminder.  None goes out earlier, where
\* no schedule change lands inside a scan or a handler.
NeverBeforeLead == [][sent' > sent /\ ~raced => now >= asg.start - Lead]_vars
=============================================================================
