------------------------------- MODULE SiteVisit -------------------------------
(***************************************************************************)
(* The GPS part of AssignmentsService for one assignment row: check-in,    *)
(* check-out and location updates of the provider, each a look-up, checks  *)
(* and an insert, while the assignment is scheduled, rejected and accepted *)
(* again (on the same row) or deleted.  A location carries the timestamp   *)
(* of a phone that may have been offline: it is now or earlier.  Those of  *)
(* checkpoints order only what is displayed, and are left out.             *)
(***************************************************************************)
EXTENDS Integers, FiniteSets, FiniteSetsExt

CONSTANTS
  Providers,      \* the users who may get the assignment
  Requests,       \* requests of providers in progress at once
  Interval,       \* the 30 seconds between location updates, in ticks
  Fresh,          \* the hour a location is shown for, in ticks
  Horizon,        \* bound on time
  MaxTurns        \* bound on the acceptances of the row

VARIABLES
  row,            \* Assignment: status and provider, and as a history which
                  \* acceptance this is
  checkpoints,    \* AssignmentCheckpoint rows
  locations,      \* LocationUpdate rows
  request,        \* the requests in progress
  clock

svars == <<row, checkpoints, locations, request, clock>>

Free == [pc |-> "free", kind |-> "none", by |-> CHOOSE p \in Providers : TRUE,
         time |-> 0, raced |-> FALSE]

Init ==
  /\ \E p \in Providers : row = [status |-> "pending_schedule", provider |-> p, turn |-> 1]
  /\ checkpoints = {} /\ locations = {}
  /\ request = [r \in Requests |-> Free]
  /\ clock = 0

-----------------------------------------------------------------------------
(* What other requests do to the row *)

SetRow(new) == row' = new /\ UNCHANGED <<checkpoints, locations, request, clock>>

Schedule ==
  row.status = "pending_schedule" /\ SetRow([row EXCEPT !.status = "scheduled"])

Reject ==
  /\ row.status \in {"pending_schedule", "scheduled"}
  /\ SetRow([row EXCEPT !.status = "provider_rejected"])

\* acceptQuote gives the rejected row to the provider of another quote; its
\* checkpoints and locations stay.
Reaccept(p) ==
  /\ row.status = "provider_rejected" /\ row.turn < MaxTurns
  /\ SetRow([status |-> "pending_schedule", provider |-> p, turn |-> row.turn + 1])

\* completeAssignmentAsProvider, proposals: the row is not scheduled any more.
Unschedule == row.status = "scheduled" /\ SetRow([row EXCEPT !.status = "completed"])

\* revokeAcceptance deletes the row, and with it what refers to it.
Revoke ==
  /\ row.status \notin {"none", "provider_rejected"}
  /\ row' = [row EXCEPT !.status = "none"]
  /\ checkpoints' = {} /\ locations' = {}
  /\ UNCHANGED <<request, clock>>

Tick == clock < Horizon /\ clock' = clock + 1 /\ UNCHANGED <<row, checkpoints, locations, request>>

-----------------------------------------------------------------------------
(* checkIn, checkOut and updateLocation *)

Begin(r, p, kind, pc, t) ==
  /\ request[r].pc = "free"
  /\ row.status # "none" /\ row.provider = p
  /\ request' = [request EXCEPT ![r] = [pc |-> pc, kind |-> kind, by |-> p,
                                        time |-> t, raced |-> FALSE]]
  /\ UNCHANGED <<row, checkpoints, locations, clock>>

CheckInRead(r, p) == row.status = "scheduled" /\ Begin(r, p, "CHECK_IN", "insert", 0)

\* A check-in of the row is looked for, whoever made it.
CheckOutRead(r, p) ==
  /\ \E c \in checkpoints : c.type = "CHECK_IN"
  /\ Begin(r, p, "CHECK_OUT", "insert", 0)

LocationRead(r, p) ==
  /\ row.status = "scheduled"
  /\ \E t \in 0..clock : Begin(r, p, "LOCATION", "recent", t)

\* createdAt is at most the interval ago.
Recent == {l \in locations : l.created >= clock - Interval}

\* The rate limit: look for a recent update ...
LocationCheck(r) ==
  /\ request[r].pc = "recent"
  /\ request' = [request EXCEPT ![r] = IF Recent = {} THEN [@ EXCEPT !.pc = "insert"] ELSE Free]
  /\ UNCHANGED <<row, checkpoints, locations, clock>>

\* ... and insert one.  The others that have looked already are overtaken.
LocationInsert(r) ==
  /\ request[r].pc = "insert" /\ request[r].kind = "LOCATION" /\ row.status # "none"
  /\ locations' = locations \union {[created |-> clock, time |-> request[r].time]}
  /\ request' = [q \in Requests |->
       IF q = r THEN Free
       ELSE [request[q] EXCEPT !.raced = @ \/ request[q].pc = "insert"]]
  /\ UNCHANGED <<row, checkpoints, clock>>

CheckpointInsert(r) ==
  /\ request[r].pc = "insert" /\ request[r].kind # "LOCATION" /\ row.status # "none"
  /\ checkpoints' = checkpoints \union
       {[type |-> request[r].kind, by |-> request[r].by]}
  /\ request' = [request EXCEPT ![r] = Free]
  /\ UNCHANGED <<row, locations, clock>>

\* The request fails: the row is gone and the insert refers to nothing, or the
\* process dies.
RequestFails(r) ==
  /\ request[r].pc # "free"
  /\ request' = [request EXCEPT ![r] = Free]
  /\ UNCHANGED <<row, checkpoints, locations, clock>>

\* Mutant: the latest row is the one inserted last.
ShownByInsertion(ls) ==
  LET fresh == {l \in ls : l.time >= clock - Fresh}
  IN  {l \in fresh : \A k \in fresh : k.created <= l.created}

\* getLatestLocation: the latest timestamp of the last hour.
Shown(ls) ==
  LET fresh == {l \in ls : l.time >= clock - Fresh}
  IN  {l \in fresh : \A k \in fresh : k.time <= l.time}

-----------------------------------------------------------------------------
Step(r) ==
  \/ \E p \in Providers : CheckInRead(r, p) \/ CheckOutRead(r, p) \/ LocationRead(r, p)
  \/ LocationCheck(r) \/ LocationInsert(r) \/ CheckpointInsert(r) \/ RequestFails(r)

Next ==
  \/ Schedule \/ Reject \/ Unschedule \/ Revoke \/ Tick
  \/ \E p \in Providers : Reaccept(p)
  \/ \E r \in Requests : Step(r)

Spec == Init /\ [][Next]_svars

-----------------------------------------------------------------------------
(* Rows and requests have their types. *)
TypeOK ==
  /\ row \in [status : {"none", "pending_schedule", "scheduled", "provider_rejected", "completed"},
              provider : Providers, turn : 1..MaxTurns]
  /\ checkpoints \subseteq [type : {"CHECK_IN", "CHECK_OUT"}, by : Providers]
  /\ locations \subseteq [created : 0..Horizon, time : 0..Horizon]
  /\ request \in [Requests -> [pc : {"free", "recent", "insert"},
                               kind : {"none", "CHECK_IN", "CHECK_OUT", "LOCATION"},
                               by : Providers, time : 0..Horizon, raced : BOOLEAN]]
  /\ clock \in 0..Horizon

(* "Location updates are rate limited to once per 30 seconds"                  *)
(* (assignments.service.ts:458): two updates closer than that were requested   *)
(* at once, the later one having looked before the earlier one was inserted.   *)
LocationsSpaced ==
  [][\A l \in locations' \ locations, k \in locations :
       l.created - k.created <= Interval
         => \E r \in Requests : request[r].pc = "insert" /\ request[r].raced]_svars

(* What the customer sees of the provider's way never goes back in time, in    *)
(* whatever order the phone's updates arrive; it may disappear, when an hour   *)
(* old.                                                                        *)
LocationNeverGoesBack ==
  [][\A l \in Shown(locations), k \in Shown(locations)' : k.time >= l.time]_svars

(* "Ensure provider has checked in" (assignments.service.ts:363): whoever      *)
(* checks out has checked in on this assignment before.                        *)
CheckOutFollowsOwnCheckIn ==
  \A out \in checkpoints : out.type = "CHECK_OUT" =>
    \E in \in checkpoints : in.type = "CHECK_IN" /\ in.by = out.by

=============================================================================
