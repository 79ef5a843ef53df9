------------------------------- MODULE Presence -------------------------------
(***************************************************************************)
(* RealtimeGateway and RealtimeService for one user with several sockets:  *)
(* connections and disconnections are handled by asynchronous methods that *)
(* interleave at each await; the online set and the expiring alive key     *)
(* live in Redis, or in the process when REDIS_URL is not set; reconcile   *)
(* runs periodically (and when an admin asks for it).                      *)
(*                                                                         *)
(* A command of Redis may fail. addOnline, removeOnline and touchAlive     *)
(* catch that and write the process's own set and map instead, which       *)
(* listOnline does not read as long as Redis answers it: to the list the   *)
(* command is lost. online and alive are what listOnline and reconcile     *)
(* read: Redis, or the process when there is no Redis.                     *)
(*                                                                         *)
(* A tick is half of PRESENCE_TTL, the period of the ping timers: every    *)
(* running timer touches the alive key once in each tick. That is so for   *)
(* a PRESENCE_TTL of 20 s or more: below it the timer keeps to 10 s, and   *)
(* the key may end between two pings.                                      *)
(***************************************************************************)
EXTENDS Integers, FiniteSets

CONSTANTS
  Sockets,        \* the user's sockets, over time
  Reconcilers,    \* API processes and admin requests that reconcile
  Pings,          \* the ticks an alive key lasts: PRESENCE_TTL in ticks, 2
  MaxFailures     \* bound on failures of Redis and of processes

VARIABLES
  redis,          \* is REDIS_URL set?
  connected,      \* is the socket's connection there?
  opening,        \* the statement handleConnection of the socket is at
  closing,        \* the statement handleDisconnect of the socket is at
  timer,          \* does the socket's ping timer run?
  online,         \* is the user in the online set?
  alive,          \* ticks the alive key lasts
  reconciling,    \* the statement of each reconcile
  undisturbed,    \* history: since the socket added the user, no other socket was
                  \* closed and no reconcile looked before the key was touched
  unanswered,     \* history: a command failed that the socket's listing rests on
  failures

pvars == <<redis, connected, opening, closing, timer, online, alive, reconciling,
           undisturbed, unanswered, failures>>

Open(s) == connected[s] /\ opening[s] = "open"
UserGone == \A s \in Sockets : ~connected[s] /\ opening[s] = "idle" /\ closing[s] = "idle"

Init ==
  /\ redis \in BOOLEAN
  /\ connected = [s \in Sockets |-> FALSE]
  /\ opening = [s \in Sockets |-> "idle"] /\ closing = [s \in Sockets |-> "idle"]
  /\ timer = [s \in Sockets |-> FALSE]
  /\ online = FALSE /\ alive = 0
  /\ reconciling = [r \in Reconcilers |-> "idle"]
  /\ undisturbed = [s \in Sockets |-> FALSE] /\ unanswered = [s \in Sockets |-> FALSE]
  /\ failures = 0

-----------------------------------------------------------------------------
(* handleConnection *)

\* Accepted and authenticated: client.data.userId is set.
Connect(s) ==
  /\ ~connected[s] /\ opening[s] = "idle" /\ closing[s] = "idle" /\ ~timer[s]
  /\ connected' = [connected EXCEPT ![s] = TRUE]
  /\ opening' = [opening EXCEPT ![s] = "add"]
  /\ unanswered' = [unanswered EXCEPT ![s] = FALSE]
  /\ UNCHANGED <<redis, closing, timer, online, alive, reconciling, undisturbed, failures>>

\* What the history begins with: nobody is about to remove the user.
Settled ==
  /\ \A r \in Reconcilers : reconciling[r] # "remove"
  /\ \A t \in Sockets : closing[t] = "idle"

\* One more command of Redis fails, or a process.
Fails == redis /\ failures < MaxFailures /\ failures' = failures + 1

AddOnline(s) ==
  /\ opening[s] = "add"
  /\ opening' = [opening EXCEPT ![s] = "touch"]
  /\ undisturbed' = [undisturbed EXCEPT ![s] = Settled]
  /\ online' = TRUE
  /\ UNCHANGED <<redis, connected, closing, timer, alive, reconciling, unanswered, failures>>

\* sadd fails: the user is in the process's set only, and the connection goes on.
AddOnlineFails(s) ==
  /\ opening[s] = "add" /\ Fails
  /\ opening' = [opening EXCEPT ![s] = "touch"]
  /\ undisturbed' = [undisturbed EXCEPT ![s] = Settled]
  /\ unanswered' = [unanswered EXCEPT ![s] = TRUE]
  /\ UNCHANGED <<redis, connected, closing, timer, online, alive, reconciling>>

\* Mutant: the connection relies on its timer, and does not touch the key.
KeyAfterConnect == alive

KeyAfterTouch == Pings

TouchAlive(s) ==
  /\ opening[s] = "touch"
  /\ opening' = [opening EXCEPT ![s] = "timer"]
  /\ alive' = KeyAfterTouch
  /\ UNCHANGED <<redis, connected, closing, timer, online, reconciling, undisturbed,
                 unanswered, failures>>

\* setex fails: the key is as it was.
TouchAliveFails(s) ==
  /\ opening[s] = "touch" /\ Fails
  /\ opening' = [opening EXCEPT ![s] = "timer"]
  /\ unanswered' = [unanswered EXCEPT ![s] = TRUE]
  /\ UNCHANGED <<redis, connected, closing, timer, online, alive, reconciling, undisturbed>>

\* setInterval, and joining the user's room, which a socket that has been
\* closed meanwhile no longer does; its timer starts all the same.
StartTimer(s) ==
  /\ opening[s] = "timer"
  /\ timer' = [timer EXCEPT ![s] = TRUE]
  /\ opening' = [opening EXCEPT ![s] = IF connected[s] THEN "open" ELSE "idle"]
  /\ UNCHANGED <<redis, connected, closing, online, alive, reconciling, undisturbed,
                 unanswered, failures>>

\* presence:ping of the web client.
ClientPing(s) ==
  /\ Open(s) /\ alive' = Pings
  /\ UNCHANGED <<redis, connected, opening, closing, timer, online, reconciling, undisturbed,
                 unanswered, failures>>

-----------------------------------------------------------------------------
(* handleDisconnect *)

Disconnect(s) ==
  /\ connected[s]
  /\ connected' = [connected EXCEPT ![s] = FALSE]
  /\ opening' = [opening EXCEPT ![s] = IF @ = "open" THEN "idle" ELSE @]
  /\ closing' = [closing EXCEPT ![s] = "count"]
  /\ undisturbed' = [t \in Sockets |-> FALSE]
  /\ UNCHANGED <<redis, timer, online, alive, reconciling, unanswered, failures>>

\* fetchSockets: the closed socket has left the room, so that these are others.
Others(s) == {t \in Sockets \ {s} : Open(t)}

CountSockets(s) ==
  /\ closing[s] = "count"
  /\ closing' = [closing EXCEPT ![s] = IF Cardinality(Others(s)) <= 1 THEN "remove" ELSE "clear"]
  /\ UNCHANGED <<redis, connected, opening, timer, online, alive, reconciling, undisturbed,
                 unanswered, failures>>

RemoveOnline(s) ==
  /\ closing[s] = "remove"
  /\ online' = FALSE /\ alive' = IF redis THEN alive ELSE 0
  /\ closing' = [closing EXCEPT ![s] = "clear"]
  /\ UNCHANGED <<redis, connected, opening, timer, reconciling, undisturbed,
                 unanswered, failures>>

\* srem fails: the user stays in the set.
RemoveOnlineFails(s) ==
  /\ closing[s] = "remove" /\ Fails
  /\ closing' = [closing EXCEPT ![s] = "clear"]
  /\ UNCHANGED <<redis, connected, opening, timer, online, alive, reconciling, undisturbed,
                 unanswered>>

ClearTimer(s) ==
  /\ closing[s] = "clear"
  /\ timer' = [timer EXCEPT ![s] = FALSE]
  /\ closing' = [closing EXCEPT ![s] = "idle"]
  /\ UNCHANGED <<redis, connected, opening, online, alive, reconciling, undisturbed,
                 unanswered, failures>>

\* fetchSockets fails (another process does not answer): handleDisconnect ends
\* there, its timer goes on.
DisconnectFails(s) ==
  /\ closing[s] = "count" /\ Fails
  /\ closing' = [closing EXCEPT ![s] = "idle"]
  /\ UNCHANGED <<redis, connected, opening, timer, online, alive, reconciling, undisturbed,
                 unanswered>>

\* The process of a socket dies: nothing is handled, its timer is gone.
ProcessDies(s) ==
  /\ (connected[s] \/ timer[s] \/ closing[s] # "idle") /\ Fails
  /\ connected' = [connected EXCEPT ![s] = FALSE]
  /\ opening' = [opening EXCEPT ![s] = "idle"] /\ closing' = [closing EXCEPT ![s] = "idle"]
  /\ timer' = [timer EXCEPT ![s] = FALSE]
  /\ UNCHANGED <<redis, online, alive, reconciling, undisturbed, unanswered>>

-----------------------------------------------------------------------------
\* A connection starts its timer within a tick of its first touch.
HandlersArePrompt == \A s \in Sockets : opening[s] # "timer"

TimerRuns == \E s \in Sockets : timer[s]

\* Half a PRESENCE_TTL passes, and with it a ping of every running timer.
Tick ==
  /\ HandlersArePrompt
  /\ alive > 0 \/ TimerRuns
  /\ alive' = IF TimerRuns THEN Pings ELSE alive - 1
  /\ UNCHANGED <<redis, connected, opening, closing, timer, online, reconciling, undisturbed,
                 unanswered, failures>>

\* The setex of every ping of a tick fails. The key may then have ended before
\* the next ping.
PingsFail ==
  /\ HandlersArePrompt /\ TimerRuns /\ alive > 0 /\ Fails
  /\ alive' \in {alive - 1, 0}
  /\ unanswered' = [s \in Sockets |-> TRUE]
  /\ UNCHANGED <<redis, connected, opening, closing, timer, online, reconciling, undisturbed>>

\* Mutant: what has an alive key is what is removed.
HasKey == alive > 0

Expired == alive = 0

\* A look that finds no key disturbs a socket that has yet to touch it.
Caught == [s \in Sockets |-> undisturbed[s] /\ opening[s] # "touch"]

\* reconcile on Redis looks up the members and their keys ...
ReconcileLook(r) ==
  /\ redis /\ reconciling[r] = "idle" /\ online /\ Expired
  /\ reconciling' = [reconciling EXCEPT ![r] = "remove"]
  /\ undisturbed' = Caught
  /\ UNCHANGED <<redis, connected, opening, closing, timer, online, alive, unanswered, failures>>

\* ... (an exists that fails within the pipeline reads as no key) ...
ReconcileLookFails(r) ==
  /\ reconciling[r] = "idle" /\ online /\ Fails
  /\ reconciling' = [reconciling EXCEPT ![r] = "remove"]
  /\ unanswered' = [s \in Sockets |-> TRUE]
  /\ UNCHANGED <<redis, connected, opening, closing, timer, online, alive, undisturbed>>

\* ... and removes those without a key in later commands.
ReconcileRemove(r) ==
  /\ reconciling[r] = "remove"
  /\ online' = FALSE
  /\ reconciling' = [reconciling EXCEPT ![r] = "idle"]
  /\ UNCHANGED <<redis, connected, opening, closing, timer, alive, undisturbed, unanswered,
                 failures>>

\* srem fails, and ends the reconcile.
ReconcileRemoveFails(r) ==
  /\ reconciling[r] = "remove" /\ Fails
  /\ reconciling' = [reconciling EXCEPT ![r] = "idle"]
  /\ UNCHANGED <<redis, connected, opening, closing, timer, online, alive, undisturbed,
                 unanswered>>

\* In the process it is one loop without an await.
ReconcileInMemory ==
  /\ ~redis /\ Expired /\ online
  /\ online' = FALSE
  /\ undisturbed' = Caught
  /\ UNCHANGED <<redis, connected, opening, closing, timer, alive, reconciling, unanswered,
                 failures>>

Reconcile ==
  \/ ReconcileInMemory
  \/ \E r \in Reconcilers : \/ ReconcileLook(r) \/ ReconcileLookFails(r)
                            \/ ReconcileRemove(r) \/ ReconcileRemoveFails(r)

-----------------------------------------------------------------------------
Handle(s) ==
  AddOnline(s) \/ TouchAlive(s) \/ StartTimer(s) \/ CountSockets(s) \/ RemoveOnline(s)
    \/ ClearTimer(s)

RedisFails(s) == AddOnlineFails(s) \/ TouchAliveFails(s) \/ RemoveOnlineFails(s)

Next ==
  \/ \E s \in Sockets : Connect(s) \/ Disconnect(s) \/ ClientPing(s) \/ Handle(s)
                          \/ RedisFails(s) \/ DisconnectFails(s) \/ ProcessDies(s)
  \/ Tick \/ PingsFail \/ Reconcile

\* Handlers go on, time passes, and the reconcile interval fires.
Fairness ==
  /\ \A s \in Sockets : WF_pvars(Handle(s))
  /\ WF_pvars(Tick)
  /\ WF_pvars(ReconcileInMemory)
  /\ \A r \in Reconcilers : WF_pvars(ReconcileLook(r) \/ ReconcileRemove(r))

Spec == Init /\ [][Next]_pvars /\ Fairness

-----------------------------------------------------------------------------
(* Sockets, handlers and keys have their types. *)
TypeOK ==
  /\ redis \in BOOLEAN /\ online \in BOOLEAN
  /\ connected \in [Sockets -> BOOLEAN] /\ timer \in [Sockets -> BOOLEAN]
  /\ opening \in [Sockets -> {"idle", "add", "touch", "timer", "open"}]
  /\ closing \in [Sockets -> {"idle", "count", "remove", "clear"}]
  /\ alive \in 0..Pings
  /\ reconciling \in [Reconcilers -> {"idle", "remove"}]
  /\ undisturbed \in [Sockets -> BOOLEAN] /\ unanswered \in [Sockets -> BOOLEAN]
  /\ failures \in 0..MaxFailures

(* A user with an open socket is in the online set, unless a named thing came  *)
(* between: another socket of the user was closed, a reconcile looked between  *)
(* the sadd and the setex of the connection (undisturbed), or a command of     *)
(* Redis failed: the connection's own sadd or setex, a ping's setex or the     *)
(* exists of a reconcile (unanswered).  A failed srem, a process that died and *)
(* a failed count do not excuse it: the touch bridges the time until the timer *)
(* runs, the timer keeps the key, and reconcile spares who has one.            *)
OpenIsOnline == \A s \in Sockets : Open(s) /\ undisturbed[s] /\ ~unanswered[s] => online

(* "Cleanup cron prunes stale presence entries" (docs/PLAYBOOK.md:136): a user *)
(* who is gone, whose process may have died without a word or whose removal    *)
(* Redis refused, is not online for ever, unless a ping timer was left         *)
(* running.                                                                    *)
StalePruned ==
  (UserGone /\ \A s \in Sockets : ~timer[s])
    ~> (~online \/ ~UserGone)

(* "Remove only if no other sockets for this user remain"                      *)
(* (realtime.gateway.ts:294): what a disconnection removes is a user without   *)
(* an open socket.                                                             *)
RemovesOnlyLast ==
  [][\A s \in Sockets : CountSockets(s) /\ closing'[s] = "remove"
       => \A t \in Sockets : ~Open(t)]_pvars

(* The same for a user whose connection ended while it was being set up: with  *)
(* nobody left the user does not stay online for ever.                         *)
GhostPruned == UserGone ~> (~online \/ ~UserGone)

=============================================================================
