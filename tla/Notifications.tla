----------------------------- MODULE Notifications -----------------------------
(***************************************************************************)
(* NotificationsService.sendNotification and its callers: a notice is      *)
(* stored for a user, the user's active device tokens are read, and        *)
(* Firebase is asked to push to them; tokens Firebase no longer knows are  *)
(* deactivated in updates nobody waits for.  DeviceTokensController moves  *)
(* tokens between users meanwhile, and the assignment a notice is about    *)
(* may be given to another provider or deleted.                            *)
(*                                                                         *)
(* An event is one call of a notify* method (or of sendNotification by     *)
(* createJob and completeAssignmentAsProvider).  Firebase is configured.   *)
(***************************************************************************)
EXTENDS Integers, FiniteSets

CONSTANTS
  Customer,       \* the user who created the job
  Providers,      \* the users who are providers
  Tokens,         \* FCM registration tokens
  None,           \* no user
  MaxEvents,      \* bound on the events
  MaxFailures     \* bound on crashes and database or Firebase errors

VARIABLES
  online,         \* the providers whose row says online (no API call writes it)
  assignment,     \* the job's assignment: its id and its provider
  device,         \* DeviceToken rows
  dead,           \* tokens Firebase has invalidated
  notices,        \* Notification rows
  event,          \* the events so far: who has still to be told, and how
  sends,          \* calls of sendNotification in progress; as a history, the
                  \* tokens (owned) that were the user's since the call began
  dropping,       \* deactivations of tokens that were started and not awaited
  leaving,        \* unregister requests between their check and their update
  missed,         \* history: <<event, user>> whose notice could not be stored
  failures        \* history: crashes and errors so far

vars == <<online, assignment, device, dead, notices, event, sends, dropping,
          leaving, missed, failures>>
rows == <<online, assignment, device, dead, leaving>>

Users == {Customer} \union Providers
Events == 1..MaxEvents
NoEvent == [pc |-> "none", id |-> 0, todo |-> {}, oneByOne |-> FALSE]

Active(u) == {t \in Tokens : device[t] = [owner |-> u, active |-> TRUE]}

Init ==
  /\ online \in SUBSET Providers
  /\ assignment = [id |-> 0, provider |-> None]
  /\ device = [t \in Tokens |-> [owner |-> None, active |-> FALSE]]
  /\ dead = {} /\ notices = {} /\ sends = {} /\ dropping = {} /\ leaving = {}
  /\ event = [e \in Events |-> NoEvent]
  /\ missed = {}
  /\ failures = 0

-----------------------------------------------------------------------------
(* The rows that other requests change *)

\* acceptQuote: a new row, or the rejected row under another provider.
Assign(p) ==
  /\ assignment' = [id |-> IF assignment.provider = None THEN assignment.id + 1
                           ELSE assignment.id,
                    provider |-> p]
  /\ assignment'.id <= MaxEvents /\ assignment.provider # p
  /\ UNCHANGED <<online, device, dead, notices, event, sends, dropping, leaving,
                 missed, failures>>

\* revokeAcceptance
Unassign ==
  /\ assignment.provider # None
  /\ assignment' = [assignment EXCEPT !.provider = None]
  /\ UNCHANGED <<online, device, dead, notices, event, sends, dropping, leaving,
                 missed, failures>>

\* DeviceTokensController.register: the row of a known token gets the caller as
\* its owner.  Of two first registrations at once the second fails on the
\* unique token and changes nothing.
Register(u, t) ==
  /\ device' = [device EXCEPT ![t] = [owner |-> u, active |-> TRUE]]
  /\ sends' = {IF s.to = u THEN [s EXCEPT !.owned = @ \union {t}] ELSE s : s \in sends}
  /\ UNCHANGED <<online, assignment, dead, notices, event, dropping, leaving,
                 missed, failures>>

\* unregister (one request at a time) reads the row and checks its owner ...
UnregisterCheck(u, t) ==
  /\ device[t].owner = u /\ leaving = {}
  /\ leaving' = leaving \union {<<u, t>>}
  /\ UNCHANGED <<online, assignment, device, dead, notices, event, sends,
                 dropping, missed, failures>>

\* ... and updates it by its token, whoever owns it now.
UnregisterWrite(u, t) ==
  /\ <<u, t>> \in leaving
  /\ leaving' = leaving \ {<<u, t>>}
  /\ device' = [device EXCEPT ![t].active = FALSE]
  /\ UNCHANGED <<online, assignment, dead, notices, event, sends, dropping,
                 missed, failures>>

\* The app is removed from a device: Firebase forgets its token.
TokenDies(t) ==
  /\ t \notin dead
  /\ dead' = dead \union {t}
  /\ UNCHANGED <<online, assignment, device, notices, event, sends, dropping,
                 leaving, missed, failures>>

\* PATCH read-all passes req.user.userId, which JwtAuthGuard does not set:
\* updateMany runs without a userId and marks the notices of every user.
MarkAllAsRead(u) ==
  /\ notices' = {[n EXCEPT !.read = TRUE] : n \in notices}
  /\ UNCHANGED <<rows, event, sends, dropping, missed, failures>>

-----------------------------------------------------------------------------
(* The notify* methods *)

\* The next event: todo are the users to tell, oneByOne whether each call of
\* sendNotification is awaited before the next.
Start(e, pc, id, todo, oneByOne) ==
  /\ event[e].pc = "none" /\ \A d \in 1..(e - 1) : event[d].pc # "none"
  /\ event' = [event EXCEPT ![e] = [pc |-> pc, id |-> id, todo |-> todo,
                                    oneByOne |-> oneByOne]]
  /\ UNCHANGED <<rows, notices, sends, dropping, missed, failures>>

\* createJob tells the online providers one after the other.
JobCreated(e) == Start(e, "tell", 0, online, TRUE)

\* notifyQuoteAccepted
QuoteAccepted(e) == \E p \in Providers : Start(e, "tell", 0, {p}, FALSE)

\* notifyQuoteCreated, and the notice completeAssignmentAsProvider sends.
QuoteCreatedOrCompleted(e) == Start(e, "tell", 0, {Customer}, FALSE)

\* notifyScheduleConfirmed, notifyCheckIn and notifyCheckOut get the id of the
\* assignment and look it up.
Confirmed(e) == assignment.provider # None /\ Start(e, "parties", assignment.id, {}, FALSE)
Visited(e) == assignment.provider # None /\ Start(e, "customer", assignment.id, {}, FALSE)

\* Mutant: the row is taken to be there.
LookUpUnchecked(e) ==
  /\ event[e].pc \in {"parties", "customer"}
  /\ event' = [event EXCEPT ![e].pc = "tell", ![e].todo = {Customer, assignment.provider}]
  /\ UNCHANGED <<rows, notices, sends, dropping, missed, failures>>

\* The look-up finds the provider of this moment, or no row any more.
LookUp(e) ==
  /\ event[e].pc \in {"parties", "customer"}
  /\ LET found == assignment.provider # None /\ assignment.id = event[e].id
         told == IF event[e].pc = "parties" THEN {Customer, assignment.provider}
                 ELSE {Customer}
     IN  event' = [event EXCEPT ![e].pc = "tell",
                                ![e].todo = IF found THEN told ELSE {}]
  /\ UNCHANGED <<rows, notices, sends, dropping, missed, failures>>

\* The look-up fails: nobody is told.
LookUpFails(e) ==
  /\ event[e].pc \in {"parties", "customer"} /\ failures < MaxFailures
  /\ event' = [event EXCEPT ![e].pc = "tell"] /\ failures' = failures + 1
  /\ missed' = missed \union {<<e, u>> : u \in Users}
  /\ UNCHANGED <<rows, notices, sends, dropping>>

-----------------------------------------------------------------------------
(* sendNotification(u, ...) of event e *)

Busy(e) == \E s \in sends : s.event = e

\* The notice is stored first.
StoreNotice(e, u) ==
  /\ u \in event[e].todo
  /\ event[e].oneByOne => ~Busy(e)
  /\ notices' = notices \union {[event |-> e, to |-> u, read |-> FALSE]}
  /\ event' = [event EXCEPT ![e].todo = @ \ {u}]
  /\ sends' = sends \union {[event |-> e, to |-> u, pc |-> "tokens",
                               batch |-> {}, owned |-> Active(u)]}
  /\ UNCHANGED <<rows, dropping, missed, failures>>

\* Mutant: the loop of createJob does not catch the error of one provider.
StoreStopsLoop(e, u) ==
  /\ u \in event[e].todo /\ failures < MaxFailures
  /\ event[e].oneByOne => ~Busy(e)
  /\ event' = [event EXCEPT ![e].todo = {}]
  /\ missed' = missed \union {<<e, u>>} /\ failures' = failures + 1
  /\ UNCHANGED <<rows, notices, sends, dropping>>

\* create fails: every caller catches and logs it, and goes on.
StoreFails(e, u) ==
  /\ u \in event[e].todo /\ failures < MaxFailures
  /\ event[e].oneByOne => ~Busy(e)
  /\ event' = [event EXCEPT ![e].todo = @ \ {u}]
  /\ missed' = missed \union {<<e, u>>} /\ failures' = failures + 1
  /\ UNCHANGED <<rows, notices, sends, dropping>>

\* Mutant: the query does not ask for active tokens.
TokensEverOf(u) == {t \in Tokens : device[t].owner = u}

\* deviceToken.findMany
TokensOf(u) == Active(u)

\* Without a token the call ends here.
ReadTokens(s) ==
  /\ s.pc = "tokens"
  /\ sends' = (sends \ {s}) \union
                (IF TokensOf(s.to) = {} THEN {}
                 ELSE {[s EXCEPT !.pc = "push", !.batch = TokensOf(s.to)]})
  /\ UNCHANGED <<rows, notices, event, dropping, missed, failures>>

\* Mutant: every token of the batch that got an error is deactivated.
InvalidOrUnreachable(batch) == batch

\* The tokens whose error is invalid-registration-token or not-registered.
Invalid(batch) == batch \intersect dead

\* Firebase answers for each token; the tokens it does not know are deactivated
\* in updates that the method does not await.
Push(s) ==
  /\ s.pc = "push"
  /\ sends' = sends \ {s}
  /\ dropping' = dropping \union Invalid(s.batch)
  /\ UNCHANGED <<rows, notices, event, missed, failures>>

\* An error of the look-up is the caller's to catch, one of Firebase is caught
\* here: either way the notice stays stored and nothing is pushed.
SendFails(s) ==
  /\ failures < MaxFailures
  /\ sends' = sends \ {s} /\ failures' = failures + 1
  /\ UNCHANGED <<rows, notices, event, dropping, missed>>

Deactivate(t) ==
  /\ t \in dropping
  /\ dropping' = dropping \ {t}
  /\ device' = [device EXCEPT ![t].active = FALSE]
  /\ UNCHANGED <<online, assignment, dead, notices, event, sends, leaving,
                 missed, failures>>

DeactivateFails(t) ==
  /\ t \in dropping /\ failures < MaxFailures
  /\ dropping' = dropping \ {t} /\ failures' = failures + 1
  /\ UNCHANGED <<rows, notices, event, sends, missed>>

\* The process dies: what it was doing is gone, the rows stay.
Crash ==
  /\ failures < MaxFailures /\ failures' = failures + 1
  /\ sends' = {} /\ dropping' = {} /\ leaving' = {}
  /\ event' = [e \in Events |-> [event[e] EXCEPT
                 !.pc = IF @ = "none" THEN @ ELSE "tell", !.todo = {}]]
  /\ missed' = missed \union ({e \in Events : event[e].pc # "none"} \X Users)
  /\ UNCHANGED <<online, assignment, device, dead, notices>>

-----------------------------------------------------------------------------
Rows ==
  \/ \E p \in Providers : Assign(p)
  \/ Unassign
  \/ \E t \in Tokens : TokenDies(t)
  \/ \E u \in Users : MarkAllAsRead(u)
  \/ \E u \in Users, t \in Tokens :
       Register(u, t) \/ UnregisterCheck(u, t) \/ UnregisterWrite(u, t)

Notify(e) ==
  JobCreated(e) \/ QuoteAccepted(e) \/ QuoteCreatedOrCompleted(e)
    \/ Confirmed(e) \/ Visited(e)

Tell(e) == LookUp(e) \/ \E u \in Users : StoreNotice(e, u)

Fault ==
  \/ Crash
  \/ \E e \in Events : LookUpFails(e) \/ \E u \in Users : StoreFails(e, u)
  \/ \E s \in sends : SendFails(s)
  \/ \E t \in Tokens : DeactivateFails(t)

Next ==
  \/ Rows
  \/ \E e \in Events : Notify(e) \/ Tell(e)
  \/ \E s \in sends : ReadTokens(s) \/ Push(s)
  \/ \E t \in Tokens : Deactivate(t)
  \/ Fault

\* A handler that runs is scheduled again until it ends; nobody has to create
\* an event or to change a row.
Fairness ==
  /\ \A e \in Events : WF_vars(Tell(e))
  /\ WF_vars(\E s \in sends : ReadTokens(s) \/ Push(s))

Spec == Init /\ [][Next]_vars /\ Fairness

-----------------------------------------------------------------------------
(* Rows and histories have their types. *)
TypeOK ==
  /\ online \subseteq Providers
  /\ assignment \in [id : 0..MaxEvents, provider : Providers \union {None}]
  /\ device \in [Tokens -> [owner : Users \union {None}, active : BOOLEAN]]
  /\ dead \subseteq Tokens /\ dropping \subseteq Tokens
  /\ notices \subseteq [event : Events, to : Users, read : BOOLEAN]
  /\ event \in [Events -> [pc : {"none", "parties", "customer", "tell"},
                           id : 0..MaxEvents, todo : SUBSET Users, oneByOne : BOOLEAN]]
  /\ sends \subseteq [event : Events, to : Users, pc : {"tokens", "push"},
                      batch : SUBSET Tokens, owned : SUBSET Tokens]
  /\ leaving \subseteq Users \X Tokens
  /\ missed \subseteq Events \X Users
  /\ failures \in 0..MaxFailures

(* The tokens a call pushes to were the user's, and active, at some time since *)
(* its notice was stored: a device that was handed to another user,            *)
(* unregistered or deactivated before gets nothing.  A handover during the     *)
(* push is the race this leaves open.                                          *)
PushedToOwner == \A s \in sends : s.batch \subseteq s.owned

(* A token that Firebase still delivers to is deactivated only by an           *)
(* unregister request of a user who owned it, never by the answers to a push,  *)
(* however late their updates land.                                            *)
NoLiveTokenDropped ==
  [][\A t \in Tokens :
       device[t].active /\ ~device'[t].active
         => t \in dead \/ \E u \in Users : <<u, t>> \in leaving]_vars

(* createJob's loop and notifyScheduleConfirmed's two sends are independent:   *)
(* everyone who is to be told gets the notice, except those whose own notice   *)
(* could not be stored, whatever happens to the others.                        *)
EveryPartyTold ==
  \A e \in Events, u \in Users :
    u \in event[e].todo
      ~> (<<e, u>> \in missed \/ \E n \in notices : n.event = e /\ n.to = u)

(* "Mark all notifications as read for the authenticated user"                 *)
(* (notifications.controller.ts:60): the notices of others stay as they are.   *)
MarksOnlyOwn ==
  [][\A u \in Users : MarkAllAsRead(u) => \A n \in notices : n.to # u => n \in notices']_vars

=============================================================================
