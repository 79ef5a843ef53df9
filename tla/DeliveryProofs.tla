---------------------------- MODULE DeliveryProofs ----------------------------
(***************************************************************************)
(* Theorems about Delivery: its safety properties, for any number of       *)
(* users, device tokens, sockets, reconciles, accounts, transfers, charges,*)
(* requests and handlers, and any bounds on failures and events.  Each     *)
(* part's invariant is shown for the part's own next-state relation, and   *)
(* PartSteps carries it over to the steps of Delivery.                     *)
(***************************************************************************)
EXTENDS Delivery, FiniteSetTheorems, TLAPS

\* Whatever part moves, a step of Delivery is a step or a stutter of each part.
LEMMA PartSteps ==
  [Next]_vars => /\ [Notice!Next]_(Notice!vars) /\ [Socket!Next]_(Socket!pvars)
                 /\ [Account!Next]_(Account!avars) /\ [Charging!Next]_(Charging!vars)
                 /\ [Quotes!Next]_(Quotes!qvars)
<1>1. [Next]_vars => [Notice!Next]_(Notice!vars)
  BY DEF Next, vars, NoticeVars, Notice!vars
<1>2. [Next]_vars => [Socket!Next]_(Socket!pvars)
  BY DEF Next, vars, SocketVars, Socket!pvars
<1>3. [Next]_vars => [Account!Next]_(Account!avars)
  BY DEF Next, vars, AccountVars, Account!avars
<1>4. [Next]_vars => [Quotes!Next]_(Quotes!qvars)
  BY DEF Next, vars, PageVars, Quotes!qvars
<1>5. [Next]_vars => [Charging!Next]_(Charging!vars)
  BY DEF Next, vars, ChargeVars, Charging!vars, Charging!stripeVars
<1> QED BY <1>1, <1>2, <1>3, <1>4, <1>5

LEMMA PartInits ==
  Init => Notice!Init /\ Socket!Init /\ Account!Init /\ Charging!Init /\ Quotes!Init
BY DEF Init

-----------------------------------------------------------------------------
(* Notices: types *)

Send == [event : Notice!Events, to : Notice!Users, pc : {"tokens", "push"},
         batch : SUBSET Tokens, owned : SUBSET Tokens]
Event == [pc : {"none", "parties", "customer", "tell"}, id : 0..MaxEvents,
          todo : SUBSET Notice!Users, oneByOne : BOOLEAN]

LEMMA SendOwns == ASSUME NEW s \in Send, NEW t \in Tokens
                  PROVE  [s EXCEPT !.owned = @ \union {t}] \in Send
BY DEF Send

LEMMA EventTells == ASSUME NEW e \in Event, NEW todo \in SUBSET Notice!Users
                    PROVE  [e EXCEPT !.pc = "tell", !.todo = todo] \in Event
BY DEF Event

LEMMA NoticeTypesInit == Notice!Init => Notice!TypeOK
BY NoticeAssumption
DEF Notice!Init, Notice!TypeOK, Notice!Events, Notice!NoEvent, Notice!Users

LEMMA NoticeTypesNext == Notice!TypeOK /\ [Notice!Next]_(Notice!vars) => Notice!TypeOK'
<1> SUFFICES ASSUME Notice!TypeOK, [Notice!Next]_(Notice!vars) PROVE Notice!TypeOK'
  OBVIOUS
<1> USE NoticeAssumption DEF Notice!TypeOK
<1>1. ASSUME NEW p \in Providers, Notice!Assign(p) PROVE Notice!TypeOK'
  BY <1>1 DEF Notice!Assign
<1>2. CASE Notice!Unassign
  BY <1>2 DEF Notice!Unassign
<1>3. ASSUME NEW t \in Tokens, Notice!TokenDies(t) PROVE Notice!TypeOK'
  BY <1>3 DEF Notice!TokenDies
<1>4. ASSUME NEW u \in Notice!Users, Notice!MarkAllAsRead(u) PROVE Notice!TypeOK'
  <2>1. \A n \in notices : [n EXCEPT !.read = TRUE]
                               \in [event : Notice!Events, to : Notice!Users, read : BOOLEAN]
    OBVIOUS
  <2>2. notices' \subseteq [event : Notice!Events, to : Notice!Users, read : BOOLEAN]
    BY <1>4, <2>1 DEF Notice!MarkAllAsRead
  <2> QED BY <1>4, <2>2 DEF Notice!MarkAllAsRead, Notice!rows
<1>5. ASSUME NEW u \in Notice!Users, NEW t \in Tokens, Notice!Register(u, t)
      PROVE  Notice!TypeOK'
  <2>1. sends' \subseteq Send
    <3>1. sends' = {IF s.to = u THEN [s EXCEPT !.owned = @ \union {t}] ELSE s : s \in sends}
      BY <1>5 DEF Notice!Register
    <3>2. \A r \in sends' : \E s \in sends : r = s \/ r = [s EXCEPT !.owned = @ \union {t}]
      BY <3>1
    <3>3. sends \subseteq Send
      BY DEF Send
    <3> QED BY ONLY <3>2, <3>3, SendOwns, t \in Tokens
  <2>2. device' \in [Tokens -> [owner : Notice!Users \union {None}, active : BOOLEAN]]
    BY <1>5 DEF Notice!Register
  <2> QED BY <1>5, <2>1, <2>2 DEF Notice!Register, Send
<1>6. ASSUME NEW u \in Notice!Users, NEW t \in Tokens,
             Notice!UnregisterCheck(u, t) \/ Notice!UnregisterWrite(u, t)
      PROVE  Notice!TypeOK'
  <2>1. CASE Notice!UnregisterCheck(u, t)
    BY <2>1 DEF Notice!UnregisterCheck
  <2>2. CASE Notice!UnregisterWrite(u, t)
    BY <2>2 DEF Notice!UnregisterWrite
  <2> QED BY <1>6, <2>1, <2>2
<1>7. ASSUME NEW e \in Notice!Events, Notice!Notify(e) PROVE Notice!TypeOK'
  <2>1. ASSUME NEW pc \in {"parties", "customer", "tell"}, NEW id \in 0..MaxEvents,
               NEW todo \in SUBSET Notice!Users, NEW oneByOne \in BOOLEAN,
               Notice!Start(e, pc, id, todo, oneByOne)
        PROVE  Notice!TypeOK'
    BY <2>1 DEF Notice!Start, Notice!rows
  <2>0. 0 \in 0..MaxEvents
    OBVIOUS
  <2>2. CASE Notice!JobCreated(e)
    <3>1. onlineProviders \in SUBSET Notice!Users
      BY DEF Notice!Users
    <3> QED BY <2>0, <2>1, <2>2, <3>1 DEF Notice!JobCreated
  <2>3. CASE Notice!QuoteAccepted(e)
    <3>1. PICK p \in Providers : Notice!Start(e, "tell", 0, {p}, FALSE)
      BY <2>3 DEF Notice!QuoteAccepted
    <3>2. {p} \in SUBSET Notice!Users
      BY DEF Notice!Users
    <3> QED BY <2>0, <2>1, <3>1, <3>2
  <2>4. CASE Notice!QuoteCreatedOrCompleted(e)
    <3>1. {Customer} \in SUBSET Notice!Users
      BY DEF Notice!Users
    <3> QED BY <2>0, <2>1, <2>4, <3>1 DEF Notice!QuoteCreatedOrCompleted
  <2>5. CASE Notice!Confirmed(e)
    BY <2>1, <2>5 DEF Notice!Confirmed
  <2>6. CASE Notice!Visited(e)
    BY <2>1, <2>6 DEF Notice!Visited
  <2> QED BY <1>7, <2>2, <2>3, <2>4, <2>5, <2>6 DEF Notice!Notify
<1>8. ASSUME NEW e \in Notice!Events, Notice!LookUp(e) PROVE Notice!TypeOK'
  <2>1. PICK todo \in SUBSET Notice!Users :
          event' = [event EXCEPT ![e] = [@ EXCEPT !.pc = "tell", !.todo = todo]]
    <3>1. CASE assignment.provider # None /\ assignment.id = event[e].id
      <4>1. {Customer, assignment.provider} \subseteq Notice!Users
        BY <3>1 DEF Notice!Users
      <4> QED BY <1>8, <3>1, <4>1 DEF Notice!LookUp, Notice!Users
    <3>2. CASE ~(assignment.provider # None /\ assignment.id = event[e].id)
      BY <1>8, <3>2 DEF Notice!LookUp
    <3> QED BY <3>1, <3>2
  <2>2. event' \in [Notice!Events -> Event]
    <3>1. event \in [Notice!Events -> Event]
      BY DEF Event
    <3> QED BY ONLY <2>1, <3>1, EventTells
  <2> QED BY <1>8, <2>2 DEF Notice!LookUp, Notice!rows, Event
<1>9. ASSUME NEW e \in Notice!Events, NEW u \in Notice!Users, Notice!StoreNotice(e, u)
      PROVE  Notice!TypeOK'
  <2>1. Notice!Active(u) \subseteq Tokens
    BY DEF Notice!Active
  <2>2. [event |-> e, to |-> u, pc |-> "tokens", batch |-> {}, owned |-> Notice!Active(u)]
          \in [event : Notice!Events, to : Notice!Users, pc : {"tokens", "push"},
               batch : SUBSET Tokens, owned : SUBSET Tokens]
    BY <2>1
  <2>3. [event |-> e, to |-> u, read |-> FALSE]
          \in [event : Notice!Events, to : Notice!Users, read : BOOLEAN]
    OBVIOUS
  <2>4. event' \in [Notice!Events -> [pc : {"none", "parties", "customer", "tell"},
                      id : 0..MaxEvents, todo : SUBSET Notice!Users, oneByOne : BOOLEAN]]
    BY <1>9 DEF Notice!StoreNotice
  <2>5. /\ UNCHANGED <<onlineProviders, assignment, device, dead, leaving, dropping, missed,
                       sendFailures>>
        /\ notices' = notices \union {[event |-> e, to |-> u, read |-> FALSE]}
        /\ sends' = sends \union {[event |-> e, to |-> u, pc |-> "tokens", batch |-> {},
                                   owned |-> Notice!Active(u)]}
    BY <1>9 DEF Notice!StoreNotice, Notice!rows
  <2> QED BY <2>2, <2>3, <2>4, <2>5
<1>10. ASSUME NEW s \in sends, Notice!ReadTokens(s) PROVE Notice!TypeOK'
  <2>1. Notice!TokensOf(s.to) \subseteq Tokens
    BY DEF Notice!TokensOf, Notice!Active
  <2> QED BY <1>10, <2>1 DEF Notice!ReadTokens, Notice!rows
<1>11. ASSUME NEW s \in sends, Notice!Push(s) PROVE Notice!TypeOK'
  BY <1>11 DEF Notice!Push, Notice!Invalid, Notice!rows
<1>12. ASSUME NEW t \in Tokens, Notice!Deactivate(t) \/ Notice!DeactivateFails(t)
       PROVE  Notice!TypeOK'
  <2>1. CASE Notice!Deactivate(t)
    BY <2>1 DEF Notice!Deactivate
  <2>2. CASE Notice!DeactivateFails(t)
    BY <2>2 DEF Notice!DeactivateFails, Notice!rows
  <2> QED BY <1>12, <2>1, <2>2
<1>13. CASE Notice!Crash
  <2>1. event' \in [Notice!Events -> [pc : {"none", "parties", "customer", "tell"},
                      id : 0..MaxEvents, todo : SUBSET Notice!Users, oneByOne : BOOLEAN]]
    BY <1>13 DEF Notice!Crash
  <2>2. missed' \subseteq Notice!Events \X Notice!Users
    BY <1>13 DEF Notice!Crash
  <2>3. /\ UNCHANGED <<onlineProviders, assignment, device, dead, notices>>
        /\ sends' = {} /\ dropping' = {} /\ leaving' = {}
        /\ sendFailures < MaxFailures /\ sendFailures' = sendFailures + 1
    BY <1>13 DEF Notice!Crash
  <2> QED BY <2>1, <2>2, <2>3
<1>14. ASSUME NEW e \in Notice!Events, Notice!LookUpFails(e) PROVE Notice!TypeOK'
  BY <1>14 DEF Notice!LookUpFails, Notice!rows
<1>15. ASSUME NEW e \in Notice!Events, NEW u \in Notice!Users, Notice!StoreFails(e, u)
       PROVE  Notice!TypeOK'
  BY <1>15 DEF Notice!StoreFails, Notice!rows
<1>16. ASSUME NEW s \in sends, Notice!SendFails(s) PROVE Notice!TypeOK'
  BY <1>16 DEF Notice!SendFails, Notice!rows
<1>17. CASE UNCHANGED Notice!vars
  BY <1>17 DEF Notice!vars
<1> QED BY <1>1, <1>2, <1>3, <1>4, <1>5, <1>6, <1>7, <1>8, <1>9, <1>10, <1>11, <1>12, <1>13,
           <1>14, <1>15, <1>16, <1>17 DEF Notice!Next, Notice!Rows, Notice!Tell, Notice!Fault

-----------------------------------------------------------------------------
(* Notices: who gets a push, and which tokens are dropped *)

\* What a call has read was the user's since it began, and so is what it would
\* read now; a deactivation that was started is of a token Firebase forgot.
PushInv ==
  /\ \A s \in sends : s.batch \subseteq s.owned /\ Notice!Active(s.to) \subseteq s.owned
  /\ dropping \subseteq dead

LEMMA PushInvNext ==
  Notice!TypeOK /\ PushInv /\ [Notice!Next]_(Notice!vars) => PushInv'
<1> SUFFICES ASSUME Notice!TypeOK, PushInv, [Notice!Next]_(Notice!vars) PROVE PushInv'
  OBVIOUS
<1> USE DEF PushInv, Notice!TypeOK
\* Steps after which no user has a token he did not have, and no call is new.
<1> DEFINE Quiet == /\ \A u \in Notice!Users : Notice!Active(u)' \subseteq Notice!Active(u)
                    /\ sends' \subseteq sends
                    /\ dropping' \subseteq dead'
<1>0. Quiet => PushInv'
  OBVIOUS
<1>1. ASSUME device' = device PROVE \A u : Notice!Active(u)' = Notice!Active(u)
  BY <1>1 DEF Notice!Active
<1>2. ASSUME NEW p \in Providers, Notice!Assign(p) PROVE Quiet
  BY <1>1, <1>2 DEF Notice!Assign
<1>3. CASE Notice!Unassign
  BY <1>0, <1>1, <1>3 DEF Notice!Unassign
<1>4. ASSUME NEW t \in Tokens, Notice!TokenDies(t) PROVE Quiet
  BY <1>1, <1>4 DEF Notice!TokenDies
<1>5. ASSUME NEW u \in Notice!Users, Notice!MarkAllAsRead(u) PROVE Quiet
  BY <1>1, <1>5 DEF Notice!MarkAllAsRead, Notice!rows
<1>6. ASSUME NEW u \in Notice!Users, NEW t \in Tokens, Notice!Register(u, t) PROVE PushInv'
  <2>1. dropping' = dropping /\ dead' = dead
    BY <1>6 DEF Notice!Register
  <2>2. /\ Notice!Active(u)' \subseteq Notice!Active(u) \union {t}
        /\ \A v \in Notice!Users \ {u} : Notice!Active(v)' \subseteq Notice!Active(v)
    BY <1>6 DEF Notice!Register, Notice!Active
  <2>3. ASSUME NEW s \in sends'
        PROVE  s.batch \subseteq s.owned /\ Notice!Active(s.to)' \subseteq s.owned
    <3>1. PICK r \in sends : s = IF r.to = u THEN [r EXCEPT !.owned = @ \union {t}] ELSE r
      BY <1>6 DEF Notice!Register
    <3>2. /\ r.to \in Notice!Users /\ r.batch \subseteq r.owned
          /\ Notice!Active(r.to) \subseteq r.owned
      OBVIOUS
    <3>3. CASE r.to = u
      <4>1. s.to = u /\ s.batch = r.batch /\ s.owned = r.owned \union {t}
        BY <3>1, <3>3
      <4> QED BY <2>2, <3>2, <3>3, <4>1
    <3>4. CASE r.to # u
      BY <2>2, <3>1, <3>2, <3>4
    <3> QED BY <3>3, <3>4
  <2> QED BY <2>1, <2>3
<1>7. ASSUME NEW u \in Notice!Users, NEW t \in Tokens,
             Notice!UnregisterCheck(u, t) \/ Notice!UnregisterWrite(u, t)
      PROVE  Quiet
  BY <1>7 DEF Notice!UnregisterCheck, Notice!UnregisterWrite, Notice!Active
<1>8. ASSUME NEW e \in Notice!Events, Notice!Notify(e) \/ Notice!LookUp(e) PROVE Quiet
  <2>1. UNCHANGED <<device, dead, sends, dropping>>
    BY <1>8 DEF Notice!Notify, Notice!JobCreated, Notice!QuoteAccepted,
                Notice!QuoteCreatedOrCompleted, Notice!Confirmed, Notice!Visited,
                Notice!Start, Notice!LookUp, Notice!rows
  <2> QED BY <1>1, <2>1
<1>9. ASSUME NEW e \in Notice!Events, NEW u \in Notice!Users, Notice!StoreNotice(e, u)
      PROVE  PushInv'
  <2>1. UNCHANGED <<device, dead, dropping>>
    BY <1>9 DEF Notice!StoreNotice, Notice!rows
  <2>2. \A s \in sends' :
          s \in sends \/ (s.to = u /\ s.batch = {} /\ s.owned = Notice!Active(u))
    BY <1>9 DEF Notice!StoreNotice
  <2> QED BY <1>1, <2>1, <2>2
<1>10. ASSUME NEW s \in sends, Notice!ReadTokens(s) PROVE PushInv'
  <2>1. UNCHANGED <<device, dead, dropping>>
    BY <1>10 DEF Notice!ReadTokens, Notice!rows
  <2>2. \A r \in sends' :
          r \in sends \/ (r.to = s.to /\ r.batch = Notice!Active(s.to) /\ r.owned = s.owned)
    BY <1>10 DEF Notice!ReadTokens, Notice!TokensOf
  <2> QED BY <1>1, <2>1, <2>2
<1>11. ASSUME NEW s \in sends, Notice!Push(s) PROVE Quiet
  BY <1>1, <1>11 DEF Notice!Push, Notice!Invalid, Notice!rows
<1>12. ASSUME NEW t \in Tokens, Notice!Deactivate(t) \/ Notice!DeactivateFails(t) PROVE Quiet
  BY <1>12 DEF Notice!Deactivate, Notice!DeactivateFails, Notice!Active, Notice!rows
<1>13. CASE Notice!Crash
  BY <1>1, <1>13 DEF Notice!Crash
<1>14. ASSUME NEW e \in Notice!Events,
              Notice!LookUpFails(e) \/ \E u \in Notice!Users : Notice!StoreFails(e, u)
       PROVE  Quiet
  BY <1>1, <1>14 DEF Notice!LookUpFails, Notice!StoreFails, Notice!rows
<1>15. ASSUME NEW s \in sends, Notice!SendFails(s) PROVE Quiet
  BY <1>1, <1>15 DEF Notice!SendFails, Notice!rows
<1>16. CASE UNCHANGED Notice!vars
  BY <1>0, <1>1, <1>16 DEF Notice!vars
<1> QED BY <1>0, <1>2, <1>3, <1>4, <1>5, <1>6, <1>7, <1>8, <1>9, <1>10, <1>11, <1>12, <1>13,
           <1>14, <1>15, <1>16 DEF Notice!Next, Notice!Rows, Notice!Tell, Notice!Fault

\* sendNotification pushes only to tokens that were the user's, and active, at
\* some time since it stored the notice, however registrations, handovers,
\* deactivations, failures and crashes interleave with it.
THEOREM PushSafety == Spec => []PushedToOwner
<1>1. Init => Notice!TypeOK /\ PushInv
  BY PartInits, NoticeTypesInit DEF Notice!Init, PushInv
<1>2. Notice!TypeOK /\ PushInv /\ [Next]_vars => Notice!TypeOK' /\ PushInv'
  BY PartSteps, NoticeTypesNext, PushInvNext
<1>3. PushInv => PushedToOwner
  BY DEF PushInv, PushedToOwner, Notice!PushedToOwner
<1> QED BY <1>1, <1>2, <1>3, PTL DEF Spec

\* A token is deactivated only once Firebase has forgotten it, or by a user who
\* owned it when his unregister request looked: the updates that nobody awaits
\* may land after the token was registered again, but then it is dead.
THEOREM LiveTokenSafety == Spec => NoLiveTokenDropped
<1> DEFINE Kept(t) == device[t].active /\ ~device'[t].active
                        => t \in dead \/ \E u \in Notice!Users : <<u, t>> \in leaving
<1>1. Init => Notice!TypeOK /\ PushInv
  BY PartInits, NoticeTypesInit DEF Notice!Init, PushInv
<1>2. Notice!TypeOK /\ PushInv /\ [Next]_vars => Notice!TypeOK' /\ PushInv'
  BY PartSteps, NoticeTypesNext, PushInvNext
<1>3. Notice!TypeOK /\ PushInv /\ [Next]_vars => [\A t \in Tokens : Kept(t)]_(Notice!vars)
  <2> SUFFICES ASSUME Notice!TypeOK, PushInv, Notice!Next, NEW t \in Tokens,
                      device[t].active, ~device'[t].active
               PROVE  t \in dead \/ \E u \in Notice!Users : <<u, t>> \in leaving
    BY PartSteps
  <2> USE DEF Notice!TypeOK, PushInv
  <2>1. ASSUME NEW u \in Notice!Users, NEW s \in Tokens, Notice!UnregisterWrite(u, s)
        PROVE  <<u, t>> \in leaving
    <3>1. s = t
      BY <2>1 DEF Notice!UnregisterWrite
    <3> QED BY <2>1, <3>1 DEF Notice!UnregisterWrite
  <2>2. ASSUME NEW s \in Tokens, Notice!Deactivate(s) PROVE t \in dead
    <3>1. s = t
      BY <2>2 DEF Notice!Deactivate
    <3> QED BY <2>2, <3>1 DEF Notice!Deactivate
  <2>3. ASSUME NEW u \in Notice!Users, NEW s \in Tokens, Notice!Register(u, s) PROVE FALSE
    BY <2>3 DEF Notice!Register
  <2>4. ASSUME NEW e \in Notice!Events, Notice!Notify(e) \/ Notice!Tell(e) PROVE FALSE
    <3>1. device' = device
      BY <2>4 DEF Notice!Notify, Notice!JobCreated, Notice!QuoteAccepted,
           Notice!QuoteCreatedOrCompleted, Notice!Confirmed, Notice!Visited, Notice!Start,
           Notice!Tell, Notice!LookUp, Notice!StoreNotice, Notice!rows
    <3> QED BY <3>1
  <2>5. CASE Notice!Fault
    <3>1. \A e \in Notice!Events :
            /\ Notice!LookUpFails(e) => device' = device
            /\ \A u \in Notice!Users : Notice!StoreFails(e, u) => device' = device
      BY DEF Notice!LookUpFails, Notice!StoreFails, Notice!rows
    <3>2. \A s \in sends : Notice!SendFails(s) => device' = device
      BY DEF Notice!SendFails, Notice!rows
    <3>3. \A s \in Tokens : Notice!DeactivateFails(s) => device' = device
      BY DEF Notice!DeactivateFails, Notice!rows
    <3>4. ASSUME Notice!Crash PROVE device' = device
      BY ONLY <3>4 DEF Notice!Crash
    <3>5. device' = device
      BY ONLY <2>5, <3>1, <3>2, <3>3, <3>4 DEF Notice!Fault
    <3> QED BY <3>5
  <2>6. ASSUME NEW s \in sends, Notice!ReadTokens(s) \/ Notice!Push(s) PROVE FALSE
    <3>1. device' = device
      BY <2>6 DEF Notice!ReadTokens, Notice!Push, Notice!rows
    <3> QED BY <3>1
  <2>7. CASE Notice!Rows
    <3>1. CASE device' = device
      BY <3>1
    <3>2. CASE device' # device
      BY <2>1, <2>3, <2>7, <3>2 DEF Notice!Rows, Notice!Assign, Notice!Unassign,
           Notice!TokenDies, Notice!MarkAllAsRead, Notice!UnregisterCheck, Notice!rows
    <3> QED BY <3>1, <3>2
  <2> QED BY <2>2, <2>4, <2>5, <2>6, <2>7 DEF Notice!Next
<1> QED BY <1>1, <1>2, <1>3, PTL DEF Spec, NoLiveTokenDropped, Notice!NoLiveTokenDropped

-----------------------------------------------------------------------------
(* Sockets: types, and who is online *)

\* As long as a socket is undisturbed nobody is being removed by a disconnection;
\* and if every command it rests on was answered, the user is in the set, the key
\* lives from the first touch on, as the timer runs or is about to be started, and
\* no reconcile is on the way to removing the user.
Listed(s) ==
  /\ online
  /\ opening[s] # "touch" => alive > 0
  /\ opening[s] = "open" => timer[s]
  /\ \A r \in Reconcilers : reconciling[r] # "remove"

KeptInv ==
  \A s \in Sockets : undisturbed[s] =>
    /\ \A t \in Sockets : closing[t] = "idle"
    /\ ~unanswered[s] /\ opening[s] \in {"touch", "timer", "open"} => Listed(s)

LEMMA SocketTypesInit == Socket!Init => Socket!TypeOK
<1>1. 0 \in 0..Pings /\ 0 \in 0..MaxFailures
  BY SocketAssumption
<1> QED BY <1>1 DEF Socket!Init, Socket!TypeOK

LEMMA SocketTypesNext == Socket!TypeOK /\ [Socket!Next]_(Socket!pvars) => Socket!TypeOK'
<1> SUFFICES ASSUME Socket!TypeOK, [Socket!Next]_(Socket!pvars) PROVE Socket!TypeOK'
  OBVIOUS
<1> USE SocketAssumption DEF Socket!TypeOK
<1>0. Socket!Settled \in BOOLEAN
  BY DEF Socket!Settled
<1>00. Socket!Caught \in [Sockets -> BOOLEAN]
  BY DEF Socket!Caught
<1>1. ASSUME NEW s \in Sockets,
             Socket!Connect(s) \/ Socket!Disconnect(s) \/ Socket!ClientPing(s)
      PROVE  Socket!TypeOK'
  <2>1. CASE Socket!Connect(s)
    BY <2>1 DEF Socket!Connect
  <2>2. CASE Socket!Disconnect(s)
    BY <2>2 DEF Socket!Disconnect
  <2>3. CASE Socket!ClientPing(s)
    BY <2>3 DEF Socket!ClientPing
  <2> QED BY <1>1, <2>1, <2>2, <2>3
<1>2. ASSUME NEW s \in Sockets,
             Socket!AddOnline(s) \/ Socket!TouchAlive(s) \/ Socket!StartTimer(s)
      PROVE  Socket!TypeOK'
  <2>1. CASE Socket!AddOnline(s)
    BY <1>0, <2>1 DEF Socket!AddOnline
  <2>2. CASE Socket!TouchAlive(s)
    BY <2>2 DEF Socket!TouchAlive, Socket!KeyAfterTouch
  <2>3. CASE Socket!StartTimer(s)
    BY <2>3 DEF Socket!StartTimer
  <2> QED BY <1>2, <2>1, <2>2, <2>3
<1>3. ASSUME NEW s \in Sockets,
             Socket!CountSockets(s) \/ Socket!RemoveOnline(s) \/ Socket!ClearTimer(s)
      PROVE  Socket!TypeOK'
  <2>1. CASE Socket!CountSockets(s)
    BY <2>1 DEF Socket!CountSockets
  <2>2. CASE Socket!RemoveOnline(s)
    <3>1. alive' = alive \/ alive' = 0
      BY <2>2 DEF Socket!RemoveOnline
    <3>2. alive' \in 0..Pings
      BY <3>1
    <3>3. closing' \in [Sockets -> {"idle", "count", "remove", "clear"}]
      BY <2>2 DEF Socket!RemoveOnline
    <3>4. /\ UNCHANGED <<redis, connected, opening, timer, reconciling, undisturbed,
                         unanswered, failures>>
          /\ online' = FALSE
      BY <2>2 DEF Socket!RemoveOnline
    <3> QED BY <3>2, <3>3, <3>4
  <2>3. CASE Socket!ClearTimer(s)
    BY <2>3 DEF Socket!ClearTimer
  <2> QED BY <1>3, <2>1, <2>2, <2>3
<1>4. ASSUME Socket!Fails PROVE failures' \in 0..MaxFailures
  BY <1>4 DEF Socket!Fails
<1>5. ASSUME NEW s \in Sockets,
             \/ Socket!RedisFails(s) \/ Socket!DisconnectFails(s) \/ Socket!ProcessDies(s)
      PROVE  Socket!TypeOK'
  <2>1. CASE Socket!AddOnlineFails(s)
    BY <1>0, <1>4, <2>1 DEF Socket!AddOnlineFails
  <2>2. CASE Socket!TouchAliveFails(s)
    BY <1>4, <2>2 DEF Socket!TouchAliveFails
  <2>3. CASE Socket!RemoveOnlineFails(s)
    BY <1>4, <2>3 DEF Socket!RemoveOnlineFails
  <2>4. CASE Socket!DisconnectFails(s)
    BY <1>4, <2>4 DEF Socket!DisconnectFails
  <2>5. CASE Socket!ProcessDies(s)
    BY <1>4, <2>5 DEF Socket!ProcessDies
  <2> QED BY <1>5, <2>1, <2>2, <2>3, <2>4, <2>5 DEF Socket!RedisFails
<1>6. CASE Socket!Tick
  BY <1>6 DEF Socket!Tick
<1>7. CASE Socket!PingsFail
  <2>1. alive' \in 0..Pings
    BY <1>7 DEF Socket!PingsFail
  <2> QED BY <1>4, <1>7, <2>1 DEF Socket!PingsFail
<1>8. CASE Socket!Reconcile
  <2>1. CASE Socket!ReconcileInMemory
    BY <1>00, <2>1 DEF Socket!ReconcileInMemory
  <2>2. ASSUME NEW r \in Reconcilers, Socket!ReconcileLook(r) PROVE Socket!TypeOK'
    BY <1>00, <2>2 DEF Socket!ReconcileLook
  <2>3. ASSUME NEW r \in Reconcilers, Socket!ReconcileLookFails(r) PROVE Socket!TypeOK'
    BY <1>4, <2>3 DEF Socket!ReconcileLookFails
  <2>4. ASSUME NEW r \in Reconcilers, Socket!ReconcileRemove(r) PROVE Socket!TypeOK'
    BY <2>4 DEF Socket!ReconcileRemove
  <2>5. ASSUME NEW r \in Reconcilers, Socket!ReconcileRemoveFails(r) PROVE Socket!TypeOK'
    BY <1>4, <2>5 DEF Socket!ReconcileRemoveFails
  <2> QED BY <1>8, <2>1, <2>2, <2>3, <2>4, <2>5 DEF Socket!Reconcile
<1>9. CASE UNCHANGED Socket!pvars
  BY <1>9 DEF Socket!pvars
<1> QED BY <1>1, <1>2, <1>3, <1>5, <1>6, <1>7, <1>8, <1>9 DEF Socket!Next, Socket!Handle

\* A step after which no handler of a disconnection is at work that was not.
LEMMA IdleNext ==
  ASSUME Socket!TypeOK, KeptInv, [Socket!Next]_(Socket!pvars),
         NEW s \in Sockets, undisturbed'[s], NEW t \in Sockets
  PROVE  closing'[t] = "idle"
<1> USE DEF Socket!TypeOK
<1>1. CASE closing' = closing /\ undisturbed[s]
  BY <1>1 DEF KeptInv
<1>2. ASSUME NEW q \in Sockets, Socket!AddOnline(q) \/ Socket!AddOnlineFails(q)
      PROVE  closing'[t] = "idle"
  <2>1. closing' = closing /\ undisturbed' = [undisturbed EXCEPT ![q] = Socket!Settled]
    BY <1>2 DEF Socket!AddOnline, Socket!AddOnlineFails
  <2>2. CASE s = q
    BY <2>1, <2>2 DEF Socket!Settled
  <2>3. CASE s # q
    BY <1>1, <2>1, <2>3
  <2> QED BY <2>2, <2>3
<1>3. ASSUME NEW q \in Sockets, Socket!Disconnect(q) PROVE FALSE
  BY <1>3 DEF Socket!Disconnect
<1>4. ASSUME NEW q \in Sockets,
             \/ Socket!CountSockets(q) \/ Socket!RemoveOnline(q) \/ Socket!ClearTimer(q)
             \/ Socket!RemoveOnlineFails(q) \/ Socket!DisconnectFails(q)
      PROVE  FALSE
  \* q is being closed, and since then nothing was undisturbed.
  BY <1>4 DEF Socket!CountSockets, Socket!RemoveOnline, Socket!ClearTimer,
              Socket!RemoveOnlineFails, Socket!DisconnectFails, KeptInv
<1>5. ASSUME NEW q \in Sockets, Socket!ProcessDies(q) PROVE closing'[t] = "idle"
  BY <1>5 DEF Socket!ProcessDies, KeptInv
<1>6. ASSUME NEW q \in Sockets,
             \/ Socket!Connect(q) \/ Socket!ClientPing(q) \/ Socket!TouchAlive(q)
             \/ Socket!TouchAliveFails(q) \/ Socket!StartTimer(q)
      PROVE  closing' = closing /\ undisturbed[s]
  BY <1>6 DEF Socket!Connect, Socket!ClientPing, Socket!TouchAlive, Socket!TouchAliveFails,
              Socket!StartTimer
<1>7. CASE Socket!Tick \/ Socket!PingsFail \/ Socket!Reconcile \/ UNCHANGED Socket!pvars
  <2>1. closing' = closing
    BY <1>7 DEF Socket!Tick, Socket!PingsFail, Socket!Reconcile, Socket!ReconcileInMemory,
         Socket!ReconcileLook, Socket!ReconcileLookFails, Socket!ReconcileRemove,
         Socket!ReconcileRemoveFails, Socket!pvars
  <2>2. undisturbed' = undisturbed \/ undisturbed' = Socket!Caught
    BY <1>7 DEF Socket!Tick, Socket!PingsFail, Socket!Reconcile, Socket!ReconcileInMemory,
         Socket!ReconcileLook, Socket!ReconcileLookFails, Socket!ReconcileRemove,
         Socket!ReconcileRemoveFails, Socket!pvars
  <2> QED BY <1>1, <2>1, <2>2 DEF Socket!Caught
<1> QED BY <1>1, <1>2, <1>3, <1>4, <1>5, <1>6, <1>7
        DEF Socket!Next, Socket!Handle, Socket!RedisFails

LEMMA ListedNext ==
  ASSUME Socket!TypeOK, KeptInv, [Socket!Next]_(Socket!pvars),
         NEW s \in Sockets, undisturbed'[s], ~unanswered'[s],
         opening'[s] \in {"touch", "timer", "open"}
  PROVE  Listed(s)'
<1> USE SocketAssumption DEF Socket!TypeOK, Listed
\* What the invariant says of s, when s was under way before the step as well.
<1>0. ASSUME undisturbed[s], ~unanswered[s], opening[s] \in {"touch", "timer", "open"}
      PROVE  Listed(s)
  BY <1>0 DEF KeptInv
<1>1. ASSUME NEW t \in Sockets, Socket!Connect(t) PROVE Listed(s)'
  \* s is another socket.
  <2>1. s # t
    BY <1>1 DEF Socket!Connect
  <2> QED BY <1>0, <1>1, <2>1 DEF Socket!Connect
<1>2. ASSUME NEW t \in Sockets,
             \/ Socket!CountSockets(t) \/ Socket!RemoveOnline(t) \/ Socket!ClearTimer(t)
             \/ Socket!RemoveOnlineFails(t) \/ Socket!DisconnectFails(t)
             \/ Socket!Disconnect(t)
      PROVE  FALSE
  BY <1>2 DEF Socket!CountSockets, Socket!RemoveOnline, Socket!ClearTimer,
              Socket!RemoveOnlineFails, Socket!DisconnectFails, Socket!Disconnect, KeptInv
<1>3. ASSUME NEW t \in Sockets, Socket!ClientPing(t) PROVE Listed(s)'
  BY <1>0, <1>3 DEF Socket!ClientPing
<1>4. ASSUME NEW t \in Sockets, Socket!AddOnline(t) PROVE Listed(s)'
  <2>1. /\ online' /\ opening' = [opening EXCEPT ![t] = "touch"]
        /\ undisturbed' = [undisturbed EXCEPT ![t] = Socket!Settled]
        /\ UNCHANGED <<timer, alive, reconciling, unanswered>>
    BY <1>4 DEF Socket!AddOnline
  <2>2. CASE s = t
    \* It was Settled: what the history begins with.
    BY <2>1, <2>2 DEF Socket!Settled
  <2>3. CASE s # t
    BY <1>0, <2>1, <2>3
  <2> QED BY <2>2, <2>3
<1>5. ASSUME NEW t \in Sockets, Socket!AddOnlineFails(t) \/ Socket!TouchAliveFails(t)
      PROVE  Listed(s)'
  \* s is another socket: t is unanswered now.
  <2>1. /\ unanswered' = [unanswered EXCEPT ![t] = TRUE]
        /\ UNCHANGED <<online, timer, alive, reconciling>>
        /\ \E to : opening' = [opening EXCEPT ![t] = to]
        /\ \E v : undisturbed' = [undisturbed EXCEPT ![t] = v]
    <3>1. CASE Socket!AddOnlineFails(t)
      BY <3>1 DEF Socket!AddOnlineFails
    <3>2. CASE Socket!TouchAliveFails(t)
      <4>1. undisturbed' = [undisturbed EXCEPT ![t] = undisturbed[t]]
        BY <3>2 DEF Socket!TouchAliveFails
      <4> QED BY <3>2, <4>1 DEF Socket!TouchAliveFails
    <3> QED BY <1>5, <3>1, <3>2
  <2>2. s # t
    BY <2>1
  <2>3. opening'[s] = opening[s] /\ undisturbed'[s] = undisturbed[s]
           /\ unanswered'[s] = unanswered[s]
    BY <2>1, <2>2
  <2> QED BY <1>0, <2>1, <2>3
<1>6. ASSUME NEW t \in Sockets, Socket!TouchAlive(t) PROVE Listed(s)'
  BY <1>0, <1>6 DEF Socket!TouchAlive, Socket!KeyAfterTouch
<1>7. ASSUME NEW t \in Sockets, Socket!StartTimer(t) PROVE Listed(s)'
  BY <1>0, <1>7 DEF Socket!StartTimer
<1>8. ASSUME NEW t \in Sockets, Socket!ProcessDies(t) PROVE Listed(s)'
  <2>1. s # t
    BY <1>8 DEF Socket!ProcessDies
  <2> QED BY <1>0, <1>8, <2>1 DEF Socket!ProcessDies
<1>9. CASE Socket!Tick
  <2>1. Listed(s) /\ opening' = opening
    BY <1>0, <1>9 DEF Socket!Tick
  <2>2. opening[s] # "timer" /\ UNCHANGED <<online, timer, reconciling>>
    BY <1>9 DEF Socket!Tick, Socket!HandlersArePrompt
  <2>3. opening[s] # "touch" => alive' > 0
    \* The timer of s runs and touches the key.
    BY <1>9, <2>1, <2>2 DEF Socket!Tick, Socket!TimerRuns
  <2> QED BY <2>1, <2>2, <2>3
<1>10. CASE Socket!PingsFail
  BY <1>10 DEF Socket!PingsFail
<1>11. CASE Socket!Reconcile
  <2>1. CASE Socket!ReconcileInMemory \/ \E r \in Reconcilers : Socket!ReconcileLook(r)
    \* The key has ended, so that s has not touched it and the look disturbs it.
    <3>1. alive = 0 /\ undisturbed' = Socket!Caught /\ UNCHANGED <<opening, unanswered>>
      BY <2>1 DEF Socket!ReconcileInMemory, Socket!ReconcileLook, Socket!Expired
    <3>2. undisturbed[s] /\ opening[s] # "touch"
      BY <3>1 DEF Socket!Caught
    <3> QED BY <1>0, <3>1, <3>2
  <2>2. ASSUME NEW r \in Reconcilers, Socket!ReconcileLookFails(r) PROVE Listed(s)'
    BY <2>2 DEF Socket!ReconcileLookFails
  <2>3. ASSUME NEW r \in Reconcilers,
               Socket!ReconcileRemove(r) \/ Socket!ReconcileRemoveFails(r)
        PROVE  Listed(s)'
    BY <1>0, <2>3 DEF Socket!ReconcileRemove, Socket!ReconcileRemoveFails
  <2> QED BY <1>11, <2>1, <2>2, <2>3 DEF Socket!Reconcile
<1>12. CASE UNCHANGED Socket!pvars
  BY <1>0, <1>12 DEF Socket!pvars
<1> QED BY <1>1, <1>2, <1>3, <1>4, <1>5, <1>6, <1>7, <1>8, <1>9, <1>10, <1>11, <1>12
        DEF Socket!Next, Socket!Handle, Socket!RedisFails

LEMMA KeptInvNext ==
  Socket!TypeOK /\ KeptInv /\ [Socket!Next]_(Socket!pvars) => KeptInv'
BY IdleNext, ListedNext DEF KeptInv

\* A user with an open socket is online, for any number of sockets, reconciles
\* and failures, if PRESENCE_TTL is 20 s or more, unless another socket of his was
\* closed or a reconcile looked before the first touch (undisturbed), or a command
\* of Redis failed that the listing rests on (unanswered): neither the expiry of the
\* key, nor a reconcile, nor a process that dies takes him out of the set.
THEOREM PresenceSafety == Spec => []OpenIsOnline
<1>1. Init => Socket!TypeOK /\ KeptInv
  BY PartInits, SocketTypesInit DEF Socket!Init, KeptInv
<1>2. Socket!TypeOK /\ KeptInv /\ [Next]_vars => Socket!TypeOK' /\ KeptInv'
  BY PartSteps, SocketTypesNext, KeptInvNext
<1>3. KeptInv => OpenIsOnline
  BY DEF KeptInv, OpenIsOnline, Socket!OpenIsOnline, Socket!Open, Listed
<1> QED BY <1>1, <1>2, <1>3, PTL DEF Spec

-----------------------------------------------------------------------------
(* Accounts and payouts: types *)

Call == [pc : {"idle", "create", "store", "transfer", "record"},
         account : Accounts \union {None}, transfer : Transfers \union {None}]

\* A request holds what its next statement needs, and events are about accounts
\* that were created.
AccountTypes ==
  /\ Account!TypeOK
  /\ \A r \in Requests : call[r].pc = "store" => call[r].account \in Accounts
  /\ \A r \in Requests : call[r].pc = "record" => call[r].transfer \in Transfers
  /\ \A e \in events : e.of \in account

\* How a request changes, and that it stays one.
LEMMA CallTurns ==
  ASSUME NEW c \in Call, NEW pc \in {"idle", "create", "store", "transfer", "record"}
  PROVE  /\ [c EXCEPT !.pc = pc] \in Call
         /\ \A a \in Accounts \union {None} : [c EXCEPT !.pc = pc, !.account = a] \in Call
         /\ \A t \in Transfers : [c EXCEPT !.pc = pc, !.transfer = t] \in Call
BY DEF Call

LEMMA CallsTurn ==
  ASSUME call \in [Requests -> Call], NEW r \in Requests, NEW c \in Call,
         call' = [call EXCEPT ![r] = c]
  PROVE  call' \in [Requests -> Call]
OBVIOUS

LEMMA AccountTypesInit == Account!Init => AccountTypes
BY DEF Account!Init, AccountTypes, Account!TypeOK, Account!Idle

LEMMA AccountTypesNext == AccountTypes /\ [Account!Next]_(Account!avars) => AccountTypes'
<1> SUFFICES ASSUME AccountTypes, [Account!Next]_(Account!avars) PROVE AccountTypes'
  OBVIOUS
<1> DEFINE Update == [type : {"account.updated"}, of : Accounts, due : BOOLEAN]
           Rest == /\ call' \in [Requests -> Call]
                   /\ \A q \in Requests : call'[q].pc = "store" => call'[q].account \in Accounts
                   /\ \A q \in Requests :
                        call'[q].pc = "record" => call'[q].transfer \in Transfers
\* What a request leaves of the calls; the rest of the types is the action's own.
<1>0. call \in [Requests -> Call] /\ Account!Idle \in Call
  BY DEF AccountTypes, Account!TypeOK, Call, Account!Idle
<1>01. ASSUME NEW r \in Requests, NEW c \in Call, call' = [call EXCEPT ![r] = c],
              c.pc = "store" => c.account \in Accounts,
              c.pc = "record" => c.transfer \in Transfers
       PROVE  Rest
  <2>1. call' \in [Requests -> Call]
    BY <1>0, <1>01
  <2>2. \A q \in Requests : call'[q] = IF q = r THEN c ELSE call[q]
    BY <1>0, <1>01
  <2> QED BY <1>01, <2>1, <2>2 DEF AccountTypes
<1>02. call' = call => Rest
  BY <1>0 DEF AccountTypes
<1>03. ASSUME NEW a \in account', NEW due \in BOOLEAN, account \subseteq account',
              account' \subseteq Accounts,
              events' = events \union {[type |-> "account.updated", of |-> a, due |-> due]}
       PROVE  events' \subseteq Update /\ \A e \in events' : e.of \in account'
  <2>1. [type |-> "account.updated", of |-> a, due |-> due] \in Update
    BY <1>03
  <2>2. events \subseteq Update /\ \A e \in events : e.of \in account
    BY DEF AccountTypes, Account!TypeOK
  <2>3. [type |-> "account.updated", of |-> a, due |-> due].of = a
    OBVIOUS
  <2> QED BY <1>03, <2>1, <2>2, <2>3
<1> HIDE DEF Rest, Update
<1>1. ASSUME NEW r \in Requests, Account!OnboardRead(r) PROVE AccountTypes'
  <2>1. call' = [call EXCEPT ![r] = [call[r] EXCEPT !.pc = "create"]]
    BY <1>1 DEF Account!OnboardRead
  <2>2. [call[r] EXCEPT !.pc = "create"] \in Call
    BY <1>0, CallTurns
  <2>3. Rest
    BY <1>0, <1>01, <2>1, <2>2 DEF Call
  <2> QED BY <1>1, <2>3 DEF Account!OnboardRead, AccountTypes, Account!TypeOK, Rest, Call
<1>2. ASSUME NEW r \in Requests, NEW a \in Accounts, Account!OnboardCreate(r, a)
      PROVE  AccountTypes'
  <2>1. PICK due \in BOOLEAN :
          /\ cleared' = IF due THEN cleared ELSE cleared \union {a}
          /\ events' = events \union {[type |-> "account.updated", of |-> a, due |-> due]}
    BY <1>2 DEF Account!OnboardCreate
  <2>2. /\ UNCHANGED <<secretSet, provider, transfer, payout>>
        /\ account' = account \union {a}
        /\ call' = [call EXCEPT ![r] = [call[r] EXCEPT !.pc = "store", !.account = a]]
    BY <1>2 DEF Account!OnboardCreate
  <2>3. [call[r] EXCEPT !.pc = "store", !.account = a] \in Call
    BY <1>0, CallTurns
  <2>4. Rest
    <3>1. [call[r] EXCEPT !.pc = "store", !.account = a].pc = "store"
          /\ [call[r] EXCEPT !.pc = "store", !.account = a].account = a
      BY <1>0 DEF Call
    <3> QED BY <1>01, <2>2, <2>3, <3>1
  <2>5. events' \subseteq Update /\ \A e \in events' : e.of \in account'
    <3>1. a \in account' /\ account \subseteq account' /\ account' \subseteq Accounts
      BY <2>2 DEF AccountTypes, Account!TypeOK
    <3> QED BY <1>03, <2>1, <3>1
  <2>6. cleared' \subseteq account' /\ account' \subseteq Accounts
    BY <2>1, <2>2 DEF AccountTypes, Account!TypeOK
  <2> QED BY <2>2, <2>4, <2>5, <2>6 DEF AccountTypes, Account!TypeOK, Rest, Update, Call
<1>3. ASSUME NEW r \in Requests, Account!OnboardStore(r) PROVE AccountTypes'
  <2>1. Rest
    BY <1>0, <1>01, <1>3 DEF Account!OnboardStore, Account!Idle
  <2>2. provider' \in [account : Accounts \union {None}, kyc : {"pending", "verified"},
                       named : SUBSET Accounts]
    BY <1>3 DEF Account!OnboardStore, AccountTypes, Account!TypeOK
  <2> QED BY <1>3, <2>1, <2>2 DEF Account!OnboardStore, AccountTypes, Account!TypeOK, Rest, Call
<1>4. ASSUME NEW r \in Requests, Account!PayoutRead(r) PROVE AccountTypes'
  <2>1. call' = [call EXCEPT ![r] = [call[r] EXCEPT !.pc = "transfer",
                                                    !.account = provider.account]]
    BY <1>4 DEF Account!PayoutRead
  <2>2. provider.account \in Accounts \union {None}
    BY DEF AccountTypes, Account!TypeOK
  <2>3. [call[r] EXCEPT !.pc = "transfer", !.account = provider.account] \in Call
    BY <1>0, <2>2, CallTurns
  <2>4. [call[r] EXCEPT !.pc = "transfer", !.account = provider.account].pc = "transfer"
    BY <1>0 DEF Call
  <2>5. Rest
    BY <1>01, <2>1, <2>3, <2>4
  <2> QED BY <1>4, <2>5 DEF Account!PayoutRead, AccountTypes, Account!TypeOK, Rest, Call
<1>5. ASSUME NEW r \in Requests, NEW t \in Transfers, Account!PayoutTransfer(r, t)
      PROVE  AccountTypes'
  <2>1. call' = [call EXCEPT ![r] = [call[r] EXCEPT !.pc = "record", !.transfer = t]]
    BY <1>5 DEF Account!PayoutTransfer
  <2>2. [call[r] EXCEPT !.pc = "record", !.transfer = t] \in Call
    BY <1>0, CallTurns
  <2>3. [call[r] EXCEPT !.pc = "record", !.transfer = t].pc = "record"
        /\ [call[r] EXCEPT !.pc = "record", !.transfer = t].transfer = t
    BY <1>0 DEF Call
  <2>4. Rest
    BY <1>01, <2>1, <2>2, <2>3
  <2>5. transfer' \in [Transfers -> Accounts \union {None}]
    <3>1. call[r].account \in Accounts \union {None}
      BY <1>0 DEF Call
    <3>2. transfer \in [Transfers -> Accounts \union {None}]
      BY DEF AccountTypes, Account!TypeOK
    <3>3. transfer' = [transfer EXCEPT ![t] = call[r].account]
      BY <1>5 DEF Account!PayoutTransfer
    <3> QED BY ONLY <3>1, <3>2, <3>3
  <2> QED BY <1>5, <2>4, <2>5
          DEF Account!PayoutTransfer, AccountTypes, Account!TypeOK, Rest, Call
<1>6. ASSUME NEW r \in Requests, Account!PayoutRecord(r) \/ Account!CallFails(r)
      PROVE  AccountTypes'
  <2>1. Rest
    BY <1>0, <1>01, <1>6 DEF Account!PayoutRecord, Account!CallFails, Account!Idle
  <2>2. payout' \in [Transfers -> {"none", "processing"}]
    BY <1>6 DEF Account!PayoutRecord, Account!CallFails, AccountTypes, Account!TypeOK
  <2>3. UNCHANGED <<secretSet, provider, account, cleared, transfer, events>>
    BY <1>6 DEF Account!PayoutRecord, Account!CallFails
  <2> QED BY <2>1, <2>2, <2>3 DEF AccountTypes, Account!TypeOK, Rest, Call
<1>7. ASSUME NEW a \in Accounts, Account!AccountUpdated(a) PROVE AccountTypes'
  <2>1. PICK due \in BOOLEAN :
          /\ cleared' = IF due THEN cleared ELSE cleared \union {a}
          /\ events' = events \union {[type |-> "account.updated", of |-> a, due |-> due]}
    BY <1>7 DEF Account!AccountUpdated
  <2>2. UNCHANGED <<secretSet, provider, account, transfer, payout, call>> /\ a \in account
    BY <1>7 DEF Account!AccountUpdated
  <2>3. events' \subseteq Update /\ \A e \in events' : e.of \in account'
    BY <1>03, <2>1, <2>2 DEF AccountTypes, Account!TypeOK
  <2>4. cleared' \subseteq account'
    BY <2>1, <2>2 DEF AccountTypes, Account!TypeOK
  <2> QED BY <1>02, <2>2, <2>3, <2>4 DEF AccountTypes, Account!TypeOK, Rest, Update, Call
<1>8. ASSUME NEW kyc \in {"pending", "verified"}, provider' = [provider EXCEPT !.kyc = kyc],
             events' \subseteq events,
             UNCHANGED <<secretSet, account, cleared, transfer, payout, call>>
      PROVE  AccountTypes'
  <2>1. provider' \in [account : Accounts \union {None}, kyc : {"pending", "verified"},
                       named : SUBSET Accounts]
    BY <1>8 DEF AccountTypes, Account!TypeOK
  <2> QED BY <1>8, <2>1 DEF AccountTypes, Account!TypeOK
<1>9. provider.kyc \in {"pending", "verified"}
  BY DEF AccountTypes, Account!TypeOK
<1>10. ASSUME NEW e \in events, Account!HandleAccountUpdated(e) PROVE AccountTypes'
  <2>1. Account!KycAfter(e) \in {"pending", "verified"}
    BY <1>9 DEF Account!KycAfter
  <2> QED BY <1>8, <1>9, <1>10, <2>1 DEF Account!HandleAccountUpdated, Account!Forget
<1>11. ASSUME NEW a \in Accounts, NEW due \in BOOLEAN, Account!HandleUnsigned(a, due)
       PROVE  AccountTypes'
  <2>1. Account!KycAfter([type |-> "account.updated", of |-> a, due |-> due])
          \in {"pending", "verified"}
    BY <1>9 DEF Account!KycAfter
  <2> QED BY <1>8, <1>11, <2>1 DEF Account!HandleUnsigned
<1>12. CASE UNCHANGED Account!avars
  BY <1>12 DEF Account!avars, AccountTypes, Account!TypeOK
<1> QED BY <1>1, <1>2, <1>3, <1>4, <1>5, <1>6, <1>7, <1>10, <1>11, <1>12 DEF Account!Next

-----------------------------------------------------------------------------
(* The provider's verification *)

\* The row's account is one it has named; an event that says nothing is past due
\* is about an account of which that was true; and what the row's status says
\* was true of an account it named, if events are verified.
Honest ==
  /\ provider.account # None => provider.account \in provider.named
  /\ \A e \in events : ~e.due => e.of \in cleared
  /\ Account!VerifiedByOwnAccount

LEMMA HonestNext ==
  AccountTypes /\ Honest /\ [Account!Next]_(Account!avars) => Honest'
<1> SUFFICES ASSUME AccountTypes, Honest, [Account!Next]_(Account!avars) PROVE Honest'
  OBVIOUS
<1> USE AccountAssumption DEF AccountTypes, Account!TypeOK, Honest, Account!VerifiedByOwnAccount
<1>1. ASSUME NEW r \in Requests,
             \/ Account!OnboardRead(r) \/ Account!PayoutRead(r)
             \/ Account!PayoutRecord(r) \/ Account!CallFails(r)
      PROVE  Honest'
  BY <1>1 DEF Account!OnboardRead, Account!PayoutRead, Account!PayoutRecord, Account!CallFails
<1>2. ASSUME NEW r \in Requests, NEW a \in Accounts, Account!OnboardCreate(r, a) PROVE Honest'
  <2>1. PICK due \in BOOLEAN :
          /\ cleared' = IF due THEN cleared ELSE cleared \union {a}
          /\ events' = events \union {[type |-> "account.updated", of |-> a, due |-> due]}
    BY <1>2 DEF Account!OnboardCreate
  <2>2. provider' = provider /\ secretSet' = secretSet
    BY <1>2 DEF Account!OnboardCreate
  <2> QED BY <2>1, <2>2
<1>3. ASSUME NEW r \in Requests, Account!OnboardStore(r) PROVE Honest'
  <2>1. /\ provider'.account = call[r].account /\ provider'.kyc = provider.kyc
        /\ provider'.named = provider.named \union {call[r].account}
    BY <1>3 DEF Account!OnboardStore
  <2> QED BY <1>3, <2>1 DEF Account!OnboardStore
<1>4. ASSUME NEW r \in Requests, NEW t \in Transfers, Account!PayoutTransfer(r, t) PROVE Honest'
  BY <1>4 DEF Account!PayoutTransfer
<1>5. ASSUME NEW a \in Accounts, Account!AccountUpdated(a) PROVE Honest'
  <2>1. PICK due \in BOOLEAN :
          /\ cleared' = IF due THEN cleared ELSE cleared \union {a}
          /\ events' = events \union {[type |-> "account.updated", of |-> a, due |-> due]}
    BY <1>5 DEF Account!AccountUpdated
  <2>2. provider' = provider /\ secretSet' = secretSet
    BY <1>5 DEF Account!AccountUpdated
  <2> QED BY <2>1, <2>2
<1>6. ASSUME NEW e \in events, Account!HandleAccountUpdated(e) PROVE Honest'
  <2>1. /\ provider'.account = provider.account /\ provider'.named = provider.named
        /\ provider'.kyc = Account!KycAfter(e) \/ provider'.kyc = provider.kyc
        /\ cleared' = cleared /\ events' \subseteq events /\ secretSet' = secretSet
    BY <1>6 DEF Account!HandleAccountUpdated, Account!Forget
  <2>2. CASE provider'.kyc = provider.kyc
    BY <2>1, <2>2
  <2>3. CASE provider'.kyc = Account!KycAfter(e) /\ provider.account = e.of /\ ~e.due
    \* The row's account is the one the event is about.
    <3>1. e.of \in provider.named /\ e.of \in cleared
      BY <2>3
    <3> QED BY <2>1, <3>1
  <2>4. CASE provider'.kyc = Account!KycAfter(e) /\ provider.account = e.of /\ e.due
    BY <2>1, <2>4 DEF Account!KycAfter
  <2>5. CASE provider'.kyc = Account!KycAfter(e) /\ provider.account # e.of
    BY <2>1, <2>5 DEF Account!KycAfter
  <2> QED BY <2>1, <2>2, <2>3, <2>4, <2>5
<1>7. ASSUME NEW a \in Accounts, NEW due \in BOOLEAN, Account!HandleUnsigned(a, due)
      PROVE  Honest'
  <2>1. /\ ~secretSet' /\ UNCHANGED <<cleared, events>>
        /\ provider'.account = provider.account /\ provider'.named = provider.named
    BY <1>7 DEF Account!HandleUnsigned
  <2> QED BY <2>1
<1>8. CASE UNCHANGED Account!avars
  BY <1>8 DEF Account!avars
<1> QED BY <1>1, <1>2, <1>3, <1>4, <1>5, <1>6, <1>7, <1>8 DEF Account!Next

\* With a webhook secret, whatever order account.updated events and overlapping
\* onboarding requests come in, a provider is verified only through an account
\* the row has named and that had nothing past due.
THEOREM VerificationSafety == Spec => []VerifiedByOwnAccount
<1>1. Init => AccountTypes /\ Honest
  BY PartInits, AccountTypesInit DEF Account!Init, Honest, Account!VerifiedByOwnAccount
<1>2. AccountTypes /\ Honest /\ [Next]_vars => AccountTypes' /\ Honest'
  BY PartSteps, AccountTypesNext, HonestNext
<1>3. Honest => VerifiedByOwnAccount
  BY DEF Honest, VerifiedByOwnAccount
<1> QED BY <1>1, <1>2, <1>3, PTL DEF Spec

-----------------------------------------------------------------------------
(* The payouts *)

\* A payout's request holds an account the row has named, and once it has one, a
\* transfer that went to such an account; the accounts named only grow.
PaidOut ==
  /\ provider.account # None => provider.account \in provider.named
  /\ \A r \in Requests :
       /\ call[r].pc = "transfer" => call[r].account \in provider.named
       /\ call[r].pc = "record" => transfer[call[r].transfer] \in provider.named
  /\ Account!PayoutsAreTransfers

LEMMA PaidOutNext == AccountTypes /\ PaidOut /\ [Account!Next]_(Account!avars) => PaidOut'
<1> SUFFICES ASSUME AccountTypes, PaidOut, [Account!Next]_(Account!avars) PROVE PaidOut'
  OBVIOUS
<1> USE AccountAssumption
    DEF AccountTypes, Account!TypeOK, PaidOut, Account!PayoutsAreTransfers
<1>1. ASSUME NEW r \in Requests, Account!OnboardRead(r) \/ Account!CallFails(r) PROVE PaidOut'
  BY <1>1 DEF Account!OnboardRead, Account!CallFails, Account!Idle
<1>2. ASSUME NEW r \in Requests, NEW a \in Accounts, Account!OnboardCreate(r, a) PROVE PaidOut'
  BY <1>2 DEF Account!OnboardCreate
<1>3. ASSUME NEW r \in Requests, Account!OnboardStore(r) PROVE PaidOut'
  <2>1. /\ provider'.account = call[r].account
        /\ provider'.named = provider.named \union {call[r].account}
        /\ call' = [call EXCEPT ![r] = Account!Idle] /\ UNCHANGED <<transfer, payout>>
    BY <1>3 DEF Account!OnboardStore
  <2> QED BY <2>1 DEF Account!Idle
<1>4. ASSUME NEW r \in Requests, Account!PayoutRead(r) PROVE PaidOut'
  BY <1>4 DEF Account!PayoutRead
<1>5. ASSUME NEW r \in Requests, NEW t \in Transfers, Account!PayoutTransfer(r, t)
      PROVE  PaidOut'
  \* Transfer t was not made before, so that nothing else names it.
  <2>1. /\ call[r].pc = "transfer" /\ transfer' = [transfer EXCEPT ![t] = call[r].account]
        /\ call' = [call EXCEPT ![r].pc = "record", ![r].transfer = t]
        /\ UNCHANGED <<provider, payout>>
    BY <1>5 DEF Account!PayoutTransfer
  <2>2. call[r].account \in provider.named
    BY <2>1
  <2>3. \A u \in Transfers : transfer'[u] = IF u = t THEN call[r].account ELSE transfer[u]
    BY <2>1
  <2>4. ASSUME NEW q \in Requests
        PROVE  /\ call'[q].pc = "transfer" => call'[q].account \in provider.named
               /\ call'[q].pc = "record" => transfer'[call'[q].transfer] \in provider.named
    <3>1. CASE q = r
      BY <2>1, <2>2, <2>3, <3>1
    <3>2. CASE q # r
      BY <2>1, <2>2, <2>3, <3>2
    <3> QED BY <3>1, <3>2
  <2> QED BY <2>1, <2>2, <2>3, <2>4
<1>6. ASSUME NEW r \in Requests, Account!PayoutRecord(r) PROVE PaidOut'
  BY <1>6 DEF Account!PayoutRecord, Account!Idle
<1>7. ASSUME UNCHANGED <<transfer, payout, call>>, provider'.account = provider.account,
             provider'.named = provider.named
      PROVE  PaidOut'
  BY <1>7
<1>8. ASSUME NEW a \in Accounts, Account!AccountUpdated(a) PROVE PaidOut'
  BY <1>7, <1>8 DEF Account!AccountUpdated
<1>9. ASSUME NEW e \in events, Account!HandleAccountUpdated(e) PROVE PaidOut'
  BY <1>7, <1>9 DEF Account!HandleAccountUpdated
<1>10. ASSUME NEW a \in Accounts, NEW due \in BOOLEAN, Account!HandleUnsigned(a, due)
       PROVE  PaidOut'
  BY <1>7, <1>10 DEF Account!HandleUnsigned
<1>11. CASE UNCHANGED Account!avars
  BY <1>7, <1>11 DEF Account!avars
<1> QED BY <1>1, <1>2, <1>3, <1>4, <1>5, <1>6, <1>8, <1>9, <1>10, <1>11 DEF Account!Next

\* However payouts and onboardings overlap and wherever they die, a Payout row
\* is of a transfer that was made, to an account the provider's row had named.
THEOREM PayoutSafety == Spec => []PayoutsAreTransfers
<1>1. Init => AccountTypes /\ PaidOut
  BY PartInits, AccountTypesInit
  DEF Account!Init, PaidOut, Account!PayoutsAreTransfers, Account!Idle
<1>2. AccountTypes /\ PaidOut /\ [Next]_vars => AccountTypes' /\ PaidOut'
  BY PartSteps, AccountTypesNext, PaidOutNext
<1>3. PaidOut => PayoutsAreTransfers
  BY DEF PaidOut, PayoutsAreTransfers
<1> QED BY <1>1, <1>2, <1>3, PTL DEF Spec

-----------------------------------------------------------------------------
(* The charge of a job *)

\* Payments with what is shown of it.
ChargeT == INSTANCE PaymentsProofs WITH events <- chargeEvents

LEMMA ChargeInit == Charging!Init => ChargeT!Init
BY DEF Charging!Init, Charging!NoPayment, Charging!Idle,
       ChargeT!Init, ChargeT!NoPayment, ChargeT!Idle

LEMMA ChargeNext == [Charging!Next]_(Charging!vars) => [ChargeT!Next]_(ChargeT!vars)
<1> USE DEF Charging!stripeVars, ChargeT!stripeVars
<1>1. \A r \in Requests : Charging!Call(r) => ChargeT!Call(r)
  BY DEF Charging!Call, Charging!CreateIntentStripe, Charging!CreateIntentInsert,
         Charging!RefundStripe, Charging!RefundRecord, Charging!Serve, Charging!Done,
         Charging!At, Charging!Idle, Charging!NoPayment, Charging!SecretsAfter,
         ChargeT!Call, ChargeT!CreateIntentStripe, ChargeT!CreateIntentInsert,
         ChargeT!RefundStripe, ChargeT!RefundRecord, ChargeT!Serve, ChargeT!Done,
         ChargeT!At, ChargeT!Idle, ChargeT!NoPayment, ChargeT!SecretsAfter
<1>2. \A r \in Requests : Charging!Crash(r) => ChargeT!Crash(r)
  BY DEF Charging!Crash, Charging!Done, Charging!Idle, ChargeT!Crash, ChargeT!Done, ChargeT!Idle
<1>3. Charging!VerifyPayment => ChargeT!VerifyPayment
  BY DEF Charging!VerifyPayment, ChargeT!VerifyPayment
<1>4. \A i \in Intents : /\ Charging!Pay(i) => ChargeT!Pay(i)
                         /\ Charging!Dispute(i) => ChargeT!Dispute(i)
  BY DEF Charging!Pay, Charging!Dispute, Charging!Emit,
         ChargeT!Pay, ChargeT!Dispute, ChargeT!Emit
<1>5. \A e, left : Charging!Handle(e, left) => ChargeT!Handle(e, left)
  BY DEF Charging!Handle, Charging!Answered, Charging!Verified, Charging!RowAfter,
         Charging!RowSucceeded, Charging!ClosedStatus, ChargeT!Handle, ChargeT!Answered,
         ChargeT!Verified, ChargeT!RowAfter, ChargeT!RowSucceeded, ChargeT!ClosedStatus
<1>6. Charging!Webhook => ChargeT!Webhook
  BY <1>5 DEF Charging!Webhook, Charging!Acknowledge, Charging!LoseAcknowledgement,
              ChargeT!Webhook, ChargeT!Acknowledge, ChargeT!LoseAcknowledgement
<1>7. UNCHANGED Charging!vars => UNCHANGED ChargeT!vars
  BY DEF Charging!vars, ChargeT!vars
<1> QED BY <1>1, <1>2, <1>3, <1>4, <1>6, <1>7 DEF Charging!Next, ChargeT!Next

LEMMA ChargeSpec == Spec => ChargeT!Spec
<1>1. [Next]_vars => [ChargeT!Next]_(ChargeT!vars)
  BY PartSteps, ChargeNext
<1>2. Init => ChargeT!Init
  BY PartInits, ChargeInit
<1> QED BY <1>1, <1>2, PTL DEF Spec, ChargeT!Spec

\* What the theorems about Payments ask of the constants holds in Delivery.
LEMMA ChargeConstants == ChargeT!Parameters
BY ChargeAssumption, AccountAssumption
   DEF ChargeT!Parameters, IsFiniteSet, ChargeT!IsFiniteSet

\* Beside the other parts as well, no intent is charged that the job's Payment
\* row does not name, however intents are created, verified and retried.
THEOREM ChargeRowSafety == Spec => []ChargeHasRow
<1>1. ChargeT!Spec => []ChargeT!ChargeHasRow
  BY ChargeT!ChargesHaveRow, ChargeConstants
<1>2. ChargeT!ChargeHasRow => ChargeHasRow
  BY DEF ChargeHasRow, Charging!ChargeHasRow, ChargeT!ChargeHasRow
<1> QED BY <1>1, <1>2, ChargeSpec, PTL

\* Whatever order, repetition and delay the webhooks have, a payment's status is
\* of something that happened to its charge; dispute_lost may stand for an inquiry
\* that was closed without a loss.
THEOREM ChargeStatusSafety == Spec => []StatusHappened
<1>1. ChargeT!Spec => []ChargeT!StatusHappened
  BY ChargeT!StatusIsHistory, ChargeConstants
<1>2. ChargeT!StatusHappened => StatusHappened
  BY DEF StatusHappened, Charging!StatusHappened, ChargeT!StatusHappened
<1> QED BY <1>1, <1>2, ChargeSpec, PTL

LEMMA ChargeTyped == Spec => []Charging!TypeOK
<1>1. ChargeT!Spec => []ChargeT!TypeOK
  BY ChargeT!PaymentTypes, ChargeConstants
<1>2. ChargeT!TypeOK => Charging!TypeOK
  BY DEF Charging!TypeOK, Charging!PaymentStatuses, Charging!Events, Charging!ChargeEvents,
         Charging!Idle, ChargeT!TypeOK, ChargeT!PaymentStatuses, ChargeT!Events,
         ChargeT!ChargeEvents, ChargeT!Idle
<1> QED BY <1>1, <1>2, ChargeSpec, PTL

-----------------------------------------------------------------------------
(* The quotes page and its rate limit: types *)

Sent == {g \in Handlers : handler[g] = "sent"}

\* A request that counts after some ticks counts until then, and one that was
\* sent leaves room for itself below the bound.
HitsInv ==
  /\ Quotes!TypeOK
  /\ \A t \in 0..MaxTtl, u \in 0..MaxTtl : t <= u => hits[u] <= hits[t]
  /\ hits[0] + Cardinality(Sent) <= MaxHits

LEMMA QuotesCardinality == \A S : Quotes!Cardinality(S) = Cardinality(S)
BY DEF Quotes!Cardinality, Cardinality

\* How the number of requests on their way follows the handlers.
LEMMA SentFinite ==
  ASSUME Quotes!TypeOK
  PROVE  IsFiniteSet(Sent) /\ Cardinality(Sent) \in Nat
BY QuotesAssumption, FS_Subset, FS_CardinalityType DEF Sent

LEMMA SentNext ==
  ASSUME Quotes!TypeOK, NEW h \in Handlers, NEW to,
         handler' = [handler EXCEPT ![h] = to]
  PROVE  /\ handler[h] # "sent" /\ to # "sent" => Sent' = Sent
         /\ handler[h] # "sent" /\ to = "sent" => Cardinality(Sent') = Cardinality(Sent) + 1
         /\ handler[h] = "sent" /\ to # "sent" => Cardinality(Sent') = Cardinality(Sent) - 1
<1>1. CASE handler[h] # "sent" /\ to # "sent"
  BY <1>1 DEF Sent, Quotes!TypeOK
<1>2. CASE handler[h] # "sent" /\ to = "sent"
  <2>1. Sent' = Sent \union {h} /\ h \notin Sent
    BY <1>2 DEF Sent, Quotes!TypeOK
  <2> QED BY <1>2, <2>1, SentFinite, FS_AddElement
<1>3. CASE handler[h] = "sent" /\ to # "sent"
  <2>1. Sent' = Sent \ {h} /\ h \in Sent
    BY <1>3 DEF Sent, Quotes!TypeOK
  <2> QED BY <1>3, <2>1, SentFinite, FS_RemoveElement
<1> QED BY <1>1, <1>2, <1>3

LEMMA HitsInit == Quotes!Init => HitsInv
<1> SUFFICES ASSUME Quotes!Init PROVE HitsInv
  OBVIOUS
<1> USE QuotesAssumption, NoticeAssumption
<1>1. Quotes!TypeOK
  BY DEF Quotes!Init, Quotes!TypeOK
<1>2. Sent = {}
  BY DEF Quotes!Init, Sent
<1> QED BY <1>1, <1>2, FS_EmptySet DEF HitsInv, Quotes!Init

LEMMA HitsNext == HitsInv /\ [Quotes!Next]_(Quotes!qvars) => HitsInv'
<1> SUFFICES ASSUME HitsInv, [Quotes!Next]_(Quotes!qvars) PROVE HitsInv'
  OBVIOUS
<1> USE QuotesAssumption, NoticeAssumption
<1>0. Quotes!TypeOK /\ Cardinality(Sent) \in Nat
  BY SentFinite DEF HitsInv
\* The conjuncts of HitsInv about the counts follow from their order and sum.
<1>1. ASSUME hits' \in [0..MaxTtl -> Nat],
             \A t \in 0..MaxTtl, u \in 0..MaxTtl : t <= u => hits'[u] <= hits'[t],
             Cardinality(Sent') \in Nat, hits'[0] + Cardinality(Sent') <= MaxHits
      PROVE  hits' \in [0..MaxTtl -> 0..MaxHits]
  <2>1. \A t \in 0..MaxTtl : hits'[t] \in 0..MaxHits
    BY <1>1
  <2> QED BY <1>1, <2>1
<1>2. ASSUME NEW h \in Handlers, Quotes!Guard(h) PROVE HitsInv'
  <2> DEFINE total == Quotes!TotalHits + 1
  <2>1. /\ handler[h] = "sent"
        /\ UNCHANGED <<ttl, page, sameOrigin, cooldown, saved, reloads, failed>>
    BY <1>2 DEF Quotes!Guard
  <2>2. PICK to \in {"refused", "allowed"} : handler' = [handler EXCEPT ![h] = to]
    BY <1>2 DEF Quotes!Guard
  <2>3. Cardinality(Sent') = Cardinality(Sent) - 1
    BY <1>0, <2>1, <2>2, SentNext
  <2>4. Quotes!TimeToExpire \in 0..MaxTtl /\ window' = Quotes!TimeToExpire
    BY <1>0, <1>2 DEF Quotes!TypeOK, Quotes!TimeToExpire, Quotes!Guard
  <2>5. wait' \in [Handlers -> 0..MaxTtl] /\ answer' \in {"ok", "429"}
    BY <1>0, <1>2, <2>4 DEF Quotes!TypeOK, Quotes!Guard
  <2>6. Quotes!Counted \in 1..MaxTtl
    BY <1>0 DEF Quotes!Counted, Quotes!TypeOK
  <2>7. hits' = [t \in 0..MaxTtl |-> IF t < Quotes!Counted THEN hits[t] + 1 ELSE hits[t]]
    BY <1>2 DEF Quotes!Guard
  <2>8. /\ hits' \in [0..MaxTtl -> Nat] /\ hits'[0] = hits[0] + 1
        /\ \A t \in 0..MaxTtl, u \in 0..MaxTtl : t <= u => hits'[u] <= hits'[t]
    BY <1>0, <2>6, <2>7 DEF HitsInv, Quotes!TypeOK
  <2>9. Cardinality(Sent') \in Nat /\ hits'[0] + Cardinality(Sent') <= MaxHits
    <3>1. handler' \in [Handlers -> {"idle", "sent", "refused", "allowed", "limited"}]
      BY <1>0, <2>2 DEF Quotes!TypeOK
    <3>2. IsFiniteSet(Sent')
      BY FS_Subset DEF Sent
    <3> QED BY <1>0, <2>3, <2>8, <3>2, FS_CardinalityType DEF HitsInv, Quotes!TypeOK
  <2> QED BY <1>0, <1>1, <2>1, <2>2, <2>4, <2>5, <2>8, <2>9 DEF HitsInv, Quotes!TypeOK
<1>3. ASSUME NEW h \in Handlers, Quotes!Click(h) PROVE HitsInv'
  <2>1. /\ handler[h] = "idle" /\ handler' = [handler EXCEPT ![h] = "sent"]
        /\ UNCHANGED <<ttl, page, sameOrigin, hits, window, wait, cooldown, saved, answer,
                       reloads, failed>>
        /\ hits[0] + Cardinality(Sent) < MaxHits
    BY <1>3, QuotesCardinality DEF Quotes!Click, Quotes!TotalHits, Sent
  <2>2. Cardinality(Sent') = Cardinality(Sent) + 1
    BY <1>0, <2>1, SentNext
  <2> QED BY <1>0, <2>1, <2>2 DEF HitsInv, Quotes!TypeOK
<1>4. ASSUME NEW h \in Handlers, Quotes!Load(h) \/ Quotes!Submitted(h) PROVE HitsInv'
  <2>1. /\ handler[h] # "sent"
        /\ UNCHANGED <<ttl, page, sameOrigin, hits, window, wait, cooldown, saved, answer,
                       reloads, failed>>
        /\ \E to \in {"limited", "idle"} : handler' = [handler EXCEPT ![h] = to]
    BY <1>4 DEF Quotes!Load, Quotes!Submitted
  <2>2. Sent' = Sent
    <3>1. PICK to \in {"limited", "idle"} : handler' = [handler EXCEPT ![h] = to]
      BY <2>1
    <3>2. to # "sent"
      OBVIOUS
    <3> QED BY <1>0, <2>1, <3>1, <3>2, SentNext
  <2> QED BY <1>0, <2>1, <2>2 DEF HitsInv, Quotes!TypeOK
<1>5. ASSUME NEW h \in Handlers, Quotes!StartCooldown(h) PROVE HitsInv'
  <2>1. /\ handler[h] # "sent" /\ handler' = [handler EXCEPT ![h] = "idle"]
        /\ UNCHANGED <<ttl, page, sameOrigin, hits, window, answer, reloads, failed>>
        /\ cooldown' = Quotes!RetryAfter(wait[h]) /\ saved' = cooldown'
        /\ wait' = [wait EXCEPT ![h] = 0] /\ "idle" # "sent"
    BY <1>5 DEF Quotes!StartCooldown
  <2>2. Sent' = Sent
    BY ONLY <1>0, <2>1, SentNext, h \in Handlers
  <2>3. cooldown' \in 0..(MaxTtl + DefaultWait) /\ wait' \in [Handlers -> 0..MaxTtl]
    BY <1>0, <2>1 DEF Quotes!TypeOK, Quotes!RetryAfter
  <2> QED BY <1>0, <2>1, <2>2, <2>3 DEF HitsInv, Quotes!TypeOK
<1>6. CASE Quotes!Reload
  <2>1. Sent' = {}
    BY <1>6 DEF Quotes!Reload, Sent
  <2> QED BY <1>0, <1>6, <2>1, FS_EmptySet DEF HitsInv, Quotes!TypeOK, Quotes!Reload
<1>7. CASE Quotes!Tick
  <2>1. /\ Sent' = Sent
        /\ UNCHANGED <<ttl, page, sameOrigin, handler, wait, answer, reloads, failed>>
    BY <1>7 DEF Quotes!Tick, Sent
  <2>2. hits' = [t \in 0..MaxTtl |-> IF t = MaxTtl THEN 0 ELSE hits[t + 1]]
    BY <1>7 DEF Quotes!Tick
  <2>3. \A t \in 0..MaxTtl : t # MaxTtl => t + 1 \in 0..MaxTtl
    OBVIOUS
  <2>4. hits' \in [0..MaxTtl -> Nat]
    BY <1>0, <2>2, <2>3 DEF Quotes!TypeOK
  <2>5. \A t \in 0..MaxTtl, u \in 0..MaxTtl : t <= u => hits'[u] <= hits'[t]
    BY <1>0, <2>2, <2>3 DEF HitsInv, Quotes!TypeOK
  <2>6. hits'[0] = hits[1] /\ hits[1] <= hits[0] /\ hits[1] \in Nat /\ hits[0] \in Nat
    BY <1>0, <2>2 DEF HitsInv, Quotes!TypeOK
  <2>7. hits'[0] + Cardinality(Sent') <= MaxHits
    BY <1>0, <2>1, <2>6 DEF HitsInv
  <2>8. /\ window' \in 0..MaxTtl /\ cooldown' \in 0..(MaxTtl + DefaultWait) /\ saved' = cooldown'
    BY <1>0, <1>7 DEF Quotes!Tick, Quotes!Less, Quotes!TypeOK
  <2> QED BY <1>0, <1>1, <2>1, <2>4, <2>5, <2>7, <2>8 DEF HitsInv, Quotes!TypeOK
<1>8. ASSUME NEW h \in Handlers, Quotes!FetchFails(h) PROVE HitsInv'
  <2>1. /\ handler' = [handler EXCEPT ![h] = "idle"] /\ "idle" # "sent"
        /\ wait' = [wait EXCEPT ![h] = 0] /\ failed' \in 0..MaxFailures
        /\ UNCHANGED <<ttl, page, sameOrigin, hits, window, cooldown, saved, answer, reloads>>
    BY <1>0, <1>8 DEF Quotes!FetchFails, Quotes!TypeOK
  <2>2. CASE handler[h] = "sent"
    \* Less is on its way.
    <3>1. Cardinality(Sent') = Cardinality(Sent) - 1
      BY ONLY <1>0, <2>1, <2>2, SentNext, h \in Handlers
    <3>2. Cardinality(Sent') \in Nat
      <4>1. IsFiniteSet(Sent')
        BY QuotesAssumption, FS_Subset DEF Sent
      <4> QED BY <4>1, FS_CardinalityType
    <3> QED BY <1>0, <2>1, <3>1, <3>2 DEF HitsInv, Quotes!TypeOK
  <2>3. CASE handler[h] # "sent"
    <3>1. Sent' = Sent
      BY ONLY <1>0, <2>1, <2>3, SentNext, h \in Handlers
    <3> QED BY <1>0, <2>1, <3>1 DEF HitsInv, Quotes!TypeOK
  <2> QED BY <2>2, <2>3
<1>9. CASE UNCHANGED Quotes!qvars
  BY <1>9 DEF Quotes!qvars, HitsInv, Quotes!TypeOK, Sent
<1> QED BY <1>2, <1>3, <1>4, <1>5, <1>6, <1>7, <1>8, <1>9
        DEF Quotes!Next, Quotes!Accept, Quotes!AcceptStatic, Quotes!Submit, Quotes!SubmitStatic

\* Every part keeps its types and bounds: in particular the requests of the
\* quotes page that count never pass the bound that Click keeps.
THEOREM DeliveryTypes == Spec => []TypeOK
<1>1. Init => Notice!TypeOK /\ Socket!TypeOK /\ AccountTypes /\ HitsInv
  BY PartInits, NoticeTypesInit, SocketTypesInit, AccountTypesInit, HitsInit
<1>2. Notice!TypeOK /\ [Next]_vars => Notice!TypeOK'
  BY PartSteps, NoticeTypesNext
<1>3. Socket!TypeOK /\ [Next]_vars => Socket!TypeOK'
  BY PartSteps, SocketTypesNext
<1>4. AccountTypes /\ [Next]_vars => AccountTypes'
  BY PartSteps, AccountTypesNext
<1>5. HitsInv /\ [Next]_vars => HitsInv'
  BY PartSteps, HitsNext
<1>6. Notice!TypeOK /\ Socket!TypeOK /\ AccountTypes /\ Charging!TypeOK /\ HitsInv => TypeOK
  BY DEF TypeOK, AccountTypes, HitsInv
<1> QED BY <1>1, <1>2, <1>3, <1>4, <1>5, <1>6, ChargeTyped, PTL DEF Spec

=============================================================================
