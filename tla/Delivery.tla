-------------------------------- MODULE Delivery --------------------------------
(***************************************************************************)
(* What must arrive in the end, side by side: notices of the parties of a  *)
(* job, the presence of a user, Stripe's events about accounts and about   *)
(* charges, and the requests of a page that is rate limited.  The parts    *)
(* share no state but the configuration.  A behaviour is one of one part,  *)
(* which part tells; the others stay in their initial state, so that the   *)
(* states of the parts add up and do not multiply.                         *)
(***************************************************************************)
EXTENDS Integers, FiniteSets

CONSTANTS
  Customer, Providers, Tokens, None, MaxEvents, MaxFailures,  \* Notifications
  Sockets, Reconcilers, Pings,                              \* Presence
  Accounts, Transfers, Requests, RawBody,                   \* ProviderAccount
  Intents, Charge,                                          \* Payments
  Handlers, Limit, DefaultWait, MaxTtl, MaxHits, MaxReloads \* QuotesPage

ASSUME NoticeAssumption == MaxEvents \in Nat /\ MaxFailures \in Nat
ASSUME SocketAssumption == Pings \in Nat /\ Pings >= 2 /\ MaxFailures \in Nat
ASSUME AccountAssumption == None \notin Accounts /\ RawBody \in BOOLEAN
ASSUME ChargeAssumption ==
  /\ Charge \in Nat \ {0} /\ None \notin Intents /\ IsFiniteSet(Requests)
ASSUME QuotesAssumption ==
  /\ Limit \in Nat /\ MaxTtl \in Nat \ {0} /\ DefaultWait \in Nat
  /\ MaxHits \in Nat /\ MaxReloads \in Nat /\ IsFiniteSet(Handlers)

VARIABLES
  part,
  onlineProviders, assignment, device, dead, notices, event, sends, dropping, leaving,
  missed, sendFailures,
  redis, connected, opening, closing, timer, online, alive, reconciling, undisturbed,
  unanswered, failures,
  secretSet, provider, account, cleared, transfer, payout, call, events,
  row, intent, dispute, failedOnce, refunded, secrets, recorded, chargeEvents, handled, reqs,
  ttl, page, sameOrigin, hits, window, handler, wait, cooldown, saved, answer, reloads, failed

Notice == INSTANCE Notifications WITH online <- onlineProviders, failures <- sendFailures
Socket == INSTANCE Presence
Account == INSTANCE ProviderAccount
Charging == INSTANCE Payments WITH events <- chargeEvents
Quotes == INSTANCE QuotesPage

Init ==
  /\ part \in {"notice", "socket", "account", "charge", "page"}
  /\ Notice!Init /\ onlineProviders = IF part = "notice" THEN Providers ELSE {}
  /\ Socket!Init /\ (part # "socket" => redis)
  /\ Account!Init /\ Charging!Init /\ (part \notin {"account", "charge"} => secretSet)
  /\ Quotes!Init /\ (part # "page" => page = "form" /\ sameOrigin /\ ttl = 1)

NoticeVars == <<onlineProviders, assignment, device, dead, notices, event, sends, dropping,
                leaving, missed, sendFailures>>
SocketVars == <<redis, connected, opening, closing, timer, online, alive, reconciling,
                undisturbed, unanswered, failures>>
AccountVars == <<provider, account, cleared, transfer, payout, call, events>>
ChargeVars == <<row, intent, dispute, failedOnce, refunded, secrets, recorded, chargeEvents,
                handled, reqs>>
PageVars == <<ttl, page, sameOrigin, hits, window, handler, wait, cooldown, saved, answer,
              reloads, failed>>
vars == <<part, secretSet, NoticeVars, SocketVars, AccountVars, ChargeVars, PageVars>>

Next ==
  /\ UNCHANGED <<part, secretSet>>
  /\ IF part = "notice" THEN Notice!Next ELSE UNCHANGED NoticeVars
  /\ IF part = "socket" THEN Socket!Next ELSE UNCHANGED SocketVars
  /\ IF part = "account" THEN Account!Next ELSE UNCHANGED AccountVars
  /\ IF part = "charge" THEN Charging!Next ELSE UNCHANGED ChargeVars
  /\ IF part = "page" THEN Quotes!Next ELSE UNCHANGED PageVars

\* The fairness of each part, while it is the part that moves.
Fairness ==
  /\ \A e \in 1..MaxEvents : WF_NoticeVars(part = "notice" /\ Notice!Tell(e))
  /\ WF_NoticeVars(part = "notice" /\ \E s \in sends : Notice!ReadTokens(s) \/ Notice!Push(s))
  /\ \A s \in Sockets : WF_SocketVars(part = "socket" /\ Socket!Handle(s))
  /\ WF_SocketVars(part = "socket" /\ Socket!Tick)
  /\ WF_SocketVars(part = "socket" /\ Socket!ReconcileInMemory)
  /\ \A r \in Reconcilers :
       WF_SocketVars(part = "socket" /\ (Socket!ReconcileLook(r) \/ Socket!ReconcileRemove(r)))
  /\ \A i \in Intents : WF_ChargeVars(part = "charge" /\ Charging!Report(i))
  /\ \A h \in Handlers : WF_PageVars(part = "page" /\ Quotes!Proceed(h))
  /\ WF_PageVars(part = "page" /\ Quotes!Tick)
  /\ WF_PageVars(part = "page" /\ \E h \in Handlers : Quotes!Click(h))

Spec == Init /\ [][Next]_vars /\ Fairness

(* The variables of every part have their types. *)
TypeOK == Notice!TypeOK /\ Socket!TypeOK /\ Account!TypeOK /\ Charging!TypeOK /\ Quotes!TypeOK

\* The properties of the parts, under their own names.
PushedToOwner == Notice!PushedToOwner
NoLiveTokenDropped == Notice!NoLiveTokenDropped
EveryPartyTold == Notice!EveryPartyTold
OpenIsOnline == Socket!OpenIsOnline
StalePruned == Socket!StalePruned
VerifiedByOwnAccount == Account!VerifiedByOwnAccount
PayoutsAreTransfers == Account!PayoutsAreTransfers
ChargeHasRow == Charging!ChargeHasRow
StatusHappened == Charging!StatusHappened
ChargeRecorded == Charging!ChargeRecorded
PatientUserGetsThrough == Quotes!PatientUserGetsThrough

=============================================================================
