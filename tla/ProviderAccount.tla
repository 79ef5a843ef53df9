---------------------------- MODULE ProviderAccount ----------------------------
(***************************************************************************)
(* A provider's Stripe Connect account and the payouts to it: onboarding   *)
(* in ProvidersService, account.updated events in the providers' webhook   *)
(* controller and createPayout in PaymentsService.  Stripe delivers an     *)
(* event at least once, as late as it likes and in any order.              *)
(*                                                                         *)
(* A Payout row stays in processing.  The payments' webhook has handlers   *)
(* for transfer.paid and transfer.failed, but Stripe has no such events.   *)
(***************************************************************************)
EXTENDS Integers, FiniteSets

CONSTANTS
  Accounts,       \* Connect accounts
  Transfers,      \* transfers
  Requests,       \* onboarding or payout requests in progress at once
  RawBody,        \* does a request carry rawBody?  As main.ts creates the
                  \* application it does not; the unit tests set it
  None            \* no account

VARIABLES
  secretSet,      \* is STRIPE_WEBHOOK_SECRET set?
  provider,       \* the row's stripeAccountId and kycStatus; as a history, the
                  \* accounts it has named
  account,        \* at Stripe: the accounts created
  cleared,        \* history: those that had nothing past due at some time
  transfer,       \* at Stripe: the account each transfer went to
  payout,         \* the status of each Payout row
  call,           \* requests in progress and what they hold
  events          \* events Stripe may deliver (again)

avars == <<secretSet, provider, account, cleared, transfer, payout, call, events>>

Idle == [pc |-> "idle", account |-> None, transfer |-> None]

Init ==
  /\ secretSet \in BOOLEAN
  /\ provider = [account |-> None, kyc |-> "pending", named |-> {}]
  /\ account = {} /\ cleared = {}
  /\ transfer = [t \in Transfers |-> None]
  /\ payout = [t \in Transfers |-> "none"]
  /\ call = [r \in Requests |-> Idle]
  /\ events = {}

-----------------------------------------------------------------------------
(* createOnboardingLink *)

\* ensureProviderProfile finds the row (or creates it: a second creation fails
\* on the unique userId) without an account.
OnboardRead(r) ==
  /\ call[r].pc = "idle" /\ provider.account = None
  /\ call' = [call EXCEPT ![r].pc = "create"]
  /\ UNCHANGED <<secretSet, provider, account, cleared, transfer, payout, events>>

\* stripe.accounts.create: a is an account that did not exist.
OnboardCreate(r, a) ==
  /\ call[r].pc = "create" /\ a \notin account
  /\ account' = account \union {a}
  /\ \E due \in BOOLEAN :
       /\ cleared' = IF due THEN cleared ELSE cleared \union {a}
       /\ events' = events \union {[type |-> "account.updated", of |-> a, due |-> due]}
  /\ call' = [call EXCEPT ![r].pc = "store", ![r].account = a]
  /\ UNCHANGED <<secretSet, provider, transfer, payout>>

\* The update does not look whether the row has an account meanwhile.
OnboardStore(r) ==
  /\ call[r].pc = "store"
  /\ provider' = [provider EXCEPT !.account = call[r].account,
                                  !.named = @ \union {call[r].account}]
  /\ call' = [call EXCEPT ![r] = Idle]
  /\ UNCHANGED <<secretSet, account, cleared, transfer, payout, events>>

-----------------------------------------------------------------------------
(* createPayout *)

PayoutRead(r) ==
  /\ call[r].pc = "idle" /\ provider.account # None
  /\ call' = [call EXCEPT ![r].pc = "transfer", ![r].account = provider.account]
  /\ UNCHANGED <<secretSet, provider, account, cleared, transfer, payout, events>>

\* Mutant: the row is written before the transfer is made.
RowBeforeTransfer(r, t) ==
  /\ call[r].pc = "transfer" /\ transfer[t] = None
  /\ payout' = [payout EXCEPT ![t] = "processing"]
  /\ call' = [call EXCEPT ![r].pc = "record", ![r].transfer = t]
  /\ UNCHANGED <<secretSet, provider, account, cleared, transfer, events>>

\* transfers.create
PayoutTransfer(r, t) ==
  /\ call[r].pc = "transfer" /\ transfer[t] = None
  /\ transfer' = [transfer EXCEPT ![t] = call[r].account]
  /\ call' = [call EXCEPT ![r].pc = "record", ![r].transfer = t]
  /\ UNCHANGED <<secretSet, provider, account, cleared, payout, events>>

PayoutRecord(r) ==
  /\ call[r].pc = "record"
  /\ payout' = [payout EXCEPT ![call[r].transfer] = "processing"]
  /\ call' = [call EXCEPT ![r] = Idle]
  /\ UNCHANGED <<secretSet, provider, account, cleared, transfer, events>>

\* An error of Stripe or of the database, or a crash: the request ends here.
CallFails(r) ==
  /\ call[r].pc # "idle"
  /\ call' = [call EXCEPT ![r] = Idle]
  /\ UNCHANGED <<secretSet, provider, account, cleared, transfer, payout, events>>

-----------------------------------------------------------------------------
(* Stripe *)

\* The provider fills in, or misses, a requirement.
AccountUpdated(a) ==
  /\ a \in account
  /\ \E due \in BOOLEAN :
       /\ cleared' = IF due THEN cleared ELSE cleared \union {a}
       /\ events' = events \union {[type |-> "account.updated", of |-> a, due |-> due]}
  /\ UNCHANGED <<secretSet, provider, account, transfer, payout, call>>

\* An event that was acknowledged may be delivered once more all the same.
Forget(e) ==
  /\ events' \in {events, events \ {e}}

-----------------------------------------------------------------------------
(* The webhook for accounts *)

\* Mutant: the account of the event is not compared with the row's.
KycOfAnyAccount(e) == IF e.due THEN "pending" ELSE "verified"

\* updateMany where stripeAccountId is the event's account.
KycAfter(e) ==
  IF provider.account # e.of THEN provider.kyc
  ELSE IF e.due THEN "pending" ELSE "verified"

\* Without a secret every body is taken for an event; with one, what cannot be
\* verified against the bytes received is dropped.
Taken == secretSet => RawBody

\* The answer is 201 in any case, so that a dropped event does not come again.
HandleAccountUpdated(e) ==
  /\ e.type = "account.updated"
  /\ provider' = [provider EXCEPT !.kyc = IF Taken THEN KycAfter(e) ELSE @]
  /\ Forget(e)
  /\ UNCHANGED <<secretSet, account, cleared, transfer, payout, call>>

\* Without a secret: a body that Stripe did not send.
HandleUnsigned(a, due) ==
  /\ ~secretSet
  /\ provider' = [provider EXCEPT
       !.kyc = KycAfter([type |-> "account.updated", of |-> a, due |-> due])]
  /\ UNCHANGED <<secretSet, account, cleared, transfer, payout, call, events>>

-----------------------------------------------------------------------------
Next ==
  \/ \E r \in Requests :
       \/ OnboardRead(r) \/ OnboardStore(r) \/ PayoutRead(r) \/ PayoutRecord(r)
       \/ CallFails(r)
       \/ \E a \in Accounts : OnboardCreate(r, a)
       \/ \E t \in Transfers : PayoutTransfer(r, t)
  \/ \E a \in Accounts : AccountUpdated(a)
  \/ \E e \in events : HandleAccountUpdated(e)
  \/ \E a \in Accounts, due \in BOOLEAN : HandleUnsigned(a, due)

Spec == Init /\ [][Next]_avars

-----------------------------------------------------------------------------
(* Rows, Stripe's objects and events have their types. *)
TypeOK ==
  /\ secretSet \in BOOLEAN
  /\ provider \in [account : Accounts \union {None}, kyc : {"pending", "verified"},
                   named : SUBSET Accounts]
  /\ account \subseteq Accounts /\ cleared \subseteq account
  /\ transfer \in [Transfers -> Accounts \union {None}]
  /\ payout \in [Transfers -> {"none", "processing"}]
  /\ call \in [Requests -> [pc : {"idle", "create", "store", "transfer", "record"},
                            account : Accounts \union {None},
                            transfer : Transfers \union {None}]]
  /\ events \subseteq [type : {"account.updated"}, of : Accounts, due : BOOLEAN]

(* With a secret, a provider is verified only through an account that had      *)
(* nothing past due.  Two onboarding requests that overlap create two          *)
(* accounts, and an account the row named between them may have been the one;  *)
(* an account that never was the row's does not count, whatever order the      *)
(* events come in.  Without a secret, which the code calls dev mode, nothing   *)
(* is promised: any body verifies.                                             *)
VerifiedByOwnAccount ==
  secretSet /\ provider.kyc = "verified" => provider.named \intersect cleared # {}

(* A payout on record was transferred, wherever requests die, and to an        *)
(* account the provider's row had named, although onboarding may have replaced *)
(* it since the request read it.  (A transfer may be left without a row.)      *)
PayoutsAreTransfers ==
  \A t \in Transfers : payout[t] # "none" => transfer[t] \in provider.named

=============================================================================
