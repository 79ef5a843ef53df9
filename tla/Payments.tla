-------------------------------- MODULE Payments --------------------------------
(***************************************************************************)
(* PaymentsService and StripeWebhookController with Stripe configured: the *)
(* charge of one job (create the intent, refund) and the webhooks that     *)
(* report what became of it.                                               *)
(*                                                                         *)
(* An API call awaits Stripe and then the database, so it is two or three  *)
(* actions, and a process may die in between.  Stripe delivers an event at *)
(* least once and in any order: events is the set of those it still means  *)
(* to deliver, and a delivery whose acknowledgement is lost leaves its     *)
(* event there.  A webhook handler looks its row up and then writes it by  *)
(* id; rows are never deleted and a payment keeps its intent, so the two   *)
(* statements are one action.                                              *)
(*                                                                         *)
(* capturePayment changes nothing and has no action: intents are created   *)
(* without manual capture, so that none ever waits for one and Stripe      *)
(* refuses the call.                                                       *)
(***************************************************************************)
EXTENDS Integers, FiniteSets

CONSTANTS
  Intents,        \* Stripe PaymentIntent ids
  None,           \* stands for a null id, and is no intent
  Requests,       \* slots for API calls being served at the same time, finitely many
  RawBody,        \* does a request carry rawBody?  As main.ts creates the
                  \* application it does not; the unit tests set it
  Charge          \* the amount of a charge, in units of a refund

VARIABLES
  row,            \* the job's Payment row
  secretSet,      \* is STRIPE_WEBHOOK_SECRET set?
  intent,         \* Stripe: the state of each PaymentIntent
  dispute,        \* Stripe: the dispute of each charge
  failedOnce,     \* Stripe, history: intents a payment attempt of which failed
  refunded,       \* Stripe: what was refunded of the charge
  secrets,        \* intents whose client secret was returned to the customer
  recorded,       \* Refund rows
  events,         \* Stripe: the events still to deliver
  handled,        \* history: the events of these handled already
  reqs            \* the API call each slot is serving

stripeVars == <<intent, dispute, failedOnce, refunded>>
vars == <<row, secretSet, stripeVars, secrets, recorded,
          events, handled, reqs>>

-----------------------------------------------------------------------------
(* Rows, calls and events *)

NoPayment == [exists |-> FALSE, intent |-> None, status |-> "none",
              captured |-> FALSE]

Idle == [op |-> "none", pc |-> "idle", of |-> None]

At(r, op, pc) == reqs[r].op = op /\ reqs[r].pc = pc

Serve(r, op, pc, x) ==
  reqs' = [reqs EXCEPT ![r] = [op |-> op, pc |-> pc, of |-> x]]

Done(r) == reqs' = [reqs EXCEPT ![r] = Idle]

ChargeEvents == {"payment_intent.succeeded", "payment_intent.payment_failed",
                 "charge.dispute.created", "charge.dispute.won",
                 "charge.dispute.lost", "charge.dispute.warning_closed"}

\* charge.dispute.closed is three events, for the status the dispute has in it.
Events == [type : ChargeEvents, of : Intents]

Emit(type, x) == events' = events \cup {[type |-> type, of |-> x]}

Init ==
  /\ row = NoPayment
  /\ secretSet \in BOOLEAN
  /\ intent = [i \in Intents |-> "none"]
  /\ dispute = [i \in Intents |-> "none"]
  /\ failedOnce = {}
  /\ refunded = 0
  /\ secrets = {}
  /\ recorded = 0
  /\ events = {} /\ handled = {}
  /\ reqs = [r \in Requests |-> Idle]

-----------------------------------------------------------------------------
(* createPaymentIntent *)

CreateIntentStripe(r, i) ==
  /\ reqs[r] = Idle
  /\ intent[i] = "none"
  /\ intent' = [intent EXCEPT ![i] = "requires_payment_method"]
  /\ Serve(r, "createPaymentIntent", "insert", i)
  /\ UNCHANGED <<row, secretSet, dispute, failedOnce, refunded,
                 secrets, recorded, events, handled>>

\* Mutant: the client secret is returned whether or not the row was created.
SecretsAfterInsert(i) == secrets \cup {i}

\* payment.create fails on the unique jobId when the job has a payment, and
\* with it the call: the client secret is returned only behind a row.
SecretsAfter(i) == IF row.exists THEN secrets ELSE secrets \cup {i}

CreateIntentInsert(r) ==
  LET i == reqs[r].of IN
  /\ At(r, "createPaymentIntent", "insert")
  /\ row' = IF row.exists THEN row
            ELSE [NoPayment EXCEPT !.exists = TRUE, !.intent = i,
                                   !.status = "requires_payment_method"]
  /\ secrets' = SecretsAfter(i)
  /\ Done(r)
  /\ UNCHANGED <<secretSet, stripeVars, recorded, events,
                 handled>>

-----------------------------------------------------------------------------
(* handleCustomerVerification *)

\* upsert: whatever the status was, it is capture_pending now.
VerifyPayment ==
  /\ row' = [row EXCEPT !.exists = TRUE, !.status = "capture_pending"]
  /\ UNCHANGED <<secretSet, stripeVars, secrets, recorded,
                 events, handled, reqs>>

-----------------------------------------------------------------------------
(* refundPayment, for a part of the charge *)

\* The row is read and Stripe, which refunds what was charged and not refunded
\* yet, is called: the intent read never changes, so this is one action.
RefundStripe(r) ==
  /\ reqs[r] = Idle
  /\ row.exists /\ row.intent # None
  /\ intent[row.intent] = "succeeded" /\ refunded < Charge
  /\ refunded' = refunded + 1
  /\ Serve(r, "refundPayment", "record", row.intent)
  /\ UNCHANGED <<row, secretSet, intent, dispute, failedOnce,
                 secrets, recorded, events, handled>>

RefundRecord(r) ==
  /\ At(r, "refundPayment", "record")
  /\ recorded' = recorded + 1
  /\ Done(r)
  /\ UNCHANGED <<row, secretSet, stripeVars, secrets,
                 events, handled>>

\* The process serving r dies, or its database call fails.
Crash(r) ==
  /\ reqs[r] # Idle
  /\ Done(r)
  /\ UNCHANGED <<row, secretSet, stripeVars, secrets, recorded,
                 events, handled>>

-----------------------------------------------------------------------------
(* Stripe *)

\* The customer confirms the intent with its secret; the attempt may fail.
Pay(i) ==
  /\ i \in secrets /\ intent[i] = "requires_payment_method"
  /\ \/ /\ intent' = [intent EXCEPT ![i] = "succeeded"]
        /\ Emit("payment_intent.succeeded", i)
        /\ UNCHANGED failedOnce
     \/ /\ failedOnce' = failedOnce \cup {i}
        /\ Emit("payment_intent.payment_failed", i)
        /\ UNCHANGED intent
  /\ UNCHANGED <<row, secretSet, dispute, refunded,
                 secrets, recorded, handled, reqs>>

\* The customer's bank disputes a charge, or asks about it, and decides; a
\* question that comes to nothing is closed as warning_closed.
Dispute(i) ==
  /\ intent[i] = "succeeded"
  /\ \/ /\ dispute[i] = "none"
        /\ dispute' = [dispute EXCEPT ![i] = "open"]
        /\ Emit("charge.dispute.created", i)
     \/ /\ dispute[i] = "open"
        /\ \/ /\ dispute' = [dispute EXCEPT ![i] = "won"]
              /\ Emit("charge.dispute.won", i)
           \/ /\ dispute' = [dispute EXCEPT ![i] = "lost"]
              /\ Emit("charge.dispute.lost", i)
           \/ /\ dispute' = [dispute EXCEPT ![i] = "warning_closed"]
              /\ Emit("charge.dispute.warning_closed", i)
  /\ UNCHANGED <<row, secretSet, intent, failedOnce,
                 refunded, secrets, recorded, handled, reqs>>

-----------------------------------------------------------------------------
(* handleWebhook *)

\* Mutant: a success reported for a payment in another status is dropped.
RowWhenPending ==
  IF row.status = "requires_payment_method"
  THEN [row EXCEPT !.status = "succeeded", !.captured = TRUE]
  ELSE row

RowSucceeded == [row EXCEPT !.status = "succeeded", !.captured = TRUE]

\* Mutant: the outcomes are exchanged.
SwappedClosedStatus(e) ==
  IF e.type = "charge.dispute.won" THEN "dispute_lost" ELSE "succeeded"

\* Every outcome but won counts as lost.
ClosedStatus(e) ==
  IF e.type = "charge.dispute.won" THEN "succeeded" ELSE "dispute_lost"

\* What a charge event leaves, whatever the status was; an event of another
\* intent finds no row.
RowAfter(e) ==
  IF row.intent # e.of THEN row
  ELSE CASE e.type = "payment_intent.succeeded" -> RowSucceeded
         [] e.type = "payment_intent.payment_failed" ->
              [row EXCEPT !.status = "failed"]
         [] e.type = "charge.dispute.created" -> [row EXCEPT !.status = "disputed"]
         [] OTHER -> [row EXCEPT !.status = ClosedStatus(e)]

\* The event is verified with the secret against the bytes received.
Verified == secretSet /\ RawBody

\* Without a secret nothing is looked at and the answer is 201; with one, an
\* event that cannot be verified is answered 400.  That changes nothing, and
\* Stripe sends it again, so it is not a step.
Answered == secretSet => RawBody

\* An event is answered; Stripe drops it if the answer arrives, and keeps it
\* otherwise.  An event whose row is not found is acknowledged too.
Handle(e, left) ==
  /\ e \in events
  /\ Answered
  /\ events' = left
  /\ handled' = (handled \cup {e}) \cap left
  /\ row' = IF Verified THEN RowAfter(e) ELSE row
  /\ UNCHANGED <<secretSet, stripeVars, secrets, recorded, reqs>>

Acknowledge(e) == Handle(e, events \ {e})

LoseAcknowledgement(e) == Handle(e, events)

-----------------------------------------------------------------------------
Call(r) ==
  \/ \E i \in Intents : CreateIntentStripe(r, i)
  \/ CreateIntentInsert(r)
  \/ RefundStripe(r) \/ RefundRecord(r)

Webhook == \E e \in events : Acknowledge(e) \/ LoseAcknowledgement(e)

Next ==
  \/ \E r \in Requests : Call(r) \/ Crash(r)
  \/ VerifyPayment
  \/ \E i \in Intents : Pay(i) \/ Dispute(i)
  \/ Webhook

Spec == Init /\ [][Next]_vars

\* Stripe delivers the event of a charge until it is acknowledged.
Report(i) == Acknowledge([type |-> "payment_intent.succeeded", of |-> i])

FairSpec == Spec /\ \A i \in Intents : WF_vars(Report(i))

-----------------------------------------------------------------------------
(* Properties *)

PaymentStatuses == {"none", "requires_payment_method", "capture_pending",
                    "succeeded", "failed", "disputed", "dispute_lost"}

\* Rows, Stripe's objects, events and calls hold values of their types.
TypeOK ==
  /\ row \in [exists : BOOLEAN, intent : Intents \cup {None},
              status : PaymentStatuses, captured : BOOLEAN]
  /\ secretSet \in BOOLEAN
  /\ intent \in [Intents -> {"none", "requires_payment_method", "succeeded"}]
  /\ dispute \in [Intents -> {"none", "open", "won", "lost", "warning_closed"}]
  /\ failedOnce \subseteq Intents
  /\ refunded \in 0..Charge
  /\ secrets \subseteq Intents
  /\ recorded \in Nat
  /\ events \subseteq Events /\ handled \subseteq events
  /\ reqs \in [Requests -> {Idle} \cup
                [op : {"createPaymentIntent", "refundPayment"},
                 pc : {"insert", "record"}, of : Intents]]

\* However calls to createPaymentIntent and verifications overlap, fail and are
\* repeated, no intent of the job is charged that its Payment row does not
\* name: the secret leaves the server only behind the row.
ChargeHasRow ==
  \A i \in Intents : intent[i] = "succeeded" => row.intent = i

\* Whatever order, repetition or delay the events have, the status of a payment
\* is of something that did happen to its charge at Stripe.  That dispute_lost
\* means a lost dispute is not so: an inquiry closed without one, which lost
\* nothing, is recorded in the same way.
StatusHappened ==
  LET i == row.intent IN
  i # None =>
    /\ row.status = "succeeded" => intent[i] = "succeeded"
    /\ row.captured => intent[i] = "succeeded"
    /\ row.status = "failed" => i \in failedOnce
    /\ row.status = "disputed" => dispute[i] # "none"
    /\ row.status = "dispute_lost" => dispute[i] \in {"lost", "warning_closed"}

\* A crash between Stripe and the database loses a refund's row, never invents
\* one: no more is recorded as refunded than Stripe refunded.
RefundsAreReal == recorded <= refunded

\* Where events are verified, every charge is recorded in the end, with the time
\* it was made, although its event may come late or twice and the process that
\* made the intent may have died: nothing but the webhook records a charge.
ChargeRecorded ==
  \A i \in Intents :
    Verified /\ intent[i] = "succeeded" ~> row.captured /\ row.intent = i

-----------------------------------------------------------------------------
(* What comments and the playbook say and the code does not do *)

\* apps/api/src/main.ts:5 "Provides raw body for Stripe webhook verification",
\* so that with the secret configured every charge is recorded in the end.  As
\* main.ts is (RawBody FALSE) no event is verified and no charge ever recorded.
ConfiguredChargeRecorded ==
  \A i \in Intents :
    secretSet /\ intent[i] = "succeeded" ~> row.captured /\ row.intent = i

\* apps/web/PLAYBOOK.md: webhook handlers are idempotent.  An event that was
\* handled already does not undo a dispute recorded since.
RedeliveryKeepsDispute ==
  [][\A e \in events :
       e \in handled /\ row.status = "disputed" /\ Acknowledge(e)
         => row' = row]_vars

\* A charge that was made is not shown as failed.  Not so: the event of an
\* earlier attempt may come after that of the charge.
FailedIsNotCharged == row.status = "failed" => intent[row.intent] # "succeeded"

\* A verification does not hide how the charge went.  Not so: the upsert writes
\* capture_pending over succeeded, failed or disputed.
VerificationKeepsOutcome ==
  [][VerifyPayment => row.status \in {"none", "requires_payment_method",
                                      "capture_pending"}]_vars
=============================================================================
