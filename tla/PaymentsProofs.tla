---------------------------- MODULE PaymentsProofs ----------------------------
(***************************************************************************)
(* Theorems about Payments, for every set of intents and of calls in       *)
(* flight, and for every order, repetition and delay of Stripe's events.   *)
(***************************************************************************)
EXTENDS Payments, FiniteSetTheorems, TLAPS

\* What the theorems need of the constants: a charge is of something, no intent
\* is the null id, and finitely many calls are served at a time.
Parameters ==
  Charge \in Nat \ {0} /\ None \notin Intents /\ IsFiniteSet(Requests)

-----------------------------------------------------------------------------
(* Type correctness *)

LEMMA InitType == Parameters /\ Init => TypeOK
<1> SUFFICES ASSUME Parameters, Init PROVE TypeOK
  OBVIOUS
<1>1. row \in [exists : BOOLEAN, intent : Intents \cup {None},
              status : PaymentStatuses, captured : BOOLEAN]
  BY DEF Init, NoPayment, PaymentStatuses
<1>2. 0 \in 0..Charge /\ 0 \in Nat
  BY DEF Parameters
<1>3. secretSet \in BOOLEAN
  BY DEF Init
<1> QED BY <1>1, <1>2, <1>3 DEF Init, TypeOK

\* Rows, Stripe's objects, events and calls keep values of their types.
THEOREM PaymentTypes == ASSUME Parameters PROVE Spec => []TypeOK
<1>1. Init => TypeOK
  BY InitType
<1>2. TypeOK /\ [Next]_vars => TypeOK'
  <2> SUFFICES ASSUME TypeOK, [Next]_vars PROVE TypeOK'
    OBVIOUS
  <2> USE DEF TypeOK, stripeVars, At
  <2>1. ASSUME NEW r \in Requests, NEW i \in Intents, CreateIntentStripe(r, i)
        PROVE  TypeOK'
    BY <2>1 DEF CreateIntentStripe, Serve
  <2>2. ASSUME NEW r \in Requests, CreateIntentInsert(r) PROVE TypeOK'
    <3>1. reqs[r].of \in Intents
      BY <2>2 DEF CreateIntentInsert, Idle
    <3> QED
      BY <2>2, <3>1
         DEF CreateIntentInsert, NoPayment, PaymentStatuses, SecretsAfter, Done
  <2>3. ASSUME NEW r \in Requests, RefundStripe(r) PROVE TypeOK'
    BY <2>3 DEF RefundStripe, Serve, Parameters
  <2>4. ASSUME NEW r \in Requests, RefundRecord(r) PROVE TypeOK'
    BY <2>4 DEF RefundRecord, Done
  <2>5. ASSUME NEW r \in Requests, Crash(r) PROVE TypeOK'
    BY <2>5 DEF Crash, Done
  <2>6. CASE VerifyPayment
    BY <2>6 DEF VerifyPayment, PaymentStatuses
  <2>7. ASSUME NEW i \in Intents, Pay(i) PROVE TypeOK'
    BY <2>7 DEF Pay, Emit, Events, ChargeEvents
  <2>8. ASSUME NEW i \in Intents, Dispute(i) PROVE TypeOK'
    BY <2>8 DEF Dispute, Emit, Events, ChargeEvents
  <2>9. ASSUME NEW e \in events, NEW left, left \in SUBSET events, Handle(e, left)
         PROVE  TypeOK'
    BY <2>9 DEF Handle, RowAfter, RowSucceeded, ClosedStatus, PaymentStatuses
  <2>10. CASE Webhook
    BY <2>9, <2>10 DEF Webhook, Acknowledge, LoseAcknowledgement
  <2>11. CASE UNCHANGED vars
    BY <2>11 DEF vars
  <2> QED
    BY <2>1, <2>2, <2>3, <2>4, <2>5, <2>6, <2>7, <2>8, <2>10, <2>11 DEF Next, Call
<1> QED BY <1>1, <1>2, PTL DEF Spec

-----------------------------------------------------------------------------
(* Charges, events and the status of a payment *)

\* The row names the intents whose secret is out, and those are the only ones
\* a customer can pay.
ChargesKnown ==
  /\ row.intent # None => row.exists
  /\ \A i \in secrets : row.intent = i
  /\ \A i \in Intents :
       intent[i] = "succeeded" => i \in secrets

\* An event still to be delivered is of something that happened.
EventsHappened ==
  /\ \A i \in Intents : dispute[i] # "none" => intent[i] = "succeeded"
  /\ \A e \in events :
       /\ e.type = "payment_intent.succeeded" => intent[e.of] = "succeeded"
       /\ e.type = "payment_intent.payment_failed" => e.of \in failedOnce
       /\ e.type = "charge.dispute.created" => dispute[e.of] # "none"
       /\ e.type = "charge.dispute.won" => dispute[e.of] # "none"
       /\ e.type = "charge.dispute.lost" => dispute[e.of] = "lost"
       /\ e.type = "charge.dispute.warning_closed" => dispute[e.of] = "warning_closed"

ChargeInv == TypeOK /\ ChargesKnown /\ EventsHappened /\ StatusHappened

LEMMA EventOf ==
  ASSUME TypeOK PROVE \A e \in events : e.of \in Intents
BY DEF TypeOK, Events

LEMMA ChargeInvInit == Parameters /\ Init => ChargeInv
<1> SUFFICES ASSUME Parameters, Init PROVE ChargeInv
  OBVIOUS
<1>1. TypeOK
  BY InitType
<1>2. ChargesKnown /\ EventsHappened
  BY DEF Init, NoPayment, ChargesKnown, EventsHappened
<1>3. StatusHappened
  BY DEF Init, NoPayment, StatusHappened
<1> QED BY <1>1, <1>2, <1>3 DEF ChargeInv

LEMMA ChargeInvStep == Parameters /\ ChargeInv /\ TypeOK' /\ [Next]_vars => ChargeInv'
<1> SUFFICES ASSUME Parameters, ChargeInv, TypeOK', [Next]_vars PROVE ChargeInv'
  OBVIOUS
<1> USE DEF Parameters, ChargeInv, ChargesKnown, EventsHappened, StatusHappened,
        stripeVars, At
<1>1. ASSUME NEW r \in Requests, NEW i \in Intents, CreateIntentStripe(r, i)
      PROVE  ChargeInv'
  BY <1>1 DEF CreateIntentStripe, Serve, TypeOK
<1>2. ASSUME NEW r \in Requests, CreateIntentInsert(r) PROVE ChargeInv'
  <2>1. reqs[r].of \in Intents
    BY <1>2 DEF CreateIntentInsert, Idle, TypeOK
  <2>2. CASE row.exists
    BY <1>2, <2>1, <2>2 DEF CreateIntentInsert, SecretsAfter, Done, Idle, TypeOK
  <2>3. CASE ~row.exists
    <3>1. row.intent = None /\ secrets = {}
      BY <2>3 DEF TypeOK
    <3> QED
      BY <1>2, <2>1, <2>3, <3>1
         DEF CreateIntentInsert, SecretsAfter, NoPayment, Done, Idle, TypeOK
  <2> QED BY <2>2, <2>3
<1>3. ASSUME NEW r \in Requests, RefundStripe(r) PROVE ChargeInv'
  BY <1>3 DEF RefundStripe, Serve, TypeOK
<1>4. ASSUME NEW r \in Requests, RefundRecord(r) PROVE ChargeInv'
  BY <1>4 DEF RefundRecord, Done, Idle, TypeOK
<1>5. ASSUME NEW r \in Requests, Crash(r) PROVE ChargeInv'
  BY <1>5 DEF Crash, Done, Idle, TypeOK
<1>6. CASE VerifyPayment
  BY <1>6 DEF VerifyPayment, TypeOK
<1>7. ASSUME NEW i \in Intents, Pay(i) PROVE ChargeInv'
  <2>1. i \in secrets /\ intent[i] = "requires_payment_method"
    BY <1>7 DEF Pay
  <2>2. UNCHANGED <<row, dispute, secrets, reqs>>
    BY <1>7 DEF Pay
  <2>3. CASE /\ intent' = [intent EXCEPT ![i] = "succeeded"]
             /\ Emit("payment_intent.succeeded", i)
             /\ UNCHANGED failedOnce
    <3>1. \A j \in Intents : intent'[j] = IF j = i THEN "succeeded" ELSE intent[j]
      BY <2>3 DEF TypeOK
    <3>2. events' = events \cup {[type |-> "payment_intent.succeeded", of |-> i]}
      BY <2>3 DEF Emit
    <3>3. ChargesKnown' /\ StatusHappened'
      BY <2>1, <2>2, <2>3, <3>1 DEF TypeOK
    <3>4. EventsHappened'
      BY <2>1, <2>2, <2>3, <3>1, <3>2, EventOf
    <3>5. TypeOK'
      OBVIOUS
    <3> QED BY ONLY <3>3, <3>4, <3>5 DEF ChargeInv
  <2>4. CASE /\ failedOnce' = failedOnce \cup {i}
             /\ Emit("payment_intent.payment_failed", i)
             /\ UNCHANGED intent
    BY <2>1, <2>2, <2>4, EventOf DEF Emit, TypeOK
  <2> QED BY <1>7, <2>3, <2>4 DEF Pay
<1>8. ASSUME NEW i \in Intents, Dispute(i) PROVE ChargeInv'
  <2>1. /\ intent[i] = "succeeded"
        /\ UNCHANGED <<row, intent, failedOnce, secrets, reqs>>
    BY <1>8 DEF Dispute
  <2>2. PICK s \in {"open", "won", "lost", "warning_closed"},
             type \in {"charge.dispute.created", "charge.dispute.won",
                      "charge.dispute.lost", "charge.dispute.warning_closed"} :
          /\ dispute[i] \notin {"lost", "warning_closed"}
          /\ dispute' = [dispute EXCEPT ![i] = s]
          /\ Emit(type, i)
          /\ type = "charge.dispute.lost" => s = "lost"
          /\ type = "charge.dispute.warning_closed" => s = "warning_closed"
    BY <1>8 DEF Dispute
  <2>3. \A j \in Intents : dispute'[j] = IF j = i THEN s ELSE dispute[j]
    BY <2>2 DEF TypeOK
  <2>4. EventsHappened'
    BY <2>1, <2>2, <2>3, EventOf DEF Emit
  <2>5. ChargesKnown'
    BY <2>1
  <2>6. StatusHappened'
    BY <2>1, <2>2, <2>3 DEF TypeOK
  <2> QED BY <2>4, <2>5, <2>6
<1>9. ASSUME NEW e \in events, NEW left, left \in SUBSET events, Handle(e, left)
       PROVE  ChargeInv'
  <2>1. CASE row' = row
    BY <1>9, <2>1 DEF Handle, TypeOK
  <2>2. CASE row' = RowAfter(e)
    BY <1>9, <2>2 DEF Handle, RowAfter, RowSucceeded, ClosedStatus, Events,
                       ChargeEvents, TypeOK
  <2> QED BY <1>9, <2>1, <2>2 DEF Handle
<1>10. CASE Webhook
  BY <1>9, <1>10 DEF Webhook, Acknowledge, LoseAcknowledgement
<1>11. CASE UNCHANGED vars
  BY <1>11 DEF vars
<1> QED
  BY <1>1, <1>2, <1>3, <1>4, <1>5, <1>6, <1>7, <1>8, <1>10, <1>11 DEF Next, Call

LEMMA ChargeInvariant == ASSUME Parameters PROVE Spec => []ChargeInv
<1>1. ChargeInv /\ TypeOK /\ TypeOK' /\ [Next]_vars => ChargeInv'
  BY ChargeInvStep
<1> QED BY <1>1, ChargeInvInit, PaymentTypes, PTL DEF Spec

\* No intent is charged that the job's Payment row does not name, however
\* intents are created, verified and retried.
THEOREM ChargesHaveRow == ASSUME Parameters PROVE Spec => []ChargeHasRow
<1>1. ChargeInv => ChargeHasRow
  BY DEF ChargeInv, ChargesKnown, ChargeHasRow
<1> QED BY <1>1, ChargeInvariant, PTL

\* Whatever order and repetition the webhooks come in, a payment's status is of
\* something that happened to its charge; dispute_lost may stand for an inquiry
\* that was closed without a loss.
THEOREM StatusIsHistory == ASSUME Parameters PROVE Spec => []StatusHappened
<1>1. ChargeInv => StatusHappened
  BY DEF ChargeInv
<1> QED BY <1>1, ChargeInvariant, PTL

-----------------------------------------------------------------------------
(* Refunds *)

\* The calls that have a refund of Stripe's to record.
Refunding == {r \in Requests : reqs[r].op = "refundPayment"}

\* What is recorded and what is about to be never exceed what was refunded.
RefundInv == recorded + Cardinality(Refunding) <= refunded

LEMMA RefundingFinite ==
  ASSUME Parameters
  PROVE  /\ IsFiniteSet(Refunding) /\ Cardinality(Refunding) \in Nat
         /\ IsFiniteSet(Refunding') /\ Cardinality(Refunding') \in Nat
BY FS_Subset, FS_CardinalityType DEF Refunding, Parameters

LEMMA RefundInvStep ==
  ASSUME Parameters, TypeOK, TypeOK', RefundInv, [Next]_vars
  PROVE  RefundInv'
<1> USE RefundingFinite DEF RefundInv
<1>0. recorded \in Nat /\ refunded \in Nat
  BY DEF TypeOK, Parameters
<1>1. ASSUME NEW r \in Requests, RefundStripe(r) PROVE RefundInv'
  <2>1. Refunding' \subseteq Refunding \cup {r}
    BY <1>1 DEF RefundStripe, Serve, Refunding, TypeOK
  <2>2. Cardinality(Refunding') <= Cardinality(Refunding) + 1
    <3>1. /\ IsFiniteSet(Refunding \cup {r})
          /\ Cardinality(Refunding \cup {r}) \in Nat
          /\ Cardinality(Refunding \cup {r}) <= Cardinality(Refunding) + 1
      <4>1. IsFiniteSet(Refunding)
        OBVIOUS
      <4>2. /\ IsFiniteSet(Refunding \cup {r})
            /\ Cardinality(Refunding \cup {r}) =
                 IF r \in Refunding THEN Cardinality(Refunding)
                                   ELSE Cardinality(Refunding) + 1
        BY <4>1, FS_AddElement
      <4>3. Cardinality(Refunding) \in Nat
        OBVIOUS
      <4> QED BY <4>2, <4>3
    <3>2. Cardinality(Refunding') <= Cardinality(Refunding \cup {r})
      BY <2>1, <3>1, FS_Subset
    <3> QED BY <3>1, <3>2
  <2> QED BY <1>0, <1>1, <2>2 DEF RefundStripe
<1>2. ASSUME NEW r \in Requests, RefundRecord(r) PROVE RefundInv'
  <2>1. r \in Refunding
    BY <1>2 DEF RefundRecord, At, Refunding
  <2>2. Refunding' = Refunding \ {r}
    BY <1>2 DEF RefundRecord, Done, Idle, Refunding, TypeOK
  <2>3. Cardinality(Refunding') = Cardinality(Refunding) - 1
    BY <2>1, <2>2, FS_RemoveElement
  <2> QED BY <1>0, <1>2, <2>3 DEF RefundRecord, stripeVars
<1>3. ASSUME Refunding' \subseteq Refunding, UNCHANGED <<recorded, refunded>>
      PROVE  RefundInv'
  <2>1. Cardinality(Refunding') <= Cardinality(Refunding)
    BY <1>3, FS_Subset
  <2> QED BY <1>0, <1>3, <2>1
<1>4. ASSUME NEW r \in Requests,
             \/ \E i \in Intents : CreateIntentStripe(r, i)
             \/ CreateIntentInsert(r)
             \/ Crash(r)
      PROVE  Refunding' \subseteq Refunding /\ UNCHANGED <<recorded, refunded>>
  <2>1. UNCHANGED <<recorded, refunded>>
    BY <1>4 DEF CreateIntentStripe, CreateIntentInsert, Crash, stripeVars
  <2>2. PICK q : reqs' = [reqs EXCEPT ![r] = q] /\ q.op # "refundPayment"
    BY <1>4 DEF CreateIntentStripe, CreateIntentInsert, Crash, Serve, Done, Idle
  <2> QED BY <2>1, <2>2 DEF Refunding, TypeOK
<1>5. ASSUME \/ VerifyPayment
             \/ \E i \in Intents : Pay(i) \/ Dispute(i)
             \/ Webhook
             \/ UNCHANGED vars
      PROVE  Refunding' \subseteq Refunding /\ UNCHANGED <<recorded, refunded>>
  BY <1>5 DEF VerifyPayment, Pay, Dispute, Webhook, Acknowledge,
              LoseAcknowledgement, Handle, stripeVars, vars, Refunding
<1> QED BY <1>1, <1>2, <1>3, <1>4, <1>5 DEF Next, Call

\* However refunds overlap and die half-way, the Refund rows never add up to
\* more than Stripe refunded.
THEOREM RefundsRecordedWereMade == ASSUME Parameters PROVE Spec => []RefundsAreReal
<1>1. Init => RefundInv
  <2> SUFFICES ASSUME Init PROVE RefundInv
    OBVIOUS
  <2>1. Refunding = {}
    BY DEF Init, Idle, Refunding
  <2> QED BY <2>1, FS_EmptySet DEF Init, RefundInv
<1>2. TypeOK /\ TypeOK' /\ RefundInv /\ [Next]_vars => RefundInv'
  BY RefundInvStep
<1>3. TypeOK /\ RefundInv => RefundsAreReal
  BY RefundingFinite DEF RefundInv, RefundsAreReal, TypeOK, Parameters
<1> QED BY <1>1, <1>2, <1>3, PaymentTypes, PTL DEF Spec
=============================================================================
