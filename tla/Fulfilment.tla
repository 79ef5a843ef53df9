------------------------------ MODULE Fulfilment ------------------------------
(***************************************************************************)
(* The fulfilment workflow of one ServiceLink job: the quotes providers    *)
(* post on it, the customer's acceptance and its revocation, the schedule  *)
(* negotiation on the assignment the acceptance creates, the provider's    *)
(* rejection or completion, the customer's verification and the payout     *)
(* review that follows it (QuotesService, AssignmentsService, the          *)
(* "complete" route of JobsController and PaymentsService's verification   *)
(* and review operations).                                                 *)
(*                                                                         *)
(* The database rows are shared by every HTTP request in flight.  A        *)
(* handler awaits between the rows it reads and the row it writes, so each *)
(* statement (or $transaction) of a handler is one action, and a slot of   *)
(* Requests holds the handler's local variables between them.  A request   *)
(* refused at its first read leaves no trace and is not a step.            *)
(***************************************************************************)
EXTENDS Integers, FiniteSets

CONSTANTS
  Providers,      \* provider profiles that may quote on the job
  Windows,        \* schedule windows that pass ensureWindow
  NoProvider,     \* stands for a null provider
  NoWindow,       \* stands for scheduledStart = scheduledEnd = null
  Requests,       \* slots for HTTP requests being served at the same time
  Ops,            \* the operations clients call in this instance
  StripeReady,    \* hasRealStripeKeys()
  MaxVersion,     \* bound on Assignment.scheduleVersion
  MaxAccepts      \* bound on the number of acceptances of the job

AllOps == {"createQuote", "acceptQuote", "revokeAcceptance", "view",
           "proposeAsCustomer", "proposeAsProvider", "confirmSchedule",
           "completeAsProvider", "rejectAssignment", "customerComplete",
           "setPayoutStatus"}

ASSUME OpsAssumption == Ops \subseteq AllOps
ASSUME StripeAssumption == StripeReady \in BOOLEAN
ASSUME BoundsAssumption == MaxVersion \in Nat /\ MaxAccepts \in Nat
ASSUME NullAssumption == NoProvider \notin Providers /\ NoWindow \notin Windows

VARIABLES
  quote,          \* Quote.status of each provider's quote ("none": no row)
  asg,            \* the job's Assignment row, NoAssignment when there is none
  epoch,          \* history: how many times a quote of the job was accepted
  payment,        \* Payment.status as verification writes it ("none": no row)
  reqs            \* the request each slot is serving

vars == <<quote, asg, epoch, payment, reqs>>

-----------------------------------------------------------------------------
(* Rows and requests *)

QuoteStatus == {"none", "pending", "accepted", "declined",
                "withdrawn_by_provider"}

ASSIGNMENT_STATUS == {"pending_schedule", "schedule_proposed_customer",
                      "schedule_proposed_provider", "scheduled",
                      "provider_rejected", "completed", "customer_verified"}

PayoutStatus == {"PENDING", "AWAITING_APPROVAL", "APPROVED", "BLOCKED"}

NoAssignment ==
  [id |-> 0, provider |-> NoProvider, status |-> "none", version |-> 0,
   window |-> NoWindow, completed |-> FALSE, verified |-> FALSE,
   payout |-> "PENDING"]

\* A row as acceptQuote creates it, or resets it after a rejection.  Row ids
\* are never reused: the id of a new row is the acceptance that creates it.
FreshAssignment(i, p) ==
  [NoAssignment EXCEPT !.id = i, !.provider = p, !.status = "pending_schedule"]

Exists == asg.id # 0

Idle == [op |-> "none", pc |-> "idle", provider |-> NoProvider, id |-> 0,
         version |-> 0, window |-> NoWindow, epoch |-> 0]

PCs == {"idle", "page", "create", "count", "quote", "assignment", "tx",
        "write", "reread", "payment", "payout"}

At(r, op, pc) == reqs[r].op = op /\ reqs[r].pc = pc

Serve(r, req) == reqs' = [reqs EXCEPT ![r] = req]

Goto(r, pc) == Serve(r, [reqs[r] EXCEPT !.pc = pc])

Done(r) == Serve(r, Idle)

\* Slot r takes a new request of kind op, whose first read succeeded.
Begin(r, op, req) ==
  /\ op \in Ops
  /\ reqs[r] = Idle
  /\ Serve(r, req)

\* What a request of kind op keeps from a first read of the assignment.
ReadAssignment(op, pc) ==
  [Idle EXCEPT !.op = op, !.pc = pc, !.provider = asg.provider, !.id = asg.id,
               !.version = asg.version, !.window = asg.window, !.epoch = epoch]

Init ==
  /\ quote = [p \in Providers |-> "none"]
  /\ asg = NoAssignment
  /\ epoch = 0
  /\ payment = "none"
  /\ reqs = [r \in Requests |-> Idle]

-----------------------------------------------------------------------------
(* QuotesService.createQuote *)

CreateQuoteRead(r, p) ==
  /\ quote[p] = "none"
  /\ Begin(r, "createQuote", [Idle EXCEPT !.op = "createQuote",
                                          !.pc = "create", !.provider = p])
  /\ UNCHANGED <<quote, asg, epoch, payment>>

\* The unique index on (jobId, providerId) refuses a second row (P2002).
CreateQuoteInsert(r) ==
  LET p == reqs[r].provider IN
  /\ At(r, "createQuote", "create")
  /\ quote' = IF quote[p] = "none" THEN [quote EXCEPT ![p] = "pending"]
                                   ELSE quote
  /\ Done(r)
  /\ UNCHANGED <<asg, epoch, payment>>

-----------------------------------------------------------------------------
(* QuotesService.acceptQuote: three reads, then one transaction *)

AcceptReadJob(r, p) ==
  /\ Exists => asg.status = "provider_rejected"
  /\ quote[p] # "none"
  /\ Begin(r, "acceptQuote", [Idle EXCEPT !.op = "acceptQuote",
                                          !.pc = "count", !.provider = p])
  /\ UNCHANGED <<quote, asg, epoch, payment>>

AcceptCountAccepted(r) ==
  /\ At(r, "acceptQuote", "count")
  /\ IF \E p \in Providers : quote[p] = "accepted"
     THEN Done(r)
     ELSE Goto(r, "quote")
  /\ UNCHANGED <<quote, asg, epoch, payment>>

AcceptReadQuote(r) ==
  /\ At(r, "acceptQuote", "quote")
  /\ IF quote[reqs[r].provider] = "pending" THEN Goto(r, "tx") ELSE Done(r)
  /\ UNCHANGED <<quote, asg, epoch, payment>>

\* Mutant: the others keep their status.
AcceptKeepsOthers(p) == [quote EXCEPT ![p] = "accepted"]

\* Every other quote of the job becomes declined, whatever its status was.
QuotesAfterAccept(p) ==
  [q \in Providers |-> IF q = p THEN "accepted"
                       ELSE IF quote[q] = "none" THEN "none" ELSE "declined"]

\* Mutant: the accepting updateMany does not ask for a pending quote.
AnyQuoteInTx(r) == TRUE

\* The accepting updateMany of the transaction finds the quote still pending.
StillPending(r) == quote[reqs[r].provider] = "pending"

AcceptTx(r) ==
  LET p == reqs[r].provider IN
  /\ At(r, "acceptQuote", "tx")
  /\ StillPending(r)
  /\ epoch < MaxAccepts
  /\ epoch' = epoch + 1
  /\ quote' = QuotesAfterAccept(p)
  /\ asg' = FreshAssignment(IF Exists THEN asg.id ELSE epoch', p)
  /\ Done(r)
  /\ UNCHANGED payment

\* updateMany matched no pending row: the transaction rolls back.
AcceptRollback(r) ==
  /\ At(r, "acceptQuote", "tx")
  /\ ~StillPending(r)
  /\ Done(r)
  /\ UNCHANGED <<quote, asg, epoch, payment>>

-----------------------------------------------------------------------------
(* QuotesService.revokeAcceptance: two reads, then one transaction *)

RevokeReadQuote(r) ==
  \E p \in Providers :
    /\ quote[p] = "accepted"
    /\ Begin(r, "revokeAcceptance",
             [Idle EXCEPT !.op = "revokeAcceptance", !.pc = "assignment",
                          !.provider = p])
    /\ UNCHANGED <<quote, asg, epoch, payment>>

RevokeReadAssignment(r) ==
  /\ At(r, "revokeAcceptance", "assignment")
  /\ IF Exists THEN Goto(r, "tx") ELSE Done(r)
  /\ UNCHANGED <<quote, asg, epoch, payment>>

\* Mutant: a status the quote vocabulary does not have.
DeclinedToOpen(q) == IF q = "declined" THEN "open" ELSE q

DeclinedToPending(q) == IF q = "declined" THEN "pending" ELSE q

\* The quote read earlier is reset by its id, the assignment deleted by the
\* job's id: neither is compared with what is there now.  Deleting a row that
\* is gone fails (P2025) and rolls the transaction back.
RevokeTx(r) ==
  LET p == reqs[r].provider IN
  /\ At(r, "revokeAcceptance", "tx")
  /\ IF Exists
     THEN /\ quote' = [q \in Providers |-> IF q = p THEN "pending"
                                           ELSE DeclinedToPending(quote[q])]
          /\ asg' = NoAssignment
     ELSE UNCHANGED <<quote, asg>>
  /\ Done(r)
  /\ UNCHANGED <<epoch, payment>>

-----------------------------------------------------------------------------
(* AssignmentsService: proposing, confirming, the optimistic lock *)

\* A client has the job's page open: it shows the window and its version.
ViewAssignment(r) ==
  /\ Exists
  /\ Begin(r, "view", ReadAssignment("view", "page"))
  /\ UNCHANGED <<quote, asg, epoch, payment>>

ProposalStatus(op) == IF op = "proposeAsCustomer"
                      THEN "schedule_proposed_customer"
                      ELSE "schedule_proposed_provider"

\* What the page of the job sends: the id and the version it shows; the API
\* then works on the row it finds.
PageProposal(r, op, w) ==
  [reqs[r] EXCEPT !.op = op, !.pc = "write", !.window = w, !.id = asg.id]

PageConfirmation(r) == [reqs[r] EXCEPT !.op = "confirmSchedule", !.pc = "write"]

\* dto.version is optional: without it the version just read is the target.
\* The customer's route finds the row through the job, the provider's by id.
ProposeRead(r, op, w) ==
  /\ Exists
  /\ asg.status # "provider_rejected"
  /\ op \in Ops
  /\ \/ /\ reqs[r] = Idle
        /\ Serve(r, [ReadAssignment(op, "write") EXCEPT !.window = w])
     \/ /\ At(r, "view", "page")
        /\ op = "proposeAsProvider" => reqs[r].id = asg.id
        /\ Serve(r, PageProposal(r, op, w))
  /\ UNCHANGED <<quote, asg, epoch, payment>>

\* dto.version is required, and comes from the page the client acts on.
ConfirmRead(r) ==
  /\ "confirmSchedule" \in Ops
  /\ At(r, "view", "page")
  /\ reqs[r].id = asg.id
  /\ asg.window # NoWindow
  /\ Serve(r, PageConfirmation(r))
  /\ UNCHANGED <<quote, asg, epoch, payment>>

ScheduleOps == {"proposeAsCustomer", "proposeAsProvider", "confirmSchedule"}

\* Mutant: updateMany filters by id only.
IdMatches(r) == asg.id = reqs[r].id

\* The where clause of updateMany: id and scheduleVersion.
VersionMatches(r) == asg.id = reqs[r].id /\ asg.version = reqs[r].version

ScheduleWrite(r) ==
  /\ reqs[r].op \in ScheduleOps /\ reqs[r].pc = "write"
  /\ VersionMatches(r)
  /\ asg.version < MaxVersion
  /\ asg' = IF reqs[r].op = "confirmSchedule"
            THEN [asg EXCEPT !.version = @ + 1, !.status = "scheduled"]
            ELSE [asg EXCEPT !.version = @ + 1, !.window = reqs[r].window,
                             !.status = ProposalStatus(reqs[r].op)]
  /\ Done(r)
  /\ UNCHANGED <<quote, epoch, payment>>

\* No row matched: 409 Conflict.
ScheduleConflict(r) ==
  /\ reqs[r].op \in ScheduleOps /\ reqs[r].pc = "write"
  /\ ~VersionMatches(r)
  /\ Done(r)
  /\ UNCHANGED <<quote, asg, epoch, payment>>

-----------------------------------------------------------------------------
(* AssignmentsService: completion and rejection by the provider *)

CompleteRead(r) ==
  /\ Exists
  /\ asg.status # "customer_verified"
  /\ Begin(r, "completeAsProvider", ReadAssignment("completeAsProvider", "write"))
  /\ UNCHANGED <<quote, asg, epoch, payment>>

CompleteWrite(r) ==
  /\ At(r, "completeAsProvider", "write")
  /\ asg' = IF asg.id = reqs[r].id
            THEN [asg EXCEPT !.status = "completed", !.completed = TRUE]
            ELSE asg
  /\ Done(r)
  /\ UNCHANGED <<quote, epoch, payment>>

\* The caller must own the assignment when it is read.
RejectRead(r) ==
  /\ Exists
  /\ Begin(r, "rejectAssignment", ReadAssignment("rejectAssignment", "tx"))
  /\ UNCHANGED <<quote, asg, epoch, payment>>

\* Mutant: the rejection keeps the version.
RejectKeepsVersion ==
  [asg EXCEPT !.status = "provider_rejected", !.window = NoWindow,
              !.payout = "PENDING"]

\* completedAt and customerVerifiedAt are left as they were.
RejectedAssignment ==
  [asg EXCEPT !.status = "provider_rejected", !.window = NoWindow,
              !.version = @ + 1, !.payout = "PENDING"]

\* Mutant: the accepted quote is not withdrawn.
RejectKeepsAccepted == [p \in Providers |-> DeclinedToPending(quote[p])]

QuotesAfterReject ==
  [p \in Providers |-> IF quote[p] = "accepted" THEN "withdrawn_by_provider"
                       ELSE DeclinedToPending(quote[p])]

RejectTx(r) ==
  /\ At(r, "rejectAssignment", "tx")
  /\ asg.id = reqs[r].id
  /\ asg.version < MaxVersion
  /\ asg' = RejectedAssignment
  /\ quote' = QuotesAfterReject
  /\ Done(r)
  /\ UNCHANGED <<epoch, payment>>

\* The row is gone (P2025).
RejectRollback(r) ==
  /\ At(r, "rejectAssignment", "tx")
  /\ asg.id # reqs[r].id
  /\ Done(r)
  /\ UNCHANGED <<quote, asg, epoch, payment>>

-----------------------------------------------------------------------------
(* JobsController.customerComplete, PaymentsService.handleCustomerVerification *)

VerifyRead(r) ==
  /\ Exists
  /\ Begin(r, "customerComplete", ReadAssignment("customerComplete", "write"))
  /\ UNCHANGED <<quote, asg, epoch, payment>>

VerifyWrite(r) ==
  /\ At(r, "customerComplete", "write")
  /\ IF asg.id = reqs[r].id
     THEN /\ asg' = [asg EXCEPT !.status = "customer_verified",
                                !.verified = TRUE]
          /\ Goto(r, "reread")
     ELSE Done(r) /\ UNCHANGED asg
  /\ UNCHANGED <<quote, epoch, payment>>

\* Mutant: the payout is queued without a payment.
VerifySkipsPayment(r) ==
  /\ At(r, "customerComplete", "reread")
  /\ Serve(r, ReadAssignment("customerComplete", "payout"))
  /\ UNCHANGED <<quote, asg, epoch, payment>>

\* handleCustomerVerification reads the job again: id 0 when the assignment
\* was revoked in between.
VerifyReread(r) ==
  /\ At(r, "customerComplete", "reread")
  /\ Serve(r, ReadAssignment("customerComplete", "payment"))
  /\ UNCHANGED <<quote, asg, epoch, payment>>

\* upsert: the status is written whatever it was.
VerifyPayment(r) ==
  /\ At(r, "customerComplete", "payment")
  /\ payment' = IF StripeReady THEN "capture_pending" ELSE "manual_review"
  /\ IF reqs[r].id = 0 THEN Done(r) ELSE Goto(r, "payout")
  /\ UNCHANGED <<quote, asg, epoch>>

VerifyPayout(r) ==
  /\ At(r, "customerComplete", "payout")
  /\ asg' = IF asg.id = reqs[r].id
            THEN [asg EXCEPT !.payout = IF StripeReady THEN "PENDING"
                                        ELSE "AWAITING_APPROVAL"]
            ELSE asg
  /\ Done(r)
  /\ UNCHANGED <<quote, epoch, payment>>

\* PaymentsService.setPayoutStatus: one statement, no check of the status.
SetPayoutStatus(s) ==
  /\ "setPayoutStatus" \in Ops
  /\ Exists
  /\ asg' = [asg EXCEPT !.payout = s]
  /\ UNCHANGED <<quote, epoch, payment, reqs>>

-----------------------------------------------------------------------------
\* The process serving r dies (or loses the database), or the page is closed:
\* the statements already executed stay, the rest never run.
Crash(r) ==
  /\ reqs[r] # Idle
  /\ Done(r)
  /\ UNCHANGED <<quote, asg, epoch, payment>>

\* The first statement of a request; clients are never obliged to send one.
Arrive(r) ==
  \/ \E p \in Providers : CreateQuoteRead(r, p) \/ AcceptReadJob(r, p)
  \/ RevokeReadQuote(r)
  \/ ViewAssignment(r)
  \/ \E w \in Windows : \/ ProposeRead(r, "proposeAsCustomer", w)
                        \/ ProposeRead(r, "proposeAsProvider", w)
  \/ ConfirmRead(r)
  \/ CompleteRead(r)
  \/ RejectRead(r)
  \/ VerifyRead(r)

\* The next statement of a request being served.
Continue(r) ==
  \/ CreateQuoteInsert(r)
  \/ AcceptCountAccepted(r) \/ AcceptReadQuote(r) \/ AcceptTx(r) \/ AcceptRollback(r)
  \/ RevokeReadAssignment(r) \/ RevokeTx(r)
  \/ ScheduleWrite(r) \/ ScheduleConflict(r)
  \/ CompleteWrite(r)
  \/ RejectTx(r) \/ RejectRollback(r)
  \/ VerifyWrite(r) \/ VerifyReread(r) \/ VerifyPayment(r) \/ VerifyPayout(r)

Next ==
  \/ \E r \in Requests : Arrive(r) \/ Continue(r) \/ Crash(r)
  \/ \E s \in {"APPROVED", "BLOCKED"} : SetPayoutStatus(s)

Spec == Init /\ [][Next]_vars
-----------------------------------------------------------------------------
(* Types *)

Request ==
  [op : Ops \cup {"none"}, pc : PCs, provider : Providers \cup {NoProvider},
   id : 0..MaxAccepts, version : 0..MaxVersion,
   window : Windows \cup {NoWindow}, epoch : 0..MaxAccepts]

Assignment ==
  [id : 0..MaxAccepts, provider : Providers \cup {NoProvider},
   status : ASSIGNMENT_STATUS \cup {"none"}, version : 0..MaxVersion,
   window : Windows \cup {NoWindow}, completed : BOOLEAN, verified : BOOLEAN,
   payout : PayoutStatus]

\* Every row and every handler's locals hold values of the schema's types.
TypeOK ==
  /\ quote \in [Providers -> QuoteStatus]
  /\ asg \in Assignment
  /\ epoch \in 0..MaxAccepts
  /\ payment \in {"none", "capture_pending", "manual_review"}
  /\ reqs \in [Requests -> Request]

-----------------------------------------------------------------------------
(* Safety *)

\* However acceptances, revocations and rejections of the same job overlap,
\* at most one of its quotes is ever accepted (acceptQuote declines all the
\* others in the transaction that accepts one).
AtMostOneAccepted ==
  \A p, q \in Providers : quote[p] = "accepted" /\ quote[q] = "accepted" => p = q

\* The accepted quote is the one the assignment was made from, and that
\* assignment is not rejected.  Holds as long as no revocation is in flight
\* next to another request.
AcceptedMatchesAssignment ==
  \A p \in Providers :
    quote[p] = "accepted" =>
      Exists /\ asg.provider = p /\ asg.status # "provider_rejected"

\* A rejected assignment keeps no visit window (rejectAssignment clears it and
\* any later window comes with another status).
RejectedHasNoWindow ==
  asg.status = "provider_rejected" => asg.window = NoWindow

\* What the optimistic lock of updateAssignmentSchedule rests on: within one
\* acceptance a version identifies the schedule.  A request whose version is
\* still current holds the window that is stored, a proposal about to be
\* written finds the assignment not rejected, a confirmation finds a window.
VersionIdentifiesSchedule ==
  \A r \in Requests :
    (Exists /\ reqs[r].op \in ScheduleOps \cup {"view"} /\ reqs[r].epoch = epoch)
      => /\ reqs[r].version <= asg.version
         /\ VersionMatches(r) =>
              CASE reqs[r].op = "view" -> asg.window = reqs[r].window
                [] reqs[r].op = "confirmSchedule" ->
                     asg.window = reqs[r].window /\ asg.window # NoWindow
                [] OTHER -> asg.status # "provider_rejected"

\* Verification writes the payment before it queues the payout, and a crash
\* between the two loses the queue entry, never the payment: no payout waits
\* for approval without a payment under manual review.
QueuedPayoutHasPayment ==
  asg.payout = "AWAITING_APPROVAL" => payment = "manual_review"

-----------------------------------------------------------------------------
(* Action properties *)

\* r's schedule update takes effect in this step.
WritesSchedule(r) ==
  /\ reqs[r].op \in ScheduleOps /\ reqs[r].pc = "write"
  /\ reqs'[r] = Idle
  /\ asg'.version > asg.version

Confirms(r) == reqs[r].op = "confirmSchedule" /\ WritesSchedule(r)

\* Within the acceptance the client was looking at, a confirmation agrees to
\* exactly the window its page showed, whoever proposed another one meanwhile.
ConfirmsShownWindow ==
  [][\A r \in Requests :
       Confirms(r) /\ reqs[r].epoch = epoch =>
         asg'.window = reqs[r].window /\ asg'.window # NoWindow]_vars

\* Within one acceptance nobody's reschedule is silently overwritten: versions
\* never go back, and every change of the window moves on to the next version.
WindowChangesAreVersioned ==
  [][Exists /\ Exists' /\ epoch' = epoch =>
       /\ asg'.version >= asg.version
       /\ asg'.window # asg.window => asg'.version = asg.version + 1]_vars

\* Within one acceptance no proposal or confirmation overtakes a rejection.
NoScheduleAfterRejection ==
  [][\A r \in Requests :
       WritesSchedule(r) /\ reqs[r].epoch = epoch =>
         asg.status # "provider_rejected"]_vars

\* An acceptance never displaces a quote that is already accepted, although
\* acceptQuote checks for one in a statement of its own, long before it
\* writes.  Holds as long as no revocation is in flight: a stale one can turn
\* a declined quote back to pending under the accepted one.
AcceptNeverDisplaces ==
  [][\A p \in Providers : quote[p] = "accepted" => quote'[p] # "declined"]_vars

-----------------------------------------------------------------------------
(* What the documentation and the tests say and the code does not do *)

\* docs/M4-Fulfillment.md: the version field guards against conflicting edits.
\* A confirmation never agrees to a window its page did not show.
ConfirmsOnlyShownWindow ==
  [][\A r \in Requests : Confirms(r) => asg'.window = reqs[r].window]_vars

\* quotes.service.spec.ts: revoking resets the quotes and deletes the
\* assignment.  No accepted quote survives the deletion of the assignment.
RevokeLeavesNoneAccepted ==
  [][Exists /\ ~Exists' => \A p \in Providers : quote'[p] # "accepted"]_vars

\* docs/M4-Fulfillment.md: rejected jobs must requeue for other providers.
\* A rejected assignment stays rejected until a quote is accepted again.
RejectedUntilRequeued ==
  [][asg.status = "provider_rejected" /\ epoch' = epoch
       => asg'.status = "provider_rejected"]_vars

-----------------------------------------------------------------------------
(* Refinement: what the negotiation promises *)

Stage ==
  CASE asg.status = "none" -> "none"
    [] asg.status = "pending_schedule" -> "open"
    [] asg.status \in {"schedule_proposed_customer",
                       "schedule_proposed_provider"} -> "proposed"
    [] asg.status = "scheduled" -> "agreed"
    [] asg.status = "provider_rejected" -> "rejected"
    [] OTHER -> "done"

Negotiation == INSTANCE ScheduleNegotiation
                 WITH stage <- Stage, window <- asg.window

\* On a job accepted once, the handlers' read-then-compare-and-set steps
\* implement the negotiation whose operations are atomic.
NegotiationSpec == Negotiation!Spec
=============================================================================
