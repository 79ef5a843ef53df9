--------------------------- MODULE FulfilmentProofs ---------------------------
(***************************************************************************)
(* Theorems about Fulfilment, for every set of providers, windows and      *)
(* request slots, and for every choice of the operations clients call.     *)
(***************************************************************************)
EXTENDS Fulfilment, TLAPS

-----------------------------------------------------------------------------
(* Lemmas about the records the handlers build *)

LEMMA IdleType == Idle \in Request
BY BoundsAssumption DEF Idle, Request, PCs

LEMMA NoAssignmentType == NoAssignment \in Assignment
BY BoundsAssumption DEF NoAssignment, Assignment, PayoutStatus

LEMMA FreshAssignmentType ==
  ASSUME NEW i \in 0..MaxAccepts, NEW p \in Providers \cup {NoProvider}
  PROVE  FreshAssignment(i, p) \in Assignment
BY NoAssignmentType DEF FreshAssignment, Assignment, ASSIGNMENT_STATUS

LEMMA ReadAssignmentType ==
  ASSUME TypeOK, NEW op \in Ops, NEW pc \in PCs
  PROVE  ReadAssignment(op, pc) \in Request
BY IdleType DEF ReadAssignment, TypeOK, Assignment, Request

LEMMA ServeType ==
  ASSUME TypeOK, NEW r \in Requests, NEW req \in Request, Serve(r, req)
  PROVE  reqs' \in [Requests -> Request]
BY DEF Serve, TypeOK

LEMMA DoneType ==
  ASSUME TypeOK, NEW r \in Requests, Done(r)
  PROVE  reqs' \in [Requests -> Request]
BY IdleType, ServeType DEF Done

LEMMA GotoType ==
  ASSUME TypeOK, NEW r \in Requests, NEW pc \in PCs, Goto(r, pc)
  PROVE  reqs' \in [Requests -> Request]
<1>1. [reqs[r] EXCEPT !.pc = pc] \in Request
  BY DEF TypeOK, Request
<1> QED BY <1>1, ServeType DEF Goto

\* A first read of a request of kind op about provider p.
LEMMA BeginType ==
  ASSUME TypeOK, NEW r \in Requests, NEW op, NEW req,
         op \in Ops => req \in Request, Begin(r, op, req)
  PROVE  reqs' \in [Requests -> Request]
BY ServeType DEF Begin

-----------------------------------------------------------------------------
(* Type correctness *)

\* The first statements of the requests change nothing but their slot.
LEMMA ArriveType ==
  ASSUME TypeOK, NEW r \in Requests, Arrive(r)
  PROVE  reqs' \in [Requests -> Request] /\ UNCHANGED <<quote, asg, epoch, payment>>
<1>1. ASSUME NEW p \in Providers, CreateQuoteRead(r, p) \/ AcceptReadJob(r, p)
      PROVE  reqs' \in [Requests -> Request]
  <2> DEFINE first(op, pc) == [Idle EXCEPT !.op = op, !.pc = pc, !.provider = p]
  <2>1. /\ "createQuote" \in Ops => first("createQuote", "create") \in Request
        /\ "acceptQuote" \in Ops => first("acceptQuote", "count") \in Request
    BY IdleType DEF Request, PCs
  <2> QED BY <1>1, <2>1, BeginType DEF CreateQuoteRead, AcceptReadJob
<1>2. ASSUME RevokeReadQuote(r) PROVE reqs' \in [Requests -> Request]
  <2>1. PICK p \in Providers :
          Begin(r, "revokeAcceptance",
                [Idle EXCEPT !.op = "revokeAcceptance", !.pc = "assignment",
                             !.provider = p])
    BY <1>2 DEF RevokeReadQuote
  <2>2. "revokeAcceptance" \in Ops =>
          [Idle EXCEPT !.op = "revokeAcceptance", !.pc = "assignment",
                       !.provider = p] \in Request
    BY IdleType DEF Request, PCs
  <2> QED BY <2>1, <2>2, BeginType
<1>3. ASSUME \/ ViewAssignment(r) \/ CompleteRead(r)
             \/ RejectRead(r) \/ VerifyRead(r)
      PROVE  reqs' \in [Requests -> Request]
  BY <1>3, ReadAssignmentType, BeginType
     DEF ViewAssignment, CompleteRead, RejectRead, VerifyRead, PCs
<1>4. ASSUME NEW op \in AllOps, NEW w \in Windows, ProposeRead(r, op, w)
      PROVE  reqs' \in [Requests -> Request]
  <2>1. op \in Ops BY <1>4 DEF ProposeRead
  <2>2. [ReadAssignment(op, "write") EXCEPT !.window = w] \in Request
    BY <2>1, ReadAssignmentType DEF Request, PCs
  <2>3. [reqs[r] EXCEPT !.op = op, !.pc = "write", !.window = w,
                        !.id = asg.id] \in Request
    <3>1. reqs[r] \in Request /\ asg.id \in 0..MaxAccepts
      BY DEF TypeOK, Assignment
    <3>2. op \in Ops \cup {"none"} /\ "write" \in PCs /\ w \in Windows \cup {NoWindow}
      BY <2>1 DEF PCs
    <3> QED BY <3>1, <3>2 DEF Request
  <2> QED BY <1>4, <2>2, <2>3, ServeType DEF ProposeRead, PageProposal
<1>5. ASSUME ConfirmRead(r) PROVE reqs' \in [Requests -> Request]
  <2>1. [reqs[r] EXCEPT !.op = "confirmSchedule", !.pc = "write"] \in Request
    BY <1>5 DEF ConfirmRead, PageConfirmation, TypeOK, Request, PCs
  <2> QED BY <1>5, <2>1, ServeType DEF ConfirmRead, PageConfirmation
<1>6. reqs' \in [Requests -> Request]
  BY <1>1, <1>2, <1>3, <1>4, <1>5 DEF Arrive, AllOps
<1>7. UNCHANGED <<quote, asg, epoch, payment>>
  BY DEF Arrive, CreateQuoteRead, AcceptReadJob, RevokeReadQuote,
         ViewAssignment, ProposeRead, ConfirmRead, CompleteRead, RejectRead,
         VerifyRead
<1> QED BY <1>6, <1>7

\* Every variable keeps a value of its type.
THEOREM TypeCorrect == Spec => []TypeOK
<1>1. Init => TypeOK
  BY IdleType, NoAssignmentType, BoundsAssumption DEF Init, TypeOK, QuoteStatus
<1>2. TypeOK /\ [Next]_vars => TypeOK'
  <2> SUFFICES ASSUME TypeOK, [Next]_vars PROVE TypeOK'
    OBVIOUS
  <2> USE DEF TypeOK
  <2>1. ASSUME NEW r \in Requests, Arrive(r) PROVE TypeOK'
    BY <2>1, ArriveType
  <2>2. ASSUME NEW r \in Requests, CreateQuoteInsert(r) PROVE TypeOK'
    BY <2>2, DoneType DEF CreateQuoteInsert, QuoteStatus
  <2>3. ASSUME NEW r \in Requests,
               AcceptCountAccepted(r) \/ AcceptReadQuote(r) \/ AcceptRollback(r)
        PROVE TypeOK'
    BY <2>3, DoneType, GotoType
       DEF AcceptCountAccepted, AcceptReadQuote, AcceptRollback, PCs
  <2>4. ASSUME NEW r \in Requests, AcceptTx(r) PROVE TypeOK'
    <3>1. epoch' \in 0..MaxAccepts
      BY <2>4, BoundsAssumption DEF AcceptTx
    <3>2. quote' \in [Providers -> QuoteStatus]
      BY <2>4 DEF AcceptTx, QuotesAfterAccept, QuoteStatus
    <3>3. (IF Exists THEN asg.id ELSE epoch') \in 0..MaxAccepts
      BY <3>1 DEF Assignment
    <3>4. reqs[r].provider \in Providers \cup {NoProvider}
      BY DEF Request
    <3>5. asg' \in Assignment
      BY <2>4, <3>3, <3>4, FreshAssignmentType DEF AcceptTx
    <3> QED BY <2>4, <3>1, <3>2, <3>5, DoneType DEF AcceptTx
  <2>5. ASSUME NEW r \in Requests, RevokeReadAssignment(r) PROVE TypeOK'
    BY <2>5, DoneType, GotoType DEF RevokeReadAssignment, PCs
  <2>6. ASSUME NEW r \in Requests, RevokeTx(r) PROVE TypeOK'
    BY <2>6, DoneType, NoAssignmentType
       DEF RevokeTx, DeclinedToPending, QuoteStatus
  <2>7. ASSUME NEW r \in Requests, ScheduleWrite(r) PROVE TypeOK'
    <3>1. asg.version + 1 \in 0..MaxVersion
      BY <2>7, BoundsAssumption DEF ScheduleWrite, Assignment
    <3>2. reqs[r].window \in Windows \cup {NoWindow}
      BY DEF Request
    <3>3. ProposalStatus(reqs[r].op) \in ASSIGNMENT_STATUS
      BY DEF ProposalStatus, ASSIGNMENT_STATUS
    <3>4. asg' \in Assignment
      BY <2>7, <3>1, <3>2, <3>3 DEF ScheduleWrite, Assignment, ASSIGNMENT_STATUS
    <3> QED BY <2>7, <3>4, DoneType DEF ScheduleWrite
  <2>8. ASSUME NEW r \in Requests, ScheduleConflict(r) \/ RejectRollback(r)
        PROVE TypeOK'
    BY <2>8, DoneType DEF ScheduleConflict, RejectRollback
  <2>9. ASSUME NEW r \in Requests, CompleteWrite(r) PROVE TypeOK'
    BY <2>9, DoneType DEF CompleteWrite, Assignment, ASSIGNMENT_STATUS
  <2>10. ASSUME NEW r \in Requests, RejectTx(r) PROVE TypeOK'
    <3>1. asg.version + 1 \in 0..MaxVersion
      BY <2>10, BoundsAssumption DEF RejectTx, Assignment
    <3>2. asg' \in Assignment
      BY <2>10, <3>1
         DEF RejectTx, RejectedAssignment, Assignment, ASSIGNMENT_STATUS, PayoutStatus
    <3>3. quote' \in [Providers -> QuoteStatus]
      BY <2>10 DEF RejectTx, QuotesAfterReject, DeclinedToPending, QuoteStatus
    <3> QED BY <2>10, <3>2, <3>3, DoneType DEF RejectTx
  <2>11. ASSUME NEW r \in Requests, VerifyWrite(r) PROVE TypeOK'
    <3>1. asg' \in Assignment
      BY <2>11 DEF VerifyWrite, Assignment, ASSIGNMENT_STATUS
    <3>2. reqs' \in [Requests -> Request]
      BY <2>11, DoneType, GotoType DEF VerifyWrite, PCs
    <3> QED BY <2>11, <3>1, <3>2 DEF VerifyWrite
  <2>12. ASSUME NEW r \in Requests, VerifyReread(r) PROVE TypeOK'
    <3>1. "customerComplete" \in Ops
      BY <2>12 DEF VerifyReread, At, Request
    <3>2. ReadAssignment("customerComplete", "payment") \in Request
      BY <3>1, ReadAssignmentType DEF PCs
    <3> QED BY <2>12, <3>2, ServeType DEF VerifyReread
  <2>13. ASSUME NEW r \in Requests, VerifyPayment(r) PROVE TypeOK'
    BY <2>13, DoneType, GotoType DEF VerifyPayment, PCs
  <2>14. ASSUME NEW r \in Requests, VerifyPayout(r) PROVE TypeOK'
    BY <2>14, DoneType DEF VerifyPayout, Assignment, PayoutStatus
  <2>15. ASSUME NEW s \in {"APPROVED", "BLOCKED"}, SetPayoutStatus(s)
         PROVE TypeOK'
    BY <2>15 DEF SetPayoutStatus, Assignment, PayoutStatus
  <2>16. ASSUME NEW r \in Requests, Crash(r) PROVE TypeOK'
    BY <2>16, DoneType DEF Crash
  <2>17. CASE UNCHANGED vars
    BY <2>17 DEF vars
  <2> QED
    BY <2>1, <2>2, <2>3, <2>4, <2>5, <2>6, <2>7, <2>8, <2>9, <2>10, <2>11,
       <2>12, <2>13, <2>14, <2>15, <2>16, <2>17 DEF Next, Continue
<1> QED BY <1>1, <1>2, PTL DEF Spec

-----------------------------------------------------------------------------
(* At most one accepted quote *)

\* acceptQuote, revokeAcceptance and rejectAssignment, in any interleaving,
\* never leave two quotes of the job accepted.
THEOREM OneAccepted == Spec => []AtMostOneAccepted
<1>1. Init => AtMostOneAccepted
  BY DEF Init, AtMostOneAccepted
<1>2. TypeOK /\ AtMostOneAccepted /\ [Next]_vars => AtMostOneAccepted'
  <2> SUFFICES ASSUME TypeOK, AtMostOneAccepted, [Next]_vars
               PROVE  AtMostOneAccepted'
    OBVIOUS
  <2> USE DEF AtMostOneAccepted
  <2>1. ASSUME NEW r \in Requests, CreateQuoteInsert(r) PROVE AtMostOneAccepted'
    BY <2>1 DEF CreateQuoteInsert, TypeOK
  <2>2. ASSUME NEW r \in Requests, AcceptTx(r) PROVE AtMostOneAccepted'
    BY <2>2 DEF AcceptTx, QuotesAfterAccept
  <2>3. ASSUME NEW r \in Requests, RevokeTx(r) PROVE AtMostOneAccepted'
    BY <2>3 DEF RevokeTx, DeclinedToPending
  <2>4. ASSUME NEW r \in Requests, RejectTx(r) PROVE AtMostOneAccepted'
    BY <2>4 DEF RejectTx, QuotesAfterReject, DeclinedToPending
  <2>5. CASE UNCHANGED quote
    BY <2>5
  <2> QED
    BY <2>1, <2>2, <2>3, <2>4, <2>5, ArriveType
       DEF Next, Continue, vars, Crash, SetPayoutStatus, AcceptCountAccepted,
           AcceptReadQuote, AcceptRollback, RevokeReadAssignment,
           ScheduleWrite, ScheduleConflict, CompleteWrite, RejectRollback,
           VerifyWrite, VerifyReread, VerifyPayment, VerifyPayout
<1> QED BY <1>1, <1>2, TypeCorrect, PTL DEF Spec

-----------------------------------------------------------------------------
(* The optimistic lock *)

\* A handler in flight read its assignment in this acceptance or an earlier one.
EpochsBehind == \A r \in Requests : reqs[r].epoch <= epoch

LockInv == TypeOK /\ EpochsBehind /\ VersionIdentifiesSchedule

\* VersionIdentifiesSchedule for one request.
LockedFor(r) ==
  (Exists /\ reqs[r].op \in ScheduleOps \cup {"view"} /\ reqs[r].epoch = epoch)
    => /\ reqs[r].version <= asg.version
       /\ VersionMatches(r) =>
            CASE reqs[r].op = "view" -> asg.window = reqs[r].window
              [] reqs[r].op = "confirmSchedule" ->
                   asg.window = reqs[r].window /\ asg.window # NoWindow
              [] OTHER -> asg.status # "provider_rejected"

\* What a step does to the slots other than the one it serves.
LEMMA OtherSlots ==
  ASSUME TypeOK, NEW r \in Requests, Arrive(r) \/ Continue(r) \/ Crash(r)
  PROVE  \A q \in Requests \ {r} : reqs'[q] = reqs[q]
BY DEF TypeOK, Arrive, Continue, Crash, Begin, Serve, Goto, Done,
       CreateQuoteRead, AcceptReadJob, RevokeReadQuote, ViewAssignment,
       ProposeRead, ConfirmRead, CompleteRead, RejectRead, VerifyRead,
       CreateQuoteInsert, AcceptCountAccepted, AcceptReadQuote, AcceptTx,
       AcceptRollback, RevokeReadAssignment, RevokeTx, ScheduleWrite,
       ScheduleConflict, CompleteWrite, RejectTx, RejectRollback, VerifyWrite,
       VerifyReread, VerifyPayment, VerifyPayout

\* A statement that ends its request leaves an idle slot, one that goes on
\* keeps what the handler read, except for handleCustomerVerification's re-read.
LEMMA ContinueSlot ==
  ASSUME TypeOK, NEW r \in Requests, Continue(r) \/ Crash(r)
  PROVE  \/ reqs'[r] = Idle
         \/ reqs'[r].op = reqs[r].op /\ reqs'[r].op \notin ScheduleOps \cup {"view"}
            /\ reqs'[r].epoch \in {reqs[r].epoch, epoch}
<1> DEFINE Kept ==
      /\ reqs'[r].op = reqs[r].op /\ reqs'[r].op \notin ScheduleOps \cup {"view"}
      /\ reqs'[r].epoch \in {reqs[r].epoch, epoch}
<1>1. ASSUME Done(r) PROVE reqs'[r] = Idle
  BY <1>1 DEF Done, Serve, TypeOK
<1>2. ASSUME NEW pc, Goto(r, pc),
             reqs[r].op \in {"acceptQuote", "revokeAcceptance", "customerComplete"}
      PROVE  Kept
  <2>1. reqs'[r] = [reqs[r] EXCEPT !.pc = pc]
    BY <1>2 DEF Goto, Serve, TypeOK
  <2>2. reqs[r] \in Request
    BY DEF TypeOK
  <2>3. reqs'[r].op = reqs[r].op /\ reqs'[r].epoch = reqs[r].epoch
    BY <2>1, <2>2 DEF Request
  <2> QED BY <1>2, <2>3 DEF ScheduleOps
<1>3. ASSUME VerifyReread(r) PROVE Kept
  <2>1. reqs'[r] = ReadAssignment("customerComplete", "payment")
    BY <1>3 DEF VerifyReread, Serve, TypeOK
  <2>2. reqs'[r].op = "customerComplete" /\ reqs'[r].epoch = epoch
    BY <2>1 DEF ReadAssignment, Idle
  <2> QED BY <1>3, <2>2 DEF VerifyReread, At, ScheduleOps
<1>4. ASSUME AcceptCountAccepted(r) \/ AcceptReadQuote(r) \/ RevokeReadAssignment(r)
             \/ VerifyWrite(r) \/ VerifyPayment(r)
      PROVE  Done(r) \/ Kept
  BY <1>4, <1>2 DEF AcceptCountAccepted, AcceptReadQuote, RevokeReadAssignment,
     VerifyWrite, VerifyPayment, At
<1>5. ASSUME \/ CreateQuoteInsert(r) \/ AcceptTx(r) \/ AcceptRollback(r)
             \/ RevokeTx(r) \/ ScheduleWrite(r) \/ ScheduleConflict(r)
             \/ CompleteWrite(r) \/ RejectTx(r) \/ RejectRollback(r)
             \/ VerifyPayout(r) \/ Crash(r)
      PROVE  Done(r)
  BY <1>5 DEF CreateQuoteInsert, AcceptTx, AcceptRollback, RevokeTx,
     ScheduleWrite, ScheduleConflict, CompleteWrite, RejectTx, RejectRollback,
     VerifyPayout, Crash
<1> QED BY <1>1, <1>3, <1>4, <1>5 DEF Continue

\* Every step leaves the assignment's schedule alone, moves it to the next
\* version, starts another acceptance, or deletes the row.
AssignmentStep ==
  \/ /\ epoch' = epoch
     /\ asg'.id = asg.id /\ asg'.version = asg.version /\ asg'.window = asg.window
     /\ asg'.status = "provider_rejected" => asg.status = "provider_rejected"
  \/ epoch' = epoch /\ asg'.id = asg.id /\ asg'.version = asg.version + 1
  \/ epoch' = epoch + 1
  \/ epoch' = epoch /\ ~Exists'

LEMMA StepOfAssignment ==
  ASSUME TypeOK, [Next]_vars PROVE AssignmentStep
<1> USE DEF AssignmentStep
<1>1. ASSUME NEW r \in Requests, Arrive(r) PROVE AssignmentStep
  BY <1>1, ArriveType
<1>2. ASSUME NEW r \in Requests, AcceptTx(r) PROVE AssignmentStep
  BY <1>2 DEF AcceptTx
<1>3. ASSUME NEW r \in Requests, RevokeTx(r) PROVE AssignmentStep
  BY <1>3 DEF RevokeTx, Exists, NoAssignment
<1>4. ASSUME NEW r \in Requests, ScheduleWrite(r) PROVE AssignmentStep
  BY <1>4 DEF ScheduleWrite, TypeOK, Assignment
<1>5. ASSUME NEW r \in Requests, CompleteWrite(r) PROVE AssignmentStep
  BY <1>5 DEF CompleteWrite, TypeOK, Assignment
<1>6. ASSUME NEW r \in Requests, RejectTx(r) PROVE AssignmentStep
  BY <1>6 DEF RejectTx, RejectedAssignment, TypeOK, Assignment
<1>7. ASSUME NEW r \in Requests, VerifyWrite(r) PROVE AssignmentStep
  BY <1>7 DEF VerifyWrite, TypeOK, Assignment
<1>8. ASSUME NEW r \in Requests, VerifyPayout(r) PROVE AssignmentStep
  BY <1>8 DEF VerifyPayout, TypeOK, Assignment
<1>9. ASSUME NEW s \in {"APPROVED", "BLOCKED"}, SetPayoutStatus(s)
      PROVE  AssignmentStep
  BY <1>9 DEF SetPayoutStatus, TypeOK, Assignment
<1>10. CASE UNCHANGED <<asg, epoch>>
  BY <1>10
<1> QED
  BY <1>1, <1>2, <1>3, <1>4, <1>5, <1>6, <1>7, <1>8, <1>9, <1>10
     DEF Next, Continue, vars, Crash, CreateQuoteInsert, AcceptCountAccepted,
         AcceptReadQuote, AcceptRollback, RevokeReadAssignment,
         ScheduleConflict, RejectRollback, VerifyReread, VerifyPayment

LEMMA LockKept ==
  ASSUME LockInv, TypeOK', AssignmentStep, NEW q \in Requests, reqs'[q] = reqs[q]
  PROVE  LockedFor(q)' /\ reqs'[q].epoch <= epoch'
<1>1. reqs[q] \in Request /\ asg \in Assignment /\ epoch \in Nat
  BY BoundsAssumption DEF LockInv, TypeOK
<1>2. LockedFor(q) /\ reqs[q].epoch <= epoch
  BY DEF LockInv, VersionIdentifiesSchedule, EpochsBehind, LockedFor
<1>3. asg.version \in Nat /\ reqs[q].version \in Nat /\ reqs[q].epoch \in Nat
  BY <1>1, BoundsAssumption DEF Request, Assignment
<1>4. CASE epoch' = epoch + 1
  BY <1>2, <1>3, <1>1, <1>4 DEF LockedFor
<1>5. CASE epoch' = epoch /\ ~Exists'
  BY <1>2, <1>5 DEF LockedFor
<1>6. CASE epoch' = epoch /\ asg'.id = asg.id /\ asg'.version = asg.version + 1
  BY <1>2, <1>3, <1>6 DEF LockedFor, VersionMatches, Exists
<1>7. CASE /\ epoch' = epoch
           /\ asg'.id = asg.id /\ asg'.version = asg.version
           /\ asg'.window = asg.window
           /\ asg'.status = "provider_rejected" => asg.status = "provider_rejected"
  BY <1>2, <1>3, <1>7 DEF LockedFor, VersionMatches, Exists
<1> QED BY <1>4, <1>5, <1>6, <1>7 DEF AssignmentStep

\* A slot that has just read the assignment, or acted on the page it shows.
LEMMA LockTaken ==
  ASSUME LockInv, NEW r \in Requests, Arrive(r)
  PROVE  LockedFor(r)' /\ reqs'[r].epoch <= epoch'
<1> USE DEF LockedFor, VersionMatches, Exists
<1>1. UNCHANGED <<asg, epoch>> /\ asg \in Assignment /\ epoch \in Nat
  BY ArriveType, BoundsAssumption DEF LockInv, TypeOK
<1>2. asg.version \in Nat
  BY <1>1, BoundsAssumption DEF Assignment
<1>3. ASSUME NEW op, NEW p,
             \/ Begin(r, op, [Idle EXCEPT !.op = op, !.pc = "create", !.provider = p])
             \/ Begin(r, op, [Idle EXCEPT !.op = op, !.pc = "count", !.provider = p])
             \/ Begin(r, op, [Idle EXCEPT !.op = op, !.pc = "assignment", !.provider = p]),
             op \in {"createQuote", "acceptQuote", "revokeAcceptance"}
      PROVE  LockedFor(r)' /\ reqs'[r].epoch <= epoch'
  <2>1. reqs'[r].op = op /\ reqs'[r].epoch = 0
    BY <1>3 DEF Begin, Serve, Idle, LockInv, TypeOK
  <2> QED BY <1>1, <1>3, <2>1 DEF ScheduleOps
<1>4. ASSUME NEW op, NEW pc, Begin(r, op, ReadAssignment(op, pc)), op \notin ScheduleOps
      PROVE  LockedFor(r)' /\ reqs'[r].epoch <= epoch'
  <2>1. reqs'[r] = ReadAssignment(op, pc)
    BY <1>4 DEF Begin, Serve, LockInv, TypeOK
  <2>2. /\ reqs'[r].op = op /\ reqs'[r].epoch = epoch
        /\ reqs'[r].version = asg.version /\ reqs'[r].window = asg.window
    BY <2>1 DEF ReadAssignment, Idle
  <2> QED BY <1>1, <1>2, <1>4, <2>2
<1>5. ASSUME NEW op \in {"proposeAsCustomer", "proposeAsProvider"},
             NEW w \in Windows, ProposeRead(r, op, w)
      PROVE  LockedFor(r)' /\ reqs'[r].epoch <= epoch'
  <2>1. CASE Serve(r, [ReadAssignment(op, "write") EXCEPT !.window = w])
    <3>1. /\ reqs'[r].op = op /\ reqs'[r].epoch = epoch
          /\ reqs'[r].version = asg.version
      BY <2>1 DEF Serve, ReadAssignment, Idle, LockInv, TypeOK
    <3> QED BY <1>1, <1>2, <1>5, <3>1 DEF ProposeRead, PageProposal
  <2>2. CASE /\ At(r, "view", "page")
             /\ Serve(r, [reqs[r] EXCEPT !.op = op, !.pc = "write",
                                         !.window = w, !.id = asg.id])
    <3>1. reqs[r] \in Request
      BY DEF LockInv, TypeOK
    <3>2. /\ reqs'[r].op = op /\ reqs'[r].epoch = reqs[r].epoch
          /\ reqs'[r].version = reqs[r].version
      BY <2>2, <3>1 DEF Serve, Request, LockInv, TypeOK
    <3>3. LockedFor(r) /\ reqs[r].epoch <= epoch /\ reqs[r].op = "view"
      BY <2>2 DEF LockInv, VersionIdentifiesSchedule, EpochsBehind, At
    <3> QED BY <1>1, <1>5, <3>2, <3>3 DEF ProposeRead, PageProposal
  <2> QED BY <1>5, <2>1, <2>2 DEF ProposeRead, PageProposal
<1>6. ASSUME ConfirmRead(r) PROVE LockedFor(r)' /\ reqs'[r].epoch <= epoch'
  <2>1. reqs[r] \in Request
    BY DEF LockInv, TypeOK
  <2>2. /\ reqs'[r].op = "confirmSchedule" /\ reqs'[r].epoch = reqs[r].epoch
        /\ reqs'[r].version = reqs[r].version /\ reqs'[r].window = reqs[r].window
        /\ reqs'[r].id = reqs[r].id
    BY <1>6, <2>1 DEF ConfirmRead, PageConfirmation, Serve, Request, LockInv, TypeOK
  <2>3. LockedFor(r) /\ reqs[r].epoch <= epoch /\ reqs[r].op = "view"
    BY <1>6
    DEF ConfirmRead, PageConfirmation, LockInv, VersionIdentifiesSchedule, EpochsBehind, At
  <2> QED BY <1>1, <1>6, <2>2, <2>3 DEF ConfirmRead, PageConfirmation, ScheduleOps
<1> QED
  BY <1>3, <1>4, <1>5, <1>6
     DEF Arrive, CreateQuoteRead, AcceptReadJob, RevokeReadQuote, ViewAssignment,
         CompleteRead, RejectRead, VerifyRead, ScheduleOps

\* The induction step of the lock: each slot is served by the step or kept.
LEMMA LockStep ==
  LockInv /\ TypeOK' /\ [Next]_vars => LockInv'
<1> SUFFICES ASSUME LockInv, TypeOK', [Next]_vars PROVE LockInv'
  OBVIOUS
<1>1. AssignmentStep
  BY StepOfAssignment DEF LockInv
<1>2. ASSUME NEW q \in Requests PROVE LockedFor(q)' /\ reqs'[q].epoch <= epoch'
  <2>1. CASE reqs'[q] = reqs[q]
    BY <1>1, <2>1, LockKept
  <2>2. CASE reqs'[q] # reqs[q]
    <3>1. Arrive(q) \/ Continue(q) \/ Crash(q)
      BY <2>2, OtherSlots DEF Next, vars, SetPayoutStatus, LockInv
    <3>2. CASE Arrive(q)
      BY <3>2, LockTaken
    <3>3. CASE Continue(q) \/ Crash(q)
      <4>1. reqs'[q].op \notin ScheduleOps \cup {"view"}
        BY <3>3, ContinueSlot DEF LockInv, Idle, ScheduleOps
      <4>2. reqs'[q].epoch \in {0, reqs[q].epoch, epoch}
        BY <3>3, ContinueSlot DEF LockInv, Idle
      <4>3. epoch \in Nat /\ epoch' \in Nat /\ epoch <= epoch' /\ reqs[q].epoch <= epoch
        BY <1>1, BoundsAssumption DEF AssignmentStep, LockInv, TypeOK, EpochsBehind
      <4>4. reqs[q].epoch \in Nat
        BY BoundsAssumption DEF LockInv, TypeOK, Request
      <4> QED BY <4>1, <4>2, <4>3, <4>4 DEF LockedFor
    <3> QED BY <3>1, <3>2, <3>3
  <2> QED BY <2>1, <2>2
<1> QED BY <1>2 DEF LockInv, EpochsBehind, VersionIdentifiesSchedule, LockedFor

LEMMA LockCorrect == Spec => []LockInv
<1>1. Init => EpochsBehind /\ VersionIdentifiesSchedule
  BY BoundsAssumption DEF Init, EpochsBehind, VersionIdentifiesSchedule, Exists,
     NoAssignment, Idle
<1>2. Init /\ TypeOK => LockInv
  BY <1>1 DEF LockInv
<1> QED BY <1>2, LockStep, TypeCorrect, PTL DEF Spec

\* Within an acceptance, a version number pins the window and rules out a
\* rejection for every handler that still holds it.
THEOREM VersionLock == Spec => []VersionIdentifiesSchedule
<1>1. LockInv => VersionIdentifiesSchedule
  BY DEF LockInv
<1> QED BY <1>1, LockCorrect, PTL

-----------------------------------------------------------------------------
(* Handlers name rows that existed *)

RowOK ==
  /\ Exists => asg.status # "none" /\ epoch # 0
  /\ ~Exists => asg = NoAssignment

\* Requests that work on an assignment hold the id of a row, except between the
\* re-read and the payment of a verification whose assignment was revoked.
NamesRow(r) ==
  /\ \/ reqs[r].op \in {"none", "createQuote", "acceptQuote", "revokeAcceptance"}
     \/ At(r, "customerComplete", "payment")
     \/ reqs[r].id # 0
  /\ reqs[r].op \in ScheduleOps \cup {"view"} => reqs[r].epoch # 0
  /\ reqs[r].op \in {"proposeAsCustomer", "proposeAsProvider"} =>
       reqs[r].window \in Windows

RowInv == TypeOK /\ RowOK /\ \A r \in Requests : NamesRow(r)

LEMMA RowTaken ==
  ASSUME RowInv, NEW r \in Requests, Arrive(r)
  PROVE  NamesRow(r)'
<1> USE DEF NamesRow, At
<1>1. /\ UNCHANGED <<asg, epoch>>
      /\ Exists => asg.id # 0 /\ epoch # 0
  BY ArriveType DEF RowInv, RowOK, Exists
<1>2. ASSUME NEW op, NEW p,
             \/ Begin(r, op, [Idle EXCEPT !.op = op, !.pc = "create", !.provider = p])
             \/ Begin(r, op, [Idle EXCEPT !.op = op, !.pc = "count", !.provider = p])
             \/ Begin(r, op, [Idle EXCEPT !.op = op, !.pc = "assignment", !.provider = p]),
             op \in {"createQuote", "acceptQuote", "revokeAcceptance"}
      PROVE  NamesRow(r)'
  <2>1. reqs'[r].op = op
    BY <1>2 DEF Begin, Serve, Idle, RowInv, TypeOK
  <2> QED BY <1>2, <2>1 DEF ScheduleOps
<1>3. ASSUME NEW op, NEW pc, Exists, Begin(r, op, ReadAssignment(op, pc)),
             op \notin ScheduleOps
      PROVE  NamesRow(r)'
  <2>1. reqs'[r] = ReadAssignment(op, pc)
    BY <1>3 DEF Begin, Serve, RowInv, TypeOK
  <2>2. reqs'[r].op = op /\ reqs'[r].epoch = epoch /\ reqs'[r].id = asg.id
    BY <2>1 DEF ReadAssignment, Idle
  <2> QED BY <1>1, <1>3, <2>2 DEF ScheduleOps
<1>4. ASSUME NEW op \in {"proposeAsCustomer", "proposeAsProvider"},
             NEW w \in Windows, ProposeRead(r, op, w)
      PROVE  NamesRow(r)'
  <2>1. CASE Serve(r, [ReadAssignment(op, "write") EXCEPT !.window = w])
    <3>1. /\ reqs'[r].op = op /\ reqs'[r].epoch = epoch
          /\ reqs'[r].id = asg.id /\ reqs'[r].window = w
      BY <2>1 DEF Serve, ReadAssignment, Idle, RowInv, TypeOK
    <3> QED BY <1>1, <1>4, <3>1 DEF ProposeRead, PageProposal
  <2>2. CASE /\ At(r, "view", "page")
             /\ Serve(r, [reqs[r] EXCEPT !.op = op, !.pc = "write",
                                         !.window = w, !.id = asg.id])
    <3>1. reqs[r] \in Request
      BY DEF RowInv, TypeOK
    <3>2. /\ reqs'[r].op = op /\ reqs'[r].epoch = reqs[r].epoch
          /\ reqs'[r].id = asg.id /\ reqs'[r].window = w
      BY <2>2, <3>1 DEF Serve, Request, RowInv, TypeOK
    <3>3. NamesRow(r) /\ reqs[r].op = "view"
      BY <2>2 DEF RowInv
    <3> QED BY <1>1, <1>4, <3>2, <3>3 DEF ProposeRead, PageProposal
  <2> QED BY <1>4, <2>1, <2>2 DEF ProposeRead, PageProposal
<1>5. ASSUME ConfirmRead(r) PROVE NamesRow(r)'
  <2>1. reqs[r] \in Request
    BY DEF RowInv, TypeOK
  <2>2. /\ reqs'[r].op = "confirmSchedule" /\ reqs'[r].epoch = reqs[r].epoch
        /\ reqs'[r].id = reqs[r].id
    BY <1>5, <2>1 DEF ConfirmRead, PageConfirmation, Serve, Request, RowInv, TypeOK
  <2>3. NamesRow(r) /\ reqs[r].op = "view"
    BY <1>5 DEF ConfirmRead, PageConfirmation, RowInv
  <2> QED BY <2>2, <2>3 DEF ScheduleOps
<1> QED
  BY <1>2, <1>3, <1>4, <1>5
     DEF Arrive, CreateQuoteRead, AcceptReadJob, RevokeReadQuote, ViewAssignment,
         CompleteRead, RejectRead, VerifyRead, ScheduleOps

LEMMA RowContinued ==
  ASSUME RowInv, NEW r \in Requests, Continue(r) \/ Crash(r)
  PROVE  NamesRow(r)'
<1>1. CASE reqs'[r] = Idle
  BY <1>1 DEF NamesRow, Idle, ScheduleOps
<1>2. CASE reqs'[r].op = reqs[r].op /\ reqs'[r].op \notin ScheduleOps \cup {"view"}
           /\ reqs'[r] # Idle
  <2>1. reqs[r] \in Request
    BY DEF RowInv, TypeOK
  <2>2. CASE reqs[r].op # "customerComplete"
    <3>1. reqs[r].op \in {"none", "acceptQuote", "revokeAcceptance"}
      BY <1>2, <2>2 DEF Continue, Crash, At, Serve, Goto, Done, RowInv, TypeOK,
         CreateQuoteInsert, AcceptCountAccepted, AcceptReadQuote, AcceptTx,
         AcceptRollback, RevokeReadAssignment, RevokeTx, ScheduleWrite,
         ScheduleConflict, CompleteWrite, RejectTx, RejectRollback, VerifyWrite,
         VerifyReread, VerifyPayment, VerifyPayout
    <3> QED BY <1>2, <3>1 DEF NamesRow, ScheduleOps
  <2>3. CASE reqs[r].op = "customerComplete"
    <3>1. VerifyWrite(r) \/ VerifyReread(r) \/ VerifyPayment(r)
      BY <1>2, <2>3 DEF Continue, Crash, At, Serve, Done, RowInv, TypeOK,
         CreateQuoteInsert, AcceptCountAccepted, AcceptReadQuote, AcceptTx,
         AcceptRollback, RevokeReadAssignment, RevokeTx, ScheduleWrite,
         ScheduleConflict, CompleteWrite, RejectTx, RejectRollback, VerifyPayout,
         ScheduleOps
    <3>2. CASE VerifyReread(r)
      <4>1. reqs'[r].pc = "payment"
        BY <3>2 DEF VerifyReread, Serve, ReadAssignment, Idle, RowInv, TypeOK
      <4> QED BY <1>2, <2>3, <4>1 DEF NamesRow, At, ScheduleOps
    <3>3. CASE VerifyWrite(r) \/ VerifyPayment(r)
      <4>1. PICK pc : Goto(r, pc)
        BY <1>2, <3>3 DEF VerifyWrite, VerifyPayment, Done, Serve, RowInv, TypeOK
      <4>2. reqs'[r].id = reqs[r].id
        BY <2>1, <4>1 DEF Goto, Serve, Request, RowInv, TypeOK
      <4>3. reqs[r].id # 0
        BY <1>2, <2>3, <3>3
           DEF VerifyWrite, VerifyPayment, Done, Serve, RowInv, TypeOK, NamesRow, At
      <4> QED BY <1>2, <2>3, <4>2, <4>3 DEF NamesRow, ScheduleOps
    <3> QED BY <3>1, <3>2, <3>3
  <2> QED BY <2>2, <2>3
<1> QED BY <1>1, <1>2, ContinueSlot DEF RowInv

LEMMA RowStep ==
  RowInv /\ TypeOK' /\ [Next]_vars => RowInv'
<1> SUFFICES ASSUME RowInv, TypeOK', [Next]_vars PROVE RowInv'
  OBVIOUS
<1>1. ASSUME NEW q \in Requests PROVE NamesRow(q)'
  <2>1. CASE reqs'[q] = reqs[q]
    BY <2>1 DEF RowInv, NamesRow, At
  <2>2. CASE reqs'[q] # reqs[q]
    <3>1. Arrive(q) \/ Continue(q) \/ Crash(q)
      BY <2>2, OtherSlots DEF Next, vars, SetPayoutStatus, RowInv
    <3> QED BY <3>1, RowTaken, RowContinued
  <2> QED BY <2>1, <2>2
<1>2. RowOK'
  <2> USE DEF RowOK, Exists
  <2>1. asg \in Assignment /\ epoch \in Nat
    BY BoundsAssumption DEF RowInv, TypeOK
  <2>2. ASSUME NEW r \in Requests, AcceptTx(r) PROVE RowOK'
    BY <2>1, <2>2 DEF AcceptTx, FreshAssignment, NoAssignment, RowInv
  <2>3. ASSUME NEW r \in Requests, RevokeTx(r) PROVE RowOK'
    BY <2>3 DEF RevokeTx, NoAssignment, RowInv
  <2>4. ASSUME NEW r \in Requests, ScheduleWrite(r) PROVE RowOK'
    <3>1. asg.id # 0
      BY <2>4 DEF ScheduleWrite, VersionMatches, RowInv, NamesRow, At, ScheduleOps
    <3> QED BY <2>1, <2>4, <3>1 DEF ScheduleWrite, Assignment, ProposalStatus, RowInv
  <2>5. ASSUME NEW r \in Requests, CompleteWrite(r) PROVE RowOK'
    <3>1. reqs[r].id # 0
      BY <2>5 DEF CompleteWrite, RowInv, NamesRow, At
    <3> QED BY <2>1, <2>5, <3>1 DEF CompleteWrite, Assignment, RowInv
  <2>6. ASSUME NEW r \in Requests, RejectTx(r) PROVE RowOK'
    <3>1. asg.id # 0
      BY <2>6 DEF RejectTx, RowInv, NamesRow, At
    <3> QED BY <2>1, <2>6, <3>1 DEF RejectTx, RejectedAssignment, Assignment, RowInv
  <2>7. ASSUME NEW r \in Requests, VerifyWrite(r) PROVE RowOK'
    <3>1. reqs[r].id # 0
      BY <2>7 DEF VerifyWrite, RowInv, NamesRow, At
    <3> QED BY <2>1, <2>7, <3>1 DEF VerifyWrite, Assignment, RowInv
  <2>8. ASSUME NEW r \in Requests, VerifyPayout(r) PROVE RowOK'
    <3>1. reqs[r].id # 0
      BY <2>8 DEF VerifyPayout, RowInv, NamesRow, At
    <3> QED BY <2>1, <2>8, <3>1 DEF VerifyPayout, Assignment, RowInv
  <2>9. ASSUME NEW s \in {"APPROVED", "BLOCKED"}, SetPayoutStatus(s) PROVE RowOK'
    BY <2>1, <2>9 DEF SetPayoutStatus, Assignment, RowInv
  <2>10. CASE UNCHANGED <<asg, epoch>>
    BY <2>10 DEF RowInv
  <2> QED
    BY <2>2, <2>3, <2>4, <2>5, <2>6, <2>7, <2>8, <2>9, <2>10, ArriveType
       DEF Next, Continue, vars, Crash, CreateQuoteInsert, AcceptCountAccepted,
           AcceptReadQuote, AcceptRollback, RevokeReadAssignment,
           ScheduleConflict, RejectRollback, VerifyReread, VerifyPayment, RowInv
<1> QED BY <1>1, <1>2 DEF RowInv

LEMMA RowCorrect == Spec => []RowInv
<1>1. Init /\ TypeOK => RowInv
  BY DEF Init, RowInv, RowOK, NamesRow, Idle, NoAssignment, Exists, ScheduleOps
<1> QED BY <1>1, RowStep, TypeCorrect, PTL DEF Spec

-----------------------------------------------------------------------------
(* What the lock gives: action properties of the schedule *)

\* Only ScheduleWrite makes a schedule request take effect.
LEMMA WriterStep ==
  ASSUME TypeOK, [Next]_vars, NEW r \in Requests, WritesSchedule(r)
  PROVE  ScheduleWrite(r)
<1>1. reqs[r] \in Request /\ asg.version \in Nat
  BY BoundsAssumption DEF TypeOK, Assignment
<1>2. reqs'[r] # reqs[r] /\ reqs[r] # Idle
  BY <1>1 DEF WritesSchedule, Idle, ScheduleOps
<1>3. Arrive(r) \/ Continue(r) \/ Crash(r)
  BY <1>2, OtherSlots DEF Next, vars, SetPayoutStatus
<1>4. asg' # asg
  BY <1>1 DEF WritesSchedule
<1>5. Continue(r)
  BY <1>3, <1>4, ArriveType DEF Crash
<1> QED
  BY <1>4, <1>5 DEF WritesSchedule, ScheduleOps, Continue, At,
     CreateQuoteInsert, AcceptCountAccepted, AcceptReadQuote, AcceptTx,
     AcceptRollback, RevokeReadAssignment, RevokeTx, ScheduleConflict,
     CompleteWrite, RejectTx, RejectRollback, VerifyWrite, VerifyReread,
     VerifyPayment, VerifyPayout

\* A statement that writes a window writes the status with it, and a rejection
\* clears the window with the status.
LEMMA RejectedWindowStep ==
  TypeOK /\ RejectedHasNoWindow /\ [Next]_vars => RejectedHasNoWindow'
<1> SUFFICES ASSUME TypeOK, RejectedHasNoWindow, [Next]_vars
             PROVE  RejectedHasNoWindow'
  OBVIOUS
<1> USE DEF RejectedHasNoWindow
<1>1. asg \in Assignment
  BY DEF TypeOK
<1>2. ASSUME NEW r \in Requests, AcceptTx(r) PROVE RejectedHasNoWindow'
  BY <1>2 DEF AcceptTx, FreshAssignment, NoAssignment
<1>3. ASSUME NEW r \in Requests, RevokeTx(r) PROVE RejectedHasNoWindow'
  BY <1>3 DEF RevokeTx, NoAssignment
<1>4. ASSUME NEW r \in Requests, ScheduleWrite(r) PROVE RejectedHasNoWindow'
  BY <1>1, <1>4 DEF ScheduleWrite, Assignment, ProposalStatus
<1>5. ASSUME NEW r \in Requests, CompleteWrite(r) PROVE RejectedHasNoWindow'
  BY <1>1, <1>5 DEF CompleteWrite, Assignment
<1>6. ASSUME NEW r \in Requests, RejectTx(r) PROVE RejectedHasNoWindow'
  BY <1>1, <1>6 DEF RejectTx, RejectedAssignment, Assignment
<1>7. ASSUME NEW r \in Requests, VerifyWrite(r) PROVE RejectedHasNoWindow'
  BY <1>1, <1>7 DEF VerifyWrite, Assignment
<1>8. ASSUME NEW r \in Requests, VerifyPayout(r) PROVE RejectedHasNoWindow'
  BY <1>1, <1>8 DEF VerifyPayout, Assignment
<1>9. ASSUME NEW s \in {"APPROVED", "BLOCKED"}, SetPayoutStatus(s)
      PROVE  RejectedHasNoWindow'
  BY <1>1, <1>9 DEF SetPayoutStatus, Assignment
<1>10. CASE UNCHANGED asg
  BY <1>10
<1> QED
  BY <1>2, <1>3, <1>4, <1>5, <1>6, <1>7, <1>8, <1>9, <1>10, ArriveType
     DEF Next, Continue, vars, Crash, CreateQuoteInsert, AcceptCountAccepted,
         AcceptReadQuote, AcceptRollback, RevokeReadAssignment,
         ScheduleConflict, RejectRollback, VerifyReread, VerifyPayment

\* A rejection leaves no window behind, in any interleaving.
THEOREM RejectionClearsWindow == Spec => []RejectedHasNoWindow
<1>1. Init => RejectedHasNoWindow
  BY DEF Init, RejectedHasNoWindow, NoAssignment
<1> QED BY <1>1, RejectedWindowStep, TypeCorrect, PTL DEF Spec

\* A confirmation in the acceptance its page showed agrees to the window that
\* page showed.
THEOREM ConfirmationIsInformed == Spec => ConfirmsShownWindow
<1>1. LockInv /\ RowInv /\ [Next]_vars =>
        \A r \in Requests : Confirms(r) /\ reqs[r].epoch = epoch =>
          asg'.window = reqs[r].window /\ asg'.window # NoWindow
  <2> SUFFICES ASSUME LockInv, RowInv, [Next]_vars, NEW r \in Requests,
                      Confirms(r), reqs[r].epoch = epoch
               PROVE  asg'.window = reqs[r].window /\ asg'.window # NoWindow
    OBVIOUS
  <2>1. ScheduleWrite(r)
    BY WriterStep DEF LockInv, Confirms
  <2>2. Exists
    BY <2>1 DEF ScheduleWrite, VersionMatches, Exists, RowInv, NamesRow, At,
       ScheduleOps
  <2>3. asg.window = reqs[r].window /\ asg.window # NoWindow
    BY <2>1, <2>2 DEF LockInv, VersionIdentifiesSchedule, Confirms, ScheduleWrite
  <2>4. asg'.window = asg.window
    BY <2>1 DEF Confirms, ScheduleWrite, LockInv, TypeOK, Assignment
  <2> QED BY <2>3, <2>4
<1> QED BY <1>1, LockCorrect, RowCorrect, PTL DEF Spec, ConfirmsShownWindow

\* Within an acceptance no proposal and no confirmation lands on a rejected
\* assignment.
THEOREM RejectionIsFinal == Spec => NoScheduleAfterRejection
<1>1. LockInv /\ RowInv /\ RejectedHasNoWindow /\ [Next]_vars =>
        \A r \in Requests : WritesSchedule(r) /\ reqs[r].epoch = epoch =>
          asg.status # "provider_rejected"
  <2> SUFFICES ASSUME LockInv, RowInv, RejectedHasNoWindow, [Next]_vars,
                      NEW r \in Requests, WritesSchedule(r), reqs[r].epoch = epoch
               PROVE  asg.status # "provider_rejected"
    OBVIOUS
  <2>1. ScheduleWrite(r)
    BY WriterStep DEF LockInv
  <2>2. Exists
    BY <2>1 DEF ScheduleWrite, VersionMatches, Exists, RowInv, NamesRow, At,
       ScheduleOps
  <2>3. CASE reqs[r].op = "confirmSchedule"
    BY <2>1, <2>2, <2>3 DEF LockInv, VersionIdentifiesSchedule, ScheduleWrite,
       RejectedHasNoWindow
  <2>4. CASE reqs[r].op # "confirmSchedule"
    BY <2>1, <2>2, <2>4 DEF LockInv, VersionIdentifiesSchedule, ScheduleWrite,
       ScheduleOps
  <2> QED BY <2>3, <2>4
<1> QED
  BY <1>1, LockCorrect, RowCorrect, RejectionClearsWindow, PTL
     DEF Spec, NoScheduleAfterRejection

\* No window is replaced under an unchanged version.
THEOREM WindowsAreVersioned == Spec => WindowChangesAreVersioned
<1>1. TypeOK /\ [Next]_vars =>
        (Exists /\ Exists' /\ epoch' = epoch =>
           /\ asg'.version >= asg.version
           /\ asg'.window # asg.window => asg'.version = asg.version + 1)
  <2> SUFFICES ASSUME TypeOK, [Next]_vars, Exists', epoch' = epoch
               PROVE  /\ asg'.version >= asg.version
                      /\ asg'.window # asg.window => asg'.version = asg.version + 1
    OBVIOUS
  <2>1. asg.version \in Nat /\ epoch \in Nat
    BY BoundsAssumption DEF TypeOK, Assignment
  <2> QED BY <2>1, StepOfAssignment DEF AssignmentStep
<1> QED BY <1>1, TypeCorrect, PTL DEF Spec, WindowChangesAreVersioned

-----------------------------------------------------------------------------
(* The accepted quote and the assignment *)

\* Without revocations, the quote an accept request in flight names is accepted
\* or declined as soon as some quote of the job is accepted.
AcceptInv ==
  /\ AcceptedMatchesAssignment
  /\ \A r \in Requests : reqs[r].op = "acceptQuote" =>
       /\ reqs[r].provider \in Providers
       /\ quote[reqs[r].provider] # "none"
       /\ (\E p \in Providers : quote[p] = "accepted") =>
            quote[reqs[r].provider] # "pending"

\* A statement of an accept request that goes on keeps the provider it names.
LEMMA AcceptSlot ==
  ASSUME TypeOK, NEW r \in Requests, Arrive(r) \/ Continue(r) \/ Crash(r),
         reqs'[r].op = "acceptQuote"
  PROVE  \/ \E p \in Providers : AcceptReadJob(r, p) /\ reqs'[r].provider = p
         \/ /\ AcceptCountAccepted(r) \/ AcceptReadQuote(r)
            /\ reqs[r].op = "acceptQuote" /\ reqs'[r].provider = reqs[r].provider
<1>1. reqs[r] \in Request
  BY DEF TypeOK
<1>2. ASSUME NEW p \in Providers, AcceptReadJob(r, p)
      PROVE  reqs'[r].provider = p
  BY <1>2 DEF AcceptReadJob, Begin, Serve, Idle, TypeOK
<1>3. CASE Arrive(r)
  <2>1. ASSUME NEW op, NEW req, Begin(r, op, req), req.op # "acceptQuote"
        PROVE  FALSE
    BY <2>1 DEF Begin, Serve, TypeOK
  <2>2. ASSUME NEW p \in Providers, CreateQuoteRead(r, p) PROVE FALSE
    BY <2>1, <2>2 DEF CreateQuoteRead, Idle
  <2>3. ASSUME RevokeReadQuote(r) PROVE FALSE
    BY <2>1, <2>3 DEF RevokeReadQuote, Idle
  <2>4. ASSUME ViewAssignment(r) \/ CompleteRead(r) \/ RejectRead(r) \/ VerifyRead(r)
        PROVE  FALSE
    BY <2>1, <2>4 DEF ViewAssignment, CompleteRead, RejectRead, VerifyRead,
       ReadAssignment, Idle
  <2>5. ASSUME NEW w \in Windows, NEW op \in {"proposeAsCustomer", "proposeAsProvider"},
               ProposeRead(r, op, w)
        PROVE  FALSE
    <3>1. CASE Serve(r, [ReadAssignment(op, "write") EXCEPT !.window = w])
      BY <3>1 DEF Serve, ReadAssignment, Idle, TypeOK
    <3>2. CASE Serve(r, [reqs[r] EXCEPT !.op = op, !.pc = "write",
                                        !.window = w, !.id = asg.id])
      BY <1>1, <3>2 DEF Serve, TypeOK, Request
    <3> QED BY <2>5, <3>1, <3>2 DEF ProposeRead, PageProposal
  <2>6. ASSUME ConfirmRead(r) PROVE FALSE
    BY <1>1, <2>6 DEF ConfirmRead, PageConfirmation, Serve, TypeOK, Request
  <2> QED BY <1>2, <1>3, <2>2, <2>3, <2>4, <2>5, <2>6 DEF Arrive
<1>4. CASE Continue(r) \/ Crash(r)
  <2>1. reqs'[r] # Idle
    BY DEF Idle
  <2>2. reqs[r].op = "acceptQuote"
    BY <1>4, <2>1, ContinueSlot
  <2>3. AcceptCountAccepted(r) \/ AcceptReadQuote(r)
    BY <1>4, <2>1, <2>2 DEF Continue, Crash, At, Serve, Done, TypeOK, ScheduleOps,
       CreateQuoteInsert, AcceptTx, AcceptRollback, RevokeReadAssignment,
       RevokeTx, ScheduleWrite, ScheduleConflict, CompleteWrite, RejectTx,
       RejectRollback, VerifyWrite, VerifyReread, VerifyPayment, VerifyPayout
  <2>4. PICK pc : Goto(r, pc)
    BY <2>1, <2>3 DEF AcceptCountAccepted, AcceptReadQuote, Done, Serve, TypeOK
  <2>5. reqs'[r].provider = reqs[r].provider
    BY <1>1, <2>4 DEF Goto, Serve, Request, TypeOK
  <2> QED BY <2>2, <2>3, <2>5
<1> QED BY <1>3, <1>4

LEMMA AcceptStep ==
  ASSUME "revokeAcceptance" \notin Ops
  PROVE  AcceptInv /\ RowInv /\ AtMostOneAccepted /\ [Next]_vars => AcceptInv'
<1> SUFFICES ASSUME AcceptInv, RowInv, AtMostOneAccepted, [Next]_vars
             PROVE  AcceptInv'
  OBVIOUS
<1> DEFINE InFlight(q) ==
      reqs[q].op = "acceptQuote" =>
        /\ reqs[q].provider \in Providers
        /\ quote[reqs[q].provider] # "none"
        /\ (\E p \in Providers : quote[p] = "accepted") =>
             quote[reqs[q].provider] # "pending"
<1>1. TypeOK /\ asg \in Assignment /\ quote \in [Providers -> QuoteStatus]
  BY DEF RowInv, TypeOK
<1>2. \A r \in Requests : ~RevokeTx(r)
  BY <1>1 DEF RevokeTx, At, TypeOK, Request
<1>3. AcceptedMatchesAssignment'
  <2> USE DEF AcceptedMatchesAssignment, Exists
  <2>1. ASSUME NEW r \in Requests, CreateQuoteInsert(r)
        PROVE  AcceptedMatchesAssignment'
    BY <1>1, <2>1 DEF CreateQuoteInsert, AcceptInv
  <2>2. ASSUME NEW r \in Requests, AcceptTx(r) PROVE AcceptedMatchesAssignment'
    BY <1>1, <2>2, BoundsAssumption
       DEF AcceptTx, QuotesAfterAccept, FreshAssignment, NoAssignment, TypeOK
  <2>3. ASSUME NEW r \in Requests, ScheduleWrite(r) PROVE AcceptedMatchesAssignment'
    BY <1>1, <2>3 DEF ScheduleWrite, Assignment, ProposalStatus, AcceptInv
  <2>4. ASSUME NEW r \in Requests, CompleteWrite(r) PROVE AcceptedMatchesAssignment'
    BY <1>1, <2>4 DEF CompleteWrite, Assignment, AcceptInv
  <2>5. ASSUME NEW r \in Requests, RejectTx(r) PROVE AcceptedMatchesAssignment'
    BY <1>1, <2>5 DEF RejectTx, QuotesAfterReject, DeclinedToPending
  <2>6. ASSUME NEW r \in Requests, VerifyWrite(r) PROVE AcceptedMatchesAssignment'
    BY <1>1, <2>6 DEF VerifyWrite, Assignment, AcceptInv
  <2>7. ASSUME NEW r \in Requests, VerifyPayout(r) PROVE AcceptedMatchesAssignment'
    BY <1>1, <2>7 DEF VerifyPayout, Assignment, AcceptInv
  <2>8. ASSUME NEW s \in {"APPROVED", "BLOCKED"}, SetPayoutStatus(s)
        PROVE  AcceptedMatchesAssignment'
    BY <1>1, <2>8 DEF SetPayoutStatus, Assignment, AcceptInv
  <2>9. CASE UNCHANGED <<quote, asg>>
    BY <2>9 DEF AcceptInv
  <2> QED
    BY <1>1, <1>2, <2>1, <2>2, <2>3, <2>4, <2>5, <2>6, <2>7, <2>8, <2>9, ArriveType
       DEF Next, Continue, vars, Crash, AcceptCountAccepted, AcceptReadQuote,
           AcceptRollback, RevokeReadAssignment, ScheduleConflict,
           RejectRollback, VerifyReread, VerifyPayment
<1>4. ASSUME NEW q \in Requests, reqs'[q].op = "acceptQuote" PROVE InFlight(q)'
  <2>1. \/ UNCHANGED quote
        \/ \E r \in Requests : CreateQuoteInsert(r) \/ AcceptTx(r) \/ RejectTx(r)
    BY <1>1, <1>2, ArriveType
       DEF Next, Continue, vars, Crash, SetPayoutStatus, AcceptCountAccepted,
           AcceptReadQuote, AcceptRollback, RevokeReadAssignment,
           ScheduleWrite, ScheduleConflict, CompleteWrite, RejectRollback,
           VerifyWrite, VerifyReread, VerifyPayment, VerifyPayout
  <2>2. CASE \E p \in Providers : AcceptReadJob(q, p) /\ reqs'[q].provider = p
    BY <2>2 DEF AcceptReadJob, AcceptInv, AcceptedMatchesAssignment
  <2>3. CASE reqs[q].op = "acceptQuote" /\ reqs'[q].provider = reqs[q].provider
    <3>1. InFlight(q)
      BY DEF AcceptInv
    <3>2. CASE UNCHANGED quote
      BY <2>3, <3>1, <3>2
    <3>3. ASSUME NEW r \in Requests, CreateQuoteInsert(r) PROVE InFlight(q)'
      BY <1>1, <2>3, <3>1, <3>3 DEF CreateQuoteInsert
    <3>4. ASSUME NEW r \in Requests, AcceptTx(r) PROVE InFlight(q)'
      BY <1>1, <2>3, <3>1, <3>4 DEF AcceptTx, QuotesAfterAccept
    <3>5. ASSUME NEW r \in Requests, RejectTx(r) PROVE InFlight(q)'
      BY <1>1, <2>3, <3>1, <3>5 DEF RejectTx, QuotesAfterReject, DeclinedToPending
    <3> QED BY <2>1, <3>2, <3>3, <3>4, <3>5
  <2>4. CASE reqs'[q] # reqs[q]
    <3>1. Arrive(q) \/ Continue(q) \/ Crash(q)
      BY <1>1, <2>4, OtherSlots DEF Next, vars, SetPayoutStatus
    <3> QED BY <1>1, <1>4, <2>2, <2>3, <3>1, AcceptSlot
  <2> QED BY <1>4, <2>3, <2>4
<1> QED BY <1>3, <1>4 DEF AcceptInv

LEMMA AcceptCorrect ==
  ASSUME "revokeAcceptance" \notin Ops PROVE Spec => []AcceptInv
<1>1. Init => AcceptInv
  BY DEF Init, AcceptInv, AcceptedMatchesAssignment, Idle
<1> QED BY <1>1, AcceptStep, RowCorrect, OneAccepted, PTL DEF Spec

\* As long as customers do not revoke, the accepted quote is the quote of the
\* provider the assignment names, and the assignment is not rejected.
THEOREM AcceptedIsAssigned ==
  ASSUME "revokeAcceptance" \notin Ops
  PROVE  Spec => []AcceptedMatchesAssignment
<1>1. AcceptInv => AcceptedMatchesAssignment
  BY DEF AcceptInv
<1> QED BY <1>1, AcceptCorrect, PTL

\* As long as customers do not revoke, an acceptance finds no other accepted
\* quote, although it looked for one several statements earlier.
THEOREM AcceptanceNeverDisplaces ==
  ASSUME "revokeAcceptance" \notin Ops
  PROVE  Spec => AcceptNeverDisplaces
<1>1. AcceptInv /\ TypeOK /\ [Next]_vars =>
        \A p \in Providers : quote[p] = "accepted" => quote'[p] # "declined"
  <2> SUFFICES ASSUME AcceptInv, TypeOK, [Next]_vars, NEW p \in Providers,
                      quote[p] = "accepted", quote'[p] = "declined"
               PROVE  FALSE
    OBVIOUS
  <2>1. \A r \in Requests : ~RevokeTx(r)
    BY DEF RevokeTx, At, TypeOK, Request
  <2>2. PICK r \in Requests : CreateQuoteInsert(r) \/ AcceptTx(r) \/ RejectTx(r)
    BY <2>1, ArriveType
       DEF Next, Continue, vars, Crash, SetPayoutStatus, AcceptCountAccepted,
           AcceptReadQuote, AcceptRollback, RevokeReadAssignment,
           ScheduleWrite, ScheduleConflict, CompleteWrite, RejectRollback,
           VerifyWrite, VerifyReread, VerifyPayment, VerifyPayout
  <2>3. CASE CreateQuoteInsert(r)
    BY <2>3 DEF CreateQuoteInsert, TypeOK
  <2>4. CASE AcceptTx(r)
    BY <2>4 DEF AcceptTx, StillPending, At, AcceptInv
  <2>5. CASE RejectTx(r)
    BY <2>5 DEF RejectTx, QuotesAfterReject, DeclinedToPending
  <2> QED BY <2>2, <2>3, <2>4, <2>5
<1> QED BY <1>1, AcceptCorrect, TypeCorrect, PTL DEF Spec, AcceptNeverDisplaces

-----------------------------------------------------------------------------
(* Verification: the payment is written before the payout *)

\* The request of r has written the payment and is about to write the payout.
Paying(r) == At(r, "customerComplete", "payout")

\* Who is about to queue a payout, and who has, found the payment written.
PayoutInv ==
  /\ payment # "none" =>
       payment = IF StripeReady THEN "capture_pending" ELSE "manual_review"
  /\ \A r \in Requests : Paying(r) => payment # "none"
  /\ asg.payout = "AWAITING_APPROVAL" => ~StripeReady /\ payment # "none"

\* Only VerifyPayment brings a request to the payout.
LEMMA PayingStep ==
  ASSUME TypeOK, [Next]_vars, NEW r \in Requests, Paying(r)'
  PROVE  Paying(r) \/ VerifyPayment(r)
<1> SUFFICES ASSUME ~Paying(r) PROVE VerifyPayment(r)
  OBVIOUS
<1>1. reqs'[r].op = "customerComplete" /\ reqs'[r].pc = "payout"
  BY DEF Paying, At
<1>2. reqs'[r] # reqs[r]
  BY <1>1 DEF Paying, At
<1>3. Arrive(r) \/ Continue(r) \/ Crash(r)
  BY <1>2, OtherSlots DEF Next, vars, SetPayoutStatus
<1>4. ASSUME Done(r) PROVE FALSE
  BY <1>1, <1>4 DEF Done, Serve, Idle, TypeOK
<1>5. ASSUME Arrive(r) PROVE FALSE
  <2>1. PICK q : reqs' = [reqs EXCEPT ![r] = q] /\ q.pc # "payout"
    <3>1. \A op, pc : ReadAssignment(op, pc).pc = pc
      BY DEF ReadAssignment, Idle
    <3>2. ASSUME \/ \E p \in Providers : CreateQuoteRead(r, p) \/ AcceptReadJob(r, p)
                 \/ RevokeReadQuote(r)
          PROVE  \E q : reqs' = [reqs EXCEPT ![r] = q] /\ q.pc # "payout"
      <4> DEFINE first(op, pc, p) ==
                   [Idle EXCEPT !.op = op, !.pc = pc, !.provider = p]
      <4>1. \A op, pc, p : first(op, pc, p).pc = pc
        BY DEF Idle
      <4>2. ASSUME NEW op, NEW pc, NEW p, pc # "payout",
                   reqs' = [reqs EXCEPT ![r] = first(op, pc, p)]
            PROVE  \E q : reqs' = [reqs EXCEPT ![r] = q] /\ q.pc # "payout"
        <5> HIDE DEF first
        <5> WITNESS first(op, pc, p)
        <5> QED BY <4>1, <4>2
      <4> HIDE DEF first
      <4>3. ASSUME NEW p \in Providers, CreateQuoteRead(r, p)
            PROVE  reqs' = [reqs EXCEPT ![r] = first("createQuote", "create", p)]
        BY <4>3 DEF CreateQuoteRead, Begin, Serve, first
      <4>4. ASSUME NEW p \in Providers, AcceptReadJob(r, p)
            PROVE  reqs' = [reqs EXCEPT ![r] = first("acceptQuote", "count", p)]
        BY <4>4 DEF AcceptReadJob, Begin, Serve, first
      <4>5. ASSUME RevokeReadQuote(r)
            PROVE  \E p \in Providers :
                     reqs' = [reqs EXCEPT
                                ![r] = first("revokeAcceptance", "assignment", p)]
        BY <4>5 DEF RevokeReadQuote, Begin, Serve, first
      <4>6. "create" # "payout" /\ "count" # "payout" /\ "assignment" # "payout"
        OBVIOUS
      <4> QED BY <3>2, <4>2, <4>3, <4>4, <4>5, <4>6
    <3>3. ASSUME ViewAssignment(r) \/ CompleteRead(r) \/ RejectRead(r) \/ VerifyRead(r)
          PROVE  \E q : reqs' = [reqs EXCEPT ![r] = q] /\ q.pc # "payout"
      BY <3>1, <3>3 DEF ViewAssignment, CompleteRead, RejectRead, VerifyRead, Begin, Serve
    <3>4. ASSUME NEW op, NEW w \in Windows, ProposeRead(r, op, w)
          PROVE  \E q : reqs' = [reqs EXCEPT ![r] = q] /\ q.pc # "payout"
      <4>1. [ReadAssignment(op, "write") EXCEPT !.window = w].pc = "write"
        BY DEF ReadAssignment, Idle
      <4>2. [reqs[r] EXCEPT !.op = op, !.pc = "write", !.window = w,
                            !.id = asg.id].pc = "write"
        BY DEF TypeOK, Request
      <4> QED BY <3>4, <4>1, <4>2 DEF ProposeRead, PageProposal, Serve
    <3>5. ASSUME ConfirmRead(r)
          PROVE  \E q : reqs' = [reqs EXCEPT ![r] = q] /\ q.pc # "payout"
      <4>1. [reqs[r] EXCEPT !.op = "confirmSchedule", !.pc = "write"].pc = "write"
        BY DEF TypeOK, Request
      <4> QED BY <3>5, <4>1 DEF ConfirmRead, PageConfirmation, Serve
    <3> QED BY <1>5, <3>2, <3>3, <3>4, <3>5 DEF Arrive
  <2> QED BY <1>1, <2>1 DEF TypeOK
<1>6. ASSUME NEW pc, Goto(r, pc), pc # "payout" PROVE FALSE
  <2>1. [reqs[r] EXCEPT !.pc = pc].pc = pc
    BY DEF TypeOK, Request
  <2> QED BY <1>1, <1>6, <2>1 DEF Goto, Serve, TypeOK
<1>7. ASSUME VerifyReread(r) PROVE FALSE
  BY <1>1, <1>7 DEF VerifyReread, Serve, ReadAssignment, Idle, TypeOK
<1>8. ASSUME \/ AcceptCountAccepted(r) \/ AcceptReadQuote(r)
             \/ RevokeReadAssignment(r) \/ VerifyWrite(r)
      PROVE  FALSE
  BY <1>4, <1>6, <1>8
     DEF AcceptCountAccepted, AcceptReadQuote, RevokeReadAssignment, VerifyWrite
<1>9. ASSUME \/ CreateQuoteInsert(r) \/ AcceptTx(r) \/ AcceptRollback(r)
             \/ RevokeTx(r) \/ ScheduleWrite(r) \/ ScheduleConflict(r)
             \/ CompleteWrite(r) \/ RejectTx(r) \/ RejectRollback(r)
             \/ VerifyPayout(r) \/ Crash(r)
      PROVE  FALSE
  BY <1>4, <1>9 DEF CreateQuoteInsert, AcceptTx, AcceptRollback, RevokeTx,
     ScheduleWrite, ScheduleConflict, CompleteWrite, RejectTx, RejectRollback,
     VerifyPayout, Crash
<1> QED BY <1>3, <1>5, <1>7, <1>8, <1>9 DEF Continue

\* No statement but VerifyPayment writes the payment, and the payout is queued
\* by VerifyPayout alone.
LEMMA PayoutStep ==
  TypeOK /\ PayoutInv /\ [Next]_vars => PayoutInv'
<1> SUFFICES ASSUME TypeOK, PayoutInv, [Next]_vars PROVE PayoutInv'
  OBVIOUS
<1>1. asg \in Assignment
  BY DEF TypeOK
<1>2. \/ \E r \in Requests : VerifyPayment(r)
      \/ payment' = payment
  BY ArriveType
     DEF Next, Continue, vars, Crash, CreateQuoteInsert, AcceptCountAccepted,
         AcceptReadQuote, AcceptRollback, AcceptTx, RevokeReadAssignment,
         RevokeTx, ScheduleWrite, ScheduleConflict, CompleteWrite, RejectTx,
         RejectRollback, VerifyWrite, VerifyReread, VerifyPayout, SetPayoutStatus
<1>3. \A r \in Requests : VerifyPayment(r) =>
        payment' = IF StripeReady THEN "capture_pending" ELSE "manual_review"
  BY DEF VerifyPayment
<1>4. \A r \in Requests : Paying(r)' => payment' # "none"
  BY <1>2, <1>3, PayingStep DEF PayoutInv
<1>5. asg'.payout = "AWAITING_APPROVAL" =>
        \/ asg.payout = "AWAITING_APPROVAL"
        \/ ~StripeReady /\ \E r \in Requests : Paying(r)
  <2>1. ASSUME NEW r \in Requests, VerifyPayout(r)
        PROVE  asg'.payout = "AWAITING_APPROVAL" =>
                 asg.payout = "AWAITING_APPROVAL" \/ (~StripeReady /\ Paying(r))
    BY <1>1, <2>1 DEF VerifyPayout, Paying, Assignment
  <2>2. ASSUME NEW r \in Requests,
               \/ AcceptTx(r) \/ RevokeTx(r) \/ ScheduleWrite(r) \/ CompleteWrite(r)
               \/ RejectTx(r) \/ VerifyWrite(r)
        PROVE  asg'.payout \in {asg.payout, "PENDING"}
    <3>1. NoAssignment.payout = "PENDING"
      BY DEF NoAssignment
    <3>2. \A i, p : FreshAssignment(i, p).payout = "PENDING"
      BY DEF FreshAssignment, NoAssignment
    <3>3. CASE AcceptTx(r)
      BY <3>2, <3>3 DEF AcceptTx
    <3>4. CASE RevokeTx(r)
      BY <3>1, <3>4 DEF RevokeTx
    <3>5. CASE ScheduleWrite(r)
      BY <1>1, <3>5 DEF ScheduleWrite, Assignment
    <3>6. CASE CompleteWrite(r)
      BY <1>1, <3>6 DEF CompleteWrite, Assignment
    <3>7. CASE RejectTx(r)
      BY <1>1, <3>7 DEF RejectTx, RejectedAssignment, Assignment
    <3>8. CASE VerifyWrite(r)
      BY <1>1, <3>8 DEF VerifyWrite, Assignment
    <3> QED BY <2>2, <3>3, <3>4, <3>5, <3>6, <3>7, <3>8
  <2>3. ASSUME NEW s \in {"APPROVED", "BLOCKED"}, SetPayoutStatus(s)
        PROVE  asg'.payout = s
    BY <1>1, <2>3 DEF SetPayoutStatus, Assignment
  <2>4. CASE UNCHANGED asg
    BY <2>4
  <2> QED
    BY <2>1, <2>2, <2>3, <2>4, ArriveType
       DEF Next, Continue, vars, Crash, CreateQuoteInsert, AcceptCountAccepted,
           AcceptReadQuote, AcceptRollback, RevokeReadAssignment,
           ScheduleConflict, RejectRollback, VerifyReread, VerifyPayment
<1>6. payment # "none" => payment' # "none"
  BY <1>2, <1>3
<1> QED BY <1>2, <1>3, <1>4, <1>5, <1>6 DEF PayoutInv

\* No payout waits for approval without a payment under manual review, at
\* whatever statement verifications die and in whatever order they overlap.
THEOREM PayoutHasPayment == Spec => []QueuedPayoutHasPayment
<1>1. Init => PayoutInv
  BY DEF Init, PayoutInv, Paying, At, Idle, NoAssignment
<1>2. PayoutInv => QueuedPayoutHasPayment
  BY DEF PayoutInv, QueuedPayoutHasPayment
<1> QED BY <1>1, <1>2, PayoutStep, TypeCorrect, PTL DEF Spec

-----------------------------------------------------------------------------
(* The handlers implement the atomic negotiation *)

LEMMA NegotiationStep ==
  ASSUME MaxAccepts = 1
  PROVE  RowInv /\ LockInv /\ RejectedHasNoWindow /\ [Next]_vars =>
           [Negotiation!Next]_<<Stage, asg.window>>
<1> SUFFICES ASSUME RowInv, LockInv, RejectedHasNoWindow, [Next]_vars
             PROVE  Negotiation!Next \/ UNCHANGED <<Stage, asg.window>>
  BY DEF Stage
<1> USE DEF Negotiation!Next
<1>1. asg \in Assignment /\ epoch \in {0, 1}
  BY DEF RowInv, TypeOK
<1>2. /\ Exists => asg.status # "none"
      /\ ~Exists => asg = NoAssignment
  BY DEF RowInv, RowOK
<1>3. ASSUME NEW r \in Requests, AcceptTx(r) PROVE Negotiation!Next
  <2>1. epoch = 0
    BY <1>1, <1>3 DEF AcceptTx
  <2>2. asg = NoAssignment
    BY <1>2, <2>1 DEF RowInv, RowOK
  <2>3. /\ asg'.status = "pending_schedule" /\ asg'.window = NoWindow
        /\ asg.status = "none"
    BY <1>3, <2>2 DEF AcceptTx, FreshAssignment, NoAssignment
  <2> QED BY <2>3 DEF Negotiation!Accept, Stage
<1>4. ASSUME NEW r \in Requests, ScheduleWrite(r) PROVE Negotiation!Next
  <2>1. reqs[r].id # 0 /\ reqs[r].epoch # 0
    BY <1>4 DEF RowInv, NamesRow, At, ScheduleWrite, ScheduleOps
  <2>2. Exists /\ asg.status # "none"
    BY <1>2, <1>4, <2>1 DEF ScheduleWrite, VersionMatches, Exists
  <2>3. reqs[r].epoch = epoch
    <3>1. epoch = 1
      BY <1>1, <2>2 DEF RowInv, RowOK
    <3>2. reqs[r].epoch \in 0..1
      BY DEF RowInv, TypeOK, Request
    <3> QED BY <2>1, <3>1, <3>2
  <2>4. CASE reqs[r].op = "confirmSchedule"
    <3>1. asg.window # NoWindow
      BY <1>4, <2>2, <2>3, <2>4
         DEF LockInv, VersionIdentifiesSchedule, ScheduleWrite
    <3>2. asg.status # "provider_rejected"
      BY <3>1 DEF RejectedHasNoWindow
    <3>3. asg'.status = "scheduled" /\ asg'.window = asg.window
      BY <1>1, <1>4, <2>4 DEF ScheduleWrite, Assignment
    <3>4. Stage \notin {"none", "rejected"} /\ Stage' = "agreed"
      BY <1>1, <2>2, <3>2, <3>3 DEF Stage, Assignment, ASSIGNMENT_STATUS
    <3> QED BY <3>1, <3>3, <3>4 DEF Negotiation!Confirm
  <2>5. CASE reqs[r].op # "confirmSchedule"
    <3>1. asg.status # "provider_rejected"
      BY <1>4, <2>2, <2>3, <2>5
         DEF LockInv, VersionIdentifiesSchedule, ScheduleWrite, ScheduleOps
    <3>2. reqs[r].window \in Windows
      BY <1>4, <2>5 DEF RowInv, NamesRow, ScheduleWrite, ScheduleOps
    <3>3. /\ asg'.window = reqs[r].window
          /\ asg'.status \in {"schedule_proposed_customer",
                              "schedule_proposed_provider"}
      BY <1>1, <1>4, <2>5 DEF ScheduleWrite, Assignment, ProposalStatus
    <3>4. Stage \notin {"none", "rejected"} /\ Stage' = "proposed"
      BY <1>1, <2>2, <3>1, <3>3 DEF Stage, Assignment, ASSIGNMENT_STATUS
    <3> QED BY <3>2, <3>3, <3>4 DEF Negotiation!Propose
  <2> QED BY <2>4, <2>5
<1>5. ASSUME NEW r \in Requests, RejectTx(r) PROVE Negotiation!Next
  <2>1. Exists
    BY <1>5 DEF RejectTx, RowInv, NamesRow, At, Exists
  <2>2. asg'.status = "provider_rejected" /\ asg'.window = NoWindow
    BY <1>1, <1>5 DEF RejectTx, RejectedAssignment, Assignment
  <2>3. Stage # "none" /\ Stage' = "rejected"
    BY <1>1, <1>2, <2>1, <2>2 DEF Stage, Assignment, ASSIGNMENT_STATUS
  <2> QED BY <2>2, <2>3 DEF Negotiation!Reject
<1>6. ASSUME NEW r \in Requests, CompleteWrite(r) \/ VerifyWrite(r), asg' # asg
      PROVE  Negotiation!Next
  <2>1. Exists
    BY <1>6 DEF CompleteWrite, VerifyWrite, RowInv, NamesRow, At, Exists
  <2>2. /\ asg'.status \in {"completed", "customer_verified"}
        /\ asg'.window = asg.window
    BY <1>1, <1>6 DEF CompleteWrite, VerifyWrite, Assignment
  <2>3. Stage # "none" /\ Stage' = "done"
    BY <1>1, <1>2, <2>1, <2>2 DEF Stage, Assignment, ASSIGNMENT_STATUS
  <2> QED BY <2>2, <2>3 DEF Negotiation!Finish
<1>7. ASSUME NEW r \in Requests, RevokeTx(r), asg' # asg PROVE Negotiation!Next
  <2>1. Exists /\ asg' = NoAssignment
    BY <1>7 DEF RevokeTx
  <2>2. Stage # "none" /\ Stage' = "none" /\ asg'.window = NoWindow
    BY <1>1, <1>2, <2>1 DEF Stage, Assignment, ASSIGNMENT_STATUS, NoAssignment
  <2> QED BY <2>2 DEF Negotiation!Revoke
<1>8. ASSUME asg'.status = asg.status, asg'.window = asg.window
      PROVE  UNCHANGED <<Stage, asg.window>>
  BY <1>8 DEF Stage
<1>9. ASSUME NEW r \in Requests, VerifyPayout(r)
      PROVE  asg'.status = asg.status /\ asg'.window = asg.window
  BY <1>1, <1>9 DEF VerifyPayout, Assignment
<1>10. ASSUME NEW s \in {"APPROVED", "BLOCKED"}, SetPayoutStatus(s)
       PROVE  asg'.status = asg.status /\ asg'.window = asg.window
  BY <1>1, <1>10 DEF SetPayoutStatus, Assignment
<1>11. CASE asg' = asg
  BY <1>8, <1>11
<1> QED
  BY <1>3, <1>4, <1>5, <1>6, <1>7, <1>8, <1>9, <1>10, <1>11, ArriveType
     DEF Next, Continue, vars, Crash, CreateQuoteInsert, AcceptCountAccepted,
         AcceptReadQuote, AcceptRollback, RevokeReadAssignment,
         ScheduleConflict, RejectRollback, VerifyReread, VerifyPayment, RowInv

\* On a job accepted once, every interleaving of the handlers is a behaviour
\* of the negotiation in which each operation is atomic.
THEOREM NegotiationImplemented ==
  ASSUME MaxAccepts = 1
  PROVE  Spec => NegotiationSpec
<1>1. Init => Negotiation!Init
  BY DEF Init, Negotiation!Init, Stage, NoAssignment
<1> QED
  BY <1>1, NegotiationStep, RowCorrect, LockCorrect, RejectionClearsWindow, PTL
     DEF Spec, NegotiationSpec, Negotiation!Spec
=============================================================================
