---------------------------- MODULE MCFulfilment ----------------------------
\* Small instances of Fulfilment for TLC.  Providers, request slots and windows
\* are interchangeable, so the safety runs take states up to their permutation.
EXTENDS Fulfilment, TLC

\* Every operation of the workflow.
EveryOp == AllOps

\* Acceptance, rejection and the writes that touch a rejected assignment,
\* without the revocation.
AcceptRejectOps == {"createQuote", "acceptQuote", "proposeAsCustomer",
                    "confirmSchedule", "view", "completeAsProvider",
                    "rejectAssignment"}

\* The operations that decide which quote is accepted.
QuoteOps == {"createQuote", "acceptQuote", "revokeAcceptance",
             "rejectAssignment"}

\* The operations that negotiate a schedule on an accepted job.
NegotiationOps == {"createQuote", "acceptQuote", "revokeAcceptance", "view",
                   "proposeAsCustomer", "proposeAsProvider", "confirmSchedule",
                   "completeAsProvider", "rejectAssignment"}

Symmetry ==
  Permutations(Providers) \cup Permutations(Requests) \cup Permutations(Windows)
=============================================================================
