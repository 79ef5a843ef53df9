# ServiceLink: specifications, model checking and proofs

ServiceLink is a marketplace for local services: customers post jobs,
providers quote, the customer accepts a quote, the two agree on a visit, the
work is done, verified and paid. This directory holds TLA+ models of the API
server (`apps/api`) and of the web pages that keep state of their own
(`apps/web`), the TLC configurations that check them and proofs checked by
TLAPS.

## 1. The system

The API is a NestJS server over PostgreSQL (Prisma), Redis (presence, BullMQ)
and Stripe. It is stateless between requests: everything that matters is in
rows, and every handler is an `async` function that awaits between the rows it
reads and the row it writes. So any two requests interleave at each `await`,
several server processes run at once, and a process can die at any of them.

| Component | State | Operations | What is hard |
| - | - | - | - |
| Quotes (`jobs/quotes.service.ts`) | `Quote.status`, the `Assignment` row | createQuote, acceptQuote, revokeAcceptance | three checks before a transaction; a revocation that writes what it read |
| Assignment lifecycle (`jobs/assignments.service.ts`, `jobs.controller.ts`) | `Assignment.status`, window, `scheduleVersion` | propose (two routes), confirm, complete, reject, customerComplete | optimistic lock; status not read again at the write; rows reset by a second acceptance |
| Verification, payout review (`payments/payments.service.ts`) | `Payment.status`, `Assignment.payoutStatus` | handleCustomerVerification, approvePayout, denyPayout | three statements without a transaction |
| Reminders (`reminders/reminders.service.ts`) | `reminderStatus`, BullMQ jobs | scanAndEnqueue, handleReminder, markOverdue | scan, queue and schedule drift apart; retries; job ids |
| Stripe charges (`payments.service.ts`, `stripe-webhook.controller.ts`) | `Payment`, `Refund`, Stripe's objects | createPaymentIntent, refundPayment, webhooks (capturePayment is always refused by Stripe) | two systems without a common transaction; at-least-once, unordered events, verified with a body the application must keep |
| Connect accounts, payouts (`providers.service.ts`, `stripe.controller.ts`) | `Provider`, `Payout` | onboarding, createPayout, account.updated | two accounts for one provider; transfer without a row |
| Check-in, location (`assignments.service.ts`) | checkpoints, locations | checkIn, checkOut, updateLocation | status read before an insert; timestamps of phones |
| Loyalty (`loyalty/`) | points, transactions, rewards | award, redeem, apply | read-compute-write, three statements without a transaction |
| Presence (`realtime/`) | online set, liveness keys, ping timers | connect, ping, disconnect, reconcile | reconnect races; timers of closed sockets; dead processes |
| Chat (`realtime/`, `web/app/realtime`) | rooms, messages, a page's list | join, leave, send, history | checks before awaits; broadcast and history overtake each other |
| Notifications, device tokens (`notifications/`, `device-tokens/`) | notices, tokens | notify*, sendNotification, register, unregister | tokens change hands; updates nobody awaits |
| Photos (`photos/`) | row, S3 objects | upload, confirm, thumbnail, delete | row and object apart; background task |
| Rate limits (`common/guards/`) and cooldowns (`QuotesPageClient`, `QuoteFormClient`) | hits per key and process, cooldowns | every guarded route | refused requests count; limits per role on one key |
| Search (`providers.controller.ts`) and its pages (`web/app/providers`) | provider rows, filters, results | search, near, setLocation; filter, turn, restore | paging over computed lists; closures of old renderings |
| Speech (`llm.controller.ts`, `stt.service.ts`) | audio files | transcribe, translate | clean-up on every path |
| Metrics (`metrics/`, `web/app/metrics`) | counters, charts | inc*, poll | counters restart; polls overlap |
| Reviews, auth, users, LLM and RAG, admin pages | rows | | single statements, calls to external services |

Interaction: `acceptQuote` creates or resets the assignment that
AssignmentsService negotiates on; its version and window drive
RemindersService, which also writes to the same row; `customerComplete` goes
from the assignment to the payment and back to the payout; the webhooks write
the payment;
NotificationsService is called by jobs, quotes, assignments and reminders, and
looks the assignment up again; the guards come before every handler, and the
pages turn their 429 into a cooldown.

Correctness, per component:

- Quotes: at most one accepted; it is the one the assignment names; accepting
  never displaces an accepted one.
- Lifecycle: nobody agrees to a window they have not seen; no reschedule is
  silently lost; a rejection is not overtaken.
- Verification: no payout is queued without its payment.
- Reminders: never early, never twice, every confirmed visit is reminded of.
- Charges: no charge without a row, each charge recorded in the end, a status
  that did happen, no invented refund.
- Accounts, payouts: verified only through an account of one's own that had
  nothing past due; a payout on record was transferred, to such an account.
- Visits: what a customer sees of the provider's way never goes back.
- Loyalty: what rewards cost is taken; the account is what its transactions
  add up to.
- Presence: an open socket's user is listed, a user who is gone is not for ever.
- Chat: a page shows what is stored; older pages are older.
- Notices: everyone who is to be told is, whatever happens to the others;
  pushes go to devices of the user, and only dead tokens are dropped.
- Photos: a thumbnail that is named is there; no object outlives its row by a
  crash.
- Limits: no more is let through than configured, per process; who waits as the
  page says gets through in the end.
- Search: walking through the pages shows each provider once; pages whose
  searches went well show what their filters say.
- Speech: a file lives as long as its request. Metrics: drawn rates are real.

## 2. Modules

| Module | Models |
| - | - |
| `Fulfilment` | one job: quotes, assignment, verification, payout review; every statement of every handler |
| `ScheduleNegotiation` | what the negotiation promises, operations atomic (abstract) |
| `MCFulfilment` | instances of `Fulfilment`: operation sets, symmetry |
| `FulfilmentProofs` | theorems about `Fulfilment` |
| `Reminders` | the reminders of one assignment, the queue, the clock |
| `Payments` | the charge of one job, Stripe, webhooks |
| `PaymentsProofs` | theorems about `Payments` |
| `RemindersProofs` | theorems about `Reminders` |
| `ProviderAccount` | onboarding, `account.updated`, `createPayout` |
| `SiteVisit` | check-in, check-out, location updates on one assignment row |
| `Loyalty`, `LoyaltyProofs` | one account: awards, redemptions, applications of rewards, and theorems |
| `Presence` | one user's sockets, the online set, liveness keys, reconciliation |
| `Chat`, `ChatProofs` | one room: members, messages, the history, one member's page, and theorems |
| `Notifications` | notices, pushes, device tokens |
| `Photos` | one photo's row and objects |
| `RateLimits` | the keys, limits and counts of the guards, per process |
| `QuotesPage` | one limit against the cooldown of the pages |
| `Search`, `SearchProofs` | search, near, setLocation, and a visitor who turns pages, and theorems |
| `ResultsPage` | the two pages that show found providers |
| `Audio` | the files of transcribe and translate |
| `MetricsPage` | a counter, its restarts, and the chart drawn of it |
| `Services`, `ServicesProofs` | `Photos`, `SiteVisit`, `Loyalty`, `Search`, `Chat`, `ResultsPage`, `RateLimits`, `Audio` and `MetricsPage` side by side, and theorems |
| `MCServices` | an instance of `Services`: rows, queries, limits |
| `Delivery`, `DeliveryProofs` | `Notifications`, `Presence`, `ProviderAccount`, `Payments` and `QuotesPage` side by side, with their fairness, and theorems |

### Fulfilment

`quote`, `asg` and `payment` are the rows. `reqs[r]` is the request that slot
`r` serves: its operation, where it is (`pc`) and the local variables it keeps
from its reads. Each statement is an action named after the handler and the
statement (`AcceptReadJob`, `AcceptCountAccepted`, `AcceptReadQuote`,
`AcceptTx`). Conventions:

- A `$transaction` is one action. Under READ COMMITTED this is sound here:
  each transaction's first statement that decides something is an UPDATE or
  DELETE whose condition PostgreSQL evaluates again after waiting for the row
  lock (`status = 'pending'` in acceptQuote, the row's existence in reject and
  revoke), and the later statements of two transactions on one job meet on
  the same rows. A transaction that PostgreSQL aborts as a deadlock victim
  behaves as `Crash`.
- Between requests the web page keeps what it showed: `ViewAssignment` takes a
  slot with the id, version and window of the page, and a proposal or
  confirmation may come from it. A proposal may also carry no version: then
  the version just read is the target.
- A request refused at its first read changes nothing and is not a step. The
  re-reads and notifications after the deciding write are answers without
  effect on the state; they have no action.
- `Crash(r)` ends a request at any statement: the process died, the database
  refused, or the page was closed.
- An assignment's id is the number of the acceptance that created it: a
  revocation deletes the row and a later acceptance makes another, while an
  acceptance after a rejection reuses it, its version set back to 0.
- A window stands for any pair of dates that passes `ensureWindow`. Left out:
  who proposed, notes and timestamps, and the payout status PAID, which no
  code writes.
- `epoch` is a history variable, the number of acceptances so far. It appears
  in no guard but the bound.

### Reminders

Actions of the scan are its statements: `ScanRead` (findMany), `ScanAdd`
(queue.add), `ScanMark` (QUEUED). The queue is indexed by schedule version
because the job id is `assignment:<id>:v<version>`. A handler's read and
notification are one action, its update another. `Schedule` is what a
proposal, confirmation, rejection, acceptance or revocation does to the fields
reminders read. Time is counted in units longer than a scan interval, so a
scan takes place in each unit; backoffs (one to a few minutes) lie within one
unit. A revoked assignment has another id, so its jobs are never looked at
again and the model follows one id.

### Payments

`row` and `recorded` are ours; `intent`, `dispute`, `failedOnce`, `refunded`
are Stripe's; `events` is what Stripe still means to deliver. API calls that
await Stripe and then the database are two actions with `Crash` possible
between them. The verification's upsert is shared with `Fulfilment` and appears
as `VerifyPayment`. `charge.dispute.closed` is three events, for the status the
dispute was closed with: won, lost, or warning_closed, an inquiry that came to
nothing, which the handler records as dispute_lost like every status but won. A
webhook's look-up and update are one action: rows are never deleted and a
payment keeps its intent. Refund amounts are counted in units.

The webhook verifies an event with the secret (`secretSet`) against
`req.rawBody` (`RawBody`). Without a secret it looks at nothing and answers
201 (`Answered`, not `Verified`); with one, an event that cannot be verified is
answered 400 and stays at Stripe, which changes no state. As `main.ts` is,
`RawBody` is FALSE: the application is created without `rawBody: true`, and
`raw()` sets `req.body` only. The run `charge_unrecorded` takes it so. The runs
that are about what the handlers do with events (`delivery`,
`webhook_redelivery`) take it TRUE, as the unit tests do; the theorems hold for
both.

`capturePayment` has no action. `createPaymentIntent` asks for no manual
capture, so no intent ever reaches requires_capture and Stripe refuses the
call, after which the handler has changed nothing.

### ProviderAccount, SiteVisit, Loyalty

Each statement that others can see is an action. `named` (accounts the row ever
named) and `cleared` (accounts that had nothing past due) are histories. An
event is forgotten by `Forget`, when Stripe does not send it again; until then
it may be handled any number of times. The controller accepts any body when no
secret is set (`HandleUnsigned`), and drops with 201 what it cannot verify
when one is (`Taken`; raw() is not mounted on this route, so that as `main.ts`
is it drops every event). The comment of stripe.controller.ts:40 speaks of "no
past_due and no disabled reason", but only past_due is looked at, and so the
model has nothing else. A payout stays in processing: the payments' webhook has
handlers for `transfer.paid` and `transfer.failed`, which are no events of the
API version the code asks for, and they are left out. In `SiteVisit` a
location's timestamp is the phone's, any time up to now; `raced` marks an update
whose look-up was overtaken. In `Loyalty` the ledger is what the transaction
rows add up to, `given` what the rewards that were created cost, and `died` the
points of the operations that died, by the statement they died before;
`overlapped` remembers that two operations overlapped. What a reward costs is
the client's own number and may be negative.

### Presence, Chat

A tick is half of PRESENCE_TTL, the period of the ping timers. That is so for a
PRESENCE_TTL of 20 s or more; below, the timer keeps to its minimum of 10 s and
the key may end between two pings, which the model does not have. A handler
takes less than a tick between two statements (the key of a user who connects
lasts until his timer starts): that is an assumption on the host, made by the
code as well. `redis` chooses between Redis and the process's own set. A command
of Redis may fail, each in an action of its own: addOnline, removeOnline and
touchAlive then write the process's set and map, which listOnline does not read
as long as Redis answers it, so that to the list the command is lost; an exists
that fails inside the pipeline of a reconcile reads as no key; a failed srem
ends the reconcile. `undisturbed` and `unanswered` remember, per socket, the
two kinds of things that may keep its user out of the set. Chat's messages
are stored in the order of their createdAt. A page is the customer's; the
provider cannot be in the room (see 3). `wsAllowed` reads the hits of a
storage that keeps none where it looks, and so lets every message pass: the
model has that.

### Notifications, Photos, Audio

`event[e]` is one call of a notify* method, with the users still to be told.
Firebase answers per token. Notices and tokens that others change meanwhile are
actions of their own. In `Photos` the two objects are told apart by their keys,
which coincide when the name has no extension (`extension`). A thumbnail task
is left in the background by each confirmation; nothing waits for it.

### RateLimits, QuotesPage

A request counts under its key before its limit is looked at. The throttler
library keeps a time per hit; the models keep, for each number of ticks, how
many requests will still count then (`hits`), which says the same of hits
that cannot be told apart. `RateLimits` remembers as a history how many requests
were let through in the last ticks, for each number of them (`allowed`), so that
the property is about every stretch of time and not about fixed windows. Counts
are per process, as the storage is, and so is the promised limit. Keys are user
and route, or address and route, as the guards build them; search never knows
its user, since JwtAuthGuard leaves public routes alone. `QuotesPage` takes one
limiter and the pages with a cooldown, for every ttl up to a bound that is
shorter, equal and longer than the page's own 60 seconds; whether the page can
read Retry-After depends on its origin, as CORS exposes no header. A rejected
fetch, of the operation or in `load`, ends the handler before the cooldown.

### Search, ResultsPage, MetricsPage

Rows are numbered in the database's order. Distances, prices and radii are
small numbers, and Infinity stands for no location. No ORDER BY is asked for;
the order of rows is taken to stay while none changes. Providers may move at any
time (`SetLocation`), `moved` remembers that one did during a walk.
`ResultsPage` keeps the filters, what is saved of them, the requests in flight
and what the page says of the last one. A request is answered, refused with an
error, or its fetch is rejected, which ends `search` and leaves results and
status as they were. `orderly` remembers that every request was answered and
none overtook another, `clicked` a button that asked with old filters.
In `MetricsPage` samples carry what had happened when the server answered.

### The composites

`Services` and `Delivery` instantiate modules that share no state. A
behaviour belongs to one of them (`part`), so that the states add up instead of
multiplying; since the parts touch none of each other's variables, a
property of one part holds in the composite just when it holds in the part.
The theorems about these parts are theorems of the composites' specifications,
of the very formulas that the runs `services` and `delivery` check.

## 3. Runs

| Run | Instance | States | Shows |
| - | - | - | - |
| `fulfilment_all` | 2 providers, 2 windows, 2 requests, every operation, version <= 2, 2 acceptances | 2.1M up to symmetry | row invariants, the lock within an acceptance |
| `quotes_without_revoke` | 3 providers, 3 requests, no revocation | 0.4M up to symmetry | acceptQuote against itself and against rejections |
| `negotiation` | 3 requests, one acceptance, version <= 3 | 0.5M | implements `ScheduleNegotiation` |
| `stale_confirm` | 2 requests, 2 acceptances, version <= 4 | violation | the lock across acceptances |
| `stale_revoke` | quote operations | violation | a revocation overtaken by a new acceptance |
| `complete_after_reject` | 1 request | violation | completion after a rejection |
| `reminders` | lead 1, lookahead 2, 2 handlers, 4 instants, version <= 4, 2 acceptances, 1 failure | 0.41M | neither early nor twice, each visit reminded |
| `reminder_early` | no failure, 6 instants | violation | a job of an old visit is current again |
| `webhook_redelivery` | 1 intent, 1 call, verified events | violation | a redelivered success erases a dispute |
| `charge_unrecorded` | 1 intent, 1 call, no raw body | violation | no event is verified, no charge recorded |
| `services` | 9 parts: see below | 0.87M | safety of the services around a job |
| `delivery` | 5 parts: see below | 0.22M | what must arrive, stay or go in the end |

Bounds. A race between statements needs two requests, and three where one
must set up the state another overtakes; all of them crash. Two providers are
enough for one quote to displace another, three for a third to be declined and
put back. Two windows distinguish "shown" from "stored". Version 2 and two
acceptances let a version go back; `negotiation` reaches 3 so that a
confirmation follows a reschedule. For reminders the horizon leaves room for a
visit outside the lookahead, one inside it and one inside the lead time, and
four versions for a visit to be proposed, confirmed, moved and confirmed again;
one failure is a scan that fails, dies before its mark, or a handler that is
run again. `EveryVisitReminded` counts failures against the polls left before
the visit, so that none is enough to break a visit confirmed in time. `MaxVersion`, `MaxAccepts`,
`Horizon` and `MaxFailures` bound counters that the code does not bound; each
appears as a guard, and the theorems hold for every value of them.

Bounds of `services`: two thumbnail tasks and two deletions with two failures
(each can overtake the other, and fail or die, once); two requests of a visit
over two acceptances and a clock that outlasts the interval and the hour; two
operations on a loyalty account whose awards cross two tiers at once, two
rewards at a cost of the catalogue's and at a negative one; two
providers of eighteen kinds under some hundred queries with a page of one; three
messages, one older page of one message; two values of a filter, two page
numbers and two requests in flight; two processes, two users behind one address and settings
that differ by role; two audio uploads and a restart; three polls, two of which
overlap, and a restart of the API. `delivery`: one event for a customer and two
providers with one token that moves between them and one failure; two sockets,
two reconcilers, a key that lasts two ticks and one failure of Redis or of a
process; two accounts, one transfer, two requests; two intents, which two
overlapping `createPaymentIntent` calls need, and two calls; one handler, a
limit of one, a cooldown of its own of two ticks and windows of one to three.
Each of the races named in the hazards needs two actors and one failure, and is
reached.

Symmetry (providers, requests, windows) is used in safety runs only. Deadlock
is checked for `Fulfilment`; the reminders stop at the horizon, a job's
payment can be over, and the parts of the composites come to an end when their
bounded inputs do, so those runs say CHECK_DEADLOCK FALSE.

Fairness. `Fulfilment` has none: clients are never obliged to act, and its
properties are safety properties. `Reminders!FairSpec` assumes that the poll
timer goes on (`setInterval`), that the BullMQ worker takes due jobs and that
time passes; nothing forces anyone to propose or confirm. `Payments!FairSpec`
assumes only that Stripe delivers the event of a charge until it is
acknowledged, which its webhook contract promises and the code relies on by
throwing when it fails.

`Delivery` takes the fairness of its parts, for the part that moves: handlers
that run go on, the ping timers and the reconcile interval fire, time passes,
Stripe delivers. `QuotesPage` alone assumes something of a user, who clicks
again when the button is enabled: its promise is to such a user, one attempt at
a time. With two overlapping handlers the refused requests keep each other
refused for ever, and the promise fails. It also fails (`EveryUserGetsThrough`)
on a page that cannot read Retry-After while QUOTES_RATE_TTL is longer than the
60 seconds the page then waits: each try counts, and with a limit of one each is
refused. `PatientUserGetsThrough` says that condition (`CooldownCovers`), and the
run has ttls on both sides of it.

`EveryVisitReminded` holds of a visit confirmed more polls ahead than there
are failures, in the job's first acceptance and as long as no schedule change
lands inside a scan or a handler (`~raced`): both mark the row by id alone, so
a change there does lose the reminder. `AtMostOneReminder` is stated for
executions without failure, since a handler that fails after notifying is run
again.

Promises that hold only outside a race say so in the formula, with a history
variable: `undisturbed` and `unanswered` (Presence), `overlapped` and `died`
(Loyalty), `moved` (Search), `missed` (Notifications), `excused` (Photos),
`orderly` and `clicked` (ResultsPage). Each property has a variant of a definition, in the
comments called its mutant, under which the same run finds it violated.

### Disagreements the runs show

1. `stale_confirm`: the version field is meant to guard concurrent edits
   (docs/M4-Fulfillment.md), but `acceptQuote` restarts it at 0 on the same
   row. An old page can confirm a window it never showed.
2. `stale_revoke`: `revokeAcceptance` deletes whatever assignment there is and
   resets the quote it read before. Overtaken by a rejection and a new
   acceptance, it leaves an accepted quote without assignment, and no quote of
   the job can be accepted or revoked any more.
3. `complete_after_reject`: a rejected assignment can be completed or verified,
   and then its job cannot be requeued.
4. `reminder_early`: after a second acceptance an old delayed job is current
   again.
5. `webhook_redelivery`: handlers are not idempotent in the sense the playbook
   says, since each writes its status whatever was recorded since. That is of
   the handlers: it takes a request with a raw body to reach them.
6. `charge_unrecorded`: main.ts means to provide the raw body for the
   verification of webhooks (its line 5), and the security audit finds it
   configured, but `req.rawBody` is never set (main.ts:28, 85). With the secret
   configured `constructEvent` throws, every event is answered 400 however often
   it comes, and no charge is ever recorded.

Stated in a module and not kept by the code, without a run of their own (add the
name to the composite's cfg, or check the module by itself, to see the trace):

- `Presence!RemovesOnlyLast` (realtime.gateway.ts:294, 296): "Remove only if no
  other sockets for this user remain" removes the user while one remains.
- `Presence!GhostPruned` (gateway:113): a socket that closes during
  handleConnection leaves a ping timer, and a user who is online for ever.
- `Chat!PagesFollowOn` (realtime/jobs.controller.ts:46): the cursor is the
  first row that was cut off and is skipped by the next page, so that each
  "Load older" loses a message. users.controller.ts pages in the same way.
- `Photos!OriginalKept` (photos.service.ts:276): the thumbnail of a name
  without an extension is put over the photo.
- `Loyalty!RewardUsedOnce` (loyalty.service.ts:188): two applications that
  overlap use a reward twice.
- `SiteVisit!CheckOutFollowsOwnCheckIn` (assignments.service.ts:363): after a
  rejection another provider checks out on the first one's check-in.
- `Notifications!MarksOnlyOwn` (notifications.controller.ts:60): the user id is
  never set (JwtAuthGuard sets `sub`), and read-all marks everyone's notices.
- `ResultsPage!PageNumberIsShown` (near/page.tsx:221, search/page.tsx:202):
  "Next" shows the next number over the old results.
- `ResultsPage!OkShowsFilters` (search/page.tsx:48): an answer that is
  overtaken, a rejected fetch after an earlier answer, and the buttons with
  setTimeout leave OK above the results of other filters.
- `Payments!FailedIsNotCharged` (stripe-webhook.controller.ts:112): the event of
  an earlier attempt, coming after that of the charge, leaves a payment failed
  that was charged. Liveness of the record (`ChargeRecorded`) is therefore of
  `capturedAt`, which no handler resets, and not of the status.
- `Payments!VerificationKeepsOutcome` (payments.service.ts:53): a verification
  writes capture_pending over succeeded, failed or disputed.
- `QuotesPage!EveryUserGetsThrough`: see fairness, above.
- `Audio!FailureIsReported` (llm.controller.ts:126): transcribe answers 201
  with { text: null } when Whisper failed.
- `MetricsPage!ErrorsAreNotDrawn` (metrics/page.tsx:98): an error is drawn as a
  counter of 0, and the next answer as a rise by everything there ever was. A
  window of 1 in the URL (slice(-0)) never drops a sample.

Seen while reading, without a formula:

- A provider's withdrawn quote is declined by the next acceptance and put back
  to pending by the next rejection (quotes.service.ts:96). A previous
  provider's second rejection, checked before and written by id, rejects the
  next one's assignment (assignments.service.ts:205). A completion may be
  written over customer_verified (assignments.service.ts:163).
- An inquiry that Stripe closes as warning_closed is recorded as dispute_lost,
  although nothing was lost (stripe-webhook.controller.ts:148).
- No intent ever waits for its capture, so that capturePayment
  (payments.service.ts:209), and with it the place that announces loyalty points,
  always ends in an error of Stripe's. No payout leaves processing
  (payments.service.ts:287). A transfer whose process dies before
  payout.create has no row.
- With no webhook secret the accounts' webhook takes any body for an event, so
  that anyone's request verifies a provider; with one it drops every event, as
  raw() is mounted on the other route only (stripe.controller.ts:28, main.ts:85).
- pointsCost is the client's and unchecked (loyalty.controller.ts:52): a negative
  cost passes the comparison with the points and adds to them.
- A reward whose redemption died before the debit costs nothing
  (loyalty.service.ts:161).
- Presence with Redis: the fallback of a failed command writes to the process,
  where listOnline does not look while Redis answers. A failed sadd leaves the
  user of an open socket unlisted until he connects again, since pings do not add
  him; failed setex let his key end and reconcile remove him; so does an exists
  that fails in the pipeline. With a PRESENCE_TTL under 20 the key may end
  between two pings (realtime.gateway.ts:115). A reconcile that looks between a
  user's sadd and setex removes him after he has connected.
- A verification before `createPaymentIntent` creates the row that the latter's
  insert then collides with, and the job can never be charged
  (payments.service.ts:51, 158). A second verification queues a payout again
  that was approved or blocked (payments.service.ts:66).
- Chat rooms and reviews compare `Assignment.providerId` with a user id, which
  it never is (realtime.gateway.ts:149, 222, reviews.service.ts:38): providers
  cannot chat. WS_CHAT_RATE_LIMIT (docs/DEPLOYMENT.md:170) never refuses.
- The throttler library of this version counts milliseconds, so that
  RATE_DEFAULT_TTL=60 is 60 ms, and ignores the storage that app.module.ts puts
  into the elements of an array: limits are per process with REDIS_URL too.
  Role overrides of search never apply (JwtAuthGuard sets no user on public
  routes). CORS exposes no header, so a page of another origin cannot read
  Retry-After.
- Search: no query asks for an order (providers.controller.ts:98), and a provider
  who moves between two pages may be shown twice or never; a price of 0 counts
  as none; the two price bounds may be met by two
  services; without a radius the total is counted before the cap of 500 and
  more rows, so that hasNext stays true past the last row.

## 4. Proofs

All theorems hold for every value of the constants allowed by the modules'
ASSUMEs (null values are not members of their sets, bounds are naturals,
`Requests` is finite where calls are counted); TLC evaluates the assumptions.
Modules that runs only instantiate have no ASSUME; what is assumed of their
constants is assumed, by part, in `Services` and `Delivery`. Four of them have
proof modules of their own (`LoyaltyProofs`, `ChatProofs`, `SearchProofs`,
`PaymentsProofs`), whose theorems carry it as a hypothesis (`Numbers`, `Sizes`,
`Figures`, `Parameters`) until `ServicesProofs` and `DeliveryProofs` discharge it.

`FulfilmentProofs`:

- `TypeCorrect`: one lemma per action; the other proofs rest on it.
- `OneAccepted` is inductive by itself: only `AcceptTx` accepts, and it
  declines the rest.
- `VersionLock`. `VersionIdentifiesSchedule` is not inductive alone: a request
  kept from an earlier acceptance would become current. `LockInv` adds that
  no request is ahead of the present epoch. Then each write to the window or
  to the rejected status moves the version past every request of this epoch.
  `ConfirmationIsInformed`, `RejectionIsFinal` and `WindowsAreVersioned`
  follow as action properties.
- `RejectionClearsWindow`. A proposal writes a window without reading the
  status again; it can hit a rejected row of a later epoch, but it replaces
  the status in the same statement, so only status and window together matter.
- `AcceptedIsAssigned`, `AcceptanceNeverDisplaces`, assuming
  `"revokeAcceptance" \notin Ops`. `AcceptInv` says of each acceptance in
  flight that, as soon as some quote is accepted, its own quote is no longer
  pending, so that the transaction's own condition refuses it.
  With revocations the property is false, as `stale_revoke` shows.
- `PayoutHasPayment`. `PayoutInv` adds that a request about to write the
  payout has written the payment and which status it wrote.
- `NegotiationImplemented`, assuming `MaxAccepts = 1`: each step maps to a step
  of `ScheduleNegotiation` or a stutter, from `LockInv` and `RowInv` (a request
  that names a row was begun in the row's epoch).

`PaymentsProofs`, for `RawBody` TRUE and FALSE:

- `PaymentTypes`.
- `ChargesHaveRow`, `StatusIsHistory` from `ChargeInv`: a secret or a charge is
  only ever of the row's intent, each event to deliver is of something Stripe's
  state shows. Of dispute_lost the theorem says that a dispute was lost or an
  inquiry closed, and no more is true.
- `RefundsRecordedWereMade`: `recorded <= refunded` is not inductive;
  `RefundInv` adds the calls that have refunded and not yet recorded,
  `recorded + Cardinality(Refunding) <= refunded`.

`RemindersProofs`:

- `ReminderTypes`, with `JobsHandled`: a busy worker's job is active and only
  its own, and a job not given up has attempts left.
- `RemindersNotEarly`. `JobsOfVersion`: within the first acceptance scan and
  jobs are of versions up to the present one, and what is of the present one
  has the confirmed visit's start.
- `RemindedOnce`. `OnlyOneJob`: once the present version's job was added, the
  row is marked or the scan is about to mark it, so no scan adds it again; a
  QUEUED written over SENT does no harm, since the job is gone.
- `QueuedVisitHasJob`, from `MarkedHasJob` for visits whose schedule did not
  change inside a scan or a handler.

`LoyaltyProofs`: `LoyaltyTypes` (`Affordable`: a redemption deducts from a row
that had the points, so that points never go below 0); `BalanceSafety` and
`RewardSafety` (`BalanceInv`: as long as operations do not overlap at most one
is in progress, and, how far it is and what died where, account, ledger and the
cost of the rewards differ by what it has still to write); `NextTier`, about
`getPointsToNextTier` for every total.

`ChatProofs`: `ShownSafety`; `PagingSafety` (`BackInv`: a cursor is stored and
older than what came with it, and positions do not change when messages
follow). `PositionIn` is proved stable under Append. `ChatTypes`.

`SearchProofs`: `SearchTypes` and `WalkSafety`. `BeforeIsOrder` shows the
comparison to be a strict total order whatever is sorted by, ties included, and
from it that the number of providers before one is his place, so that `Sorted`,
which chooses whom so many come before, is a permutation of those found. A page
is the piece of it that follows the earlier pages, as long as no provider moves;
`WalkInv` says that what was walked is the first `opened` pages of it, and, below the cap, that these are all
of it once `hasNext` is false. The least price is taken with the well-foundedness of < on Nat.

`ServicesProofs`. `PartSteps` makes each step of `Services` a step or a stutter
of each part. Invariants beyond the types:

- `ThumbnailSafety`: a task at its update has put the thumbnail, and no
  deletion takes it away. `OrphanSafety`: from the moment the object's deletion
  was passed, an original in the bucket has an excuse.
- `LocationForward`, from the types alone, and `LocationsAreSpaced`
  (`SpacedInv`: a request that found no recent location still finds none, unless
  another was inserted since, and then it is marked).
- `ResultsSafety` (`LastAsked`: as long as requests are answered in order the
  last one in flight asks for the filters of the page, and if none is in flight
  its results are shown under OK, or none under Error).
- `LimitSafety`. The limit alone is not inductive, since the two counts age
  apart. `Counted`: of what was let through in the last `ttl - t` ticks
  everything still counts after `t` ticks. `Ordered`: the counts are monotone in
  their number of ticks, which bridges roles with other ttls on the same key.
- `AudioSafety` (`AudioInv`: a file that was left is of a request that is over,
  so that no later step of it takes the file away or brings it back).
- `RatesSafety`. That neighbouring samples fit each other is not inductive:
  what overlapping polls will append is not yet a sample. `ViewsAgree` says of
  every two values of the counter known anywhere, in the server, in answers on
  their way, in the chart, that they differ by what happened between them, or
  that a later process counts nothing an earlier one has seen.
- `RewardsPaid`, `BalanceKept`, `RoomShown`, `RoomPaging` and `WalkCompleted`
  carry over the theorems of the three modules above, instantiated with the
  substitutions of `Services`; the lemmas in between show that the two instances
  have the same initial states and steps.
- `ServicesTypes`.

`DeliveryProofs`, in the same way:

- `PushSafety` and `LiveTokenSafety` (`PushInv`: what a call has read was the
  user's since it began, and so is what it would read now; a deactivation that
  was started is of a token Firebase has forgotten).
- `PresenceSafety` (`KeptInv`: from the first touch on, of an undisturbed
  socket whose commands were answered, the key lives, the timer runs or is about
  to start, and no reconcile is about to remove the user). It says which
  failures matter: the connection's sadd and setex, the setex of a ping, the
  exists of a reconcile; a failed srem, a count that fails and a process that
  dies do not.
- `VerificationSafety` (`Honest`: with a secret, an account.updated that says
  nothing is past due is about an account of which that was true, and the row's
  account is one it has named). `PayoutSafety` (`PaidOut`: a request about to
  transfer or to record names an account the row had, and one about to record
  has made its transfer).
- `ChargeRowSafety` and `ChargeStatusSafety` carry `PaymentsProofs` over.
- `DeliveryTypes`. That the requests of a `QuotesPage` that count stay below
  their bound needs `HitsInv`: the requests on their way leave room for
  themselves, also after each number of ticks.

`RejectionClearsWindow`, `RejectionIsFinal`, `WindowsAreVersioned`,
`RefundsRecordedWereMade`, `LocationsAreSpaced` and `NextTier` are proved and not
among the properties of a run; TLC checked the invariants among
them on the instances above before they were proved.

Only model-checked: the five liveness properties (`EveryVisitReminded`,
`ChargeRecorded`, `EveryPartyTold`, `StalePruned`, `PatientUserGetsThrough`), since liveness under fairness is outside this prover.
Every invariant and every action property of a passing run is the statement of a
theorem. The violations in section 3 are counterexamples and need no more.

## 5. Not modelled

The `components` of PROJECT.json say of each part whether and why it is left
out. In short:

- `transfer.paid` and `transfer.failed`, which Stripe does not send, and
  capturePayment beyond its refusal: see 2.
- Reviews: no review can be written, as the user id is never set; a model would
  have no step.
- Sign-up, log-in, profile updates, addresses: single statements over one row;
  tokens are signed and checked by a library.
- LLM and RAG routes, analytics, categories, lists of quotes and assignments,
  health, translations, PII: functions of the request or of the rows, without a
  state that a step of another could disturb.
- Search sorted by rank (its comparison is not transitive, so that the order
  depends on the engine's sort) or rating, and the text filters.
- The list of notices and markAsRead, which always refuses.
- The admin pages (the refunds page asks for a route that does not exist), the
  marketing site, the mobile shell.
- Several API processes where the model has one: reminders (job ids make the
  second add of a waiting job a no-op), chat (rooms span processes only with the
  Redis adapter), metrics (each process has its own counters).

What could come next: the environment of `Reminders`, `SiteVisit` and
`Notifications` (a schedule or an assignment that changes) shown to be an
abstraction of `Fulfilment`; reminders with two scanning processes.
