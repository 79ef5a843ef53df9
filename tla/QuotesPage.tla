------------------------------ MODULE QuotesPage ------------------------------
(***************************************************************************)
(* The rate limit of the quote operations, from both sides: the server,    *)
(* which counts requests and refuses those over the limit with 429, and    *)
(* the pages that show a cooldown then: the customer's, which accepts and  *)
(* revokes, the provider's form, which submits a quote, and the variant of *)
(* each in the static export.  A click starts an asynchronous handler; the *)
(* button stays enabled until a handler has set the cooldown.              *)
(*                                                                         *)
(* Accepting and revoking pass QuotesRoleLimitGuard: a request counts for  *)
(* ttl ticks from when it was made, refused or not, and timeToExpire, the  *)
(* Retry-After, is what is left of a window of ttl ticks that starts with  *)
(* the first request after the last one's end.  Submitting passes only the *)
(* application's throttler, whose QUOTES_RATE_TTL of 60 the library takes  *)
(* for milliseconds, less than a tick, and which answers with a header     *)
(* (Retry-After-quotes) that the page does not read.                       *)
(***************************************************************************)
EXTENDS Integers, FiniteSets

CONSTANTS
  Handlers,       \* handlers in progress at once
  Limit,          \* QUOTES_RATE_LIMIT of the user's role
  DefaultWait,    \* the page's cooldown when it cannot read Retry-After (60)
  MaxTtl,         \* bound on ttl
  MaxHits,        \* bound on requests that count at once
  MaxReloads,     \* bound on reloads of the page
  MaxFailures     \* bound on the page's fetches that are rejected

VARIABLES
  ttl,            \* QUOTES_RATE_TTL of the user's role, in ticks
  page,           \* which page it is
  sameOrigin,     \* can the page read Retry-After? (main.ts exposes no header)
  hits,           \* requests that will still count after each number of ticks
  window,         \* ticks until expiresAt
  handler,        \* the statement each handler is at
  wait,           \* the Retry-After a handler was answered with
  cooldown,       \* ticks until the page's cooldownUntil
  saved,          \* the same in localStorage
  answer,         \* history: the last answer of the guard
  reloads,
  failed

qvars == <<ttl, page, sameOrigin, hits, window, handler, wait, cooldown, saved, answer,
           reloads, failed>>

Pages == {"quotes", "quotesStatic", "form", "formStatic"}
Form == page \in {"form", "formStatic"}

Init ==
  /\ ttl \in 1..MaxTtl /\ page \in Pages /\ sameOrigin \in BOOLEAN
  /\ hits = [t \in 0..MaxTtl |-> 0] /\ window = 0
  /\ handler = [h \in Handlers |-> "idle"]
  /\ wait = [h \in Handlers |-> 0]
  /\ cooldown = 0 /\ saved = 0
  /\ answer = "none" /\ reloads = 0 /\ failed = 0

-----------------------------------------------------------------------------
(* The guard and its storage *)

TotalHits == hits[0]

Over(total) == total > Limit

TimeToExpire == IF window = 0 THEN ttl ELSE window

\* How long a request counts.
Counted == IF Form THEN 1 ELSE ttl

\* increment counts the request before the limit is looked at.
Guard(h) ==
  /\ handler[h] = "sent"
  /\ hits' = [t \in 0..MaxTtl |-> IF t < Counted THEN hits[t] + 1 ELSE hits[t]]
  /\ window' = TimeToExpire
  /\ IF Over(TotalHits + 1)
     THEN /\ answer' = "429"
          /\ handler' = [handler EXCEPT ![h] = "refused"]
          /\ wait' = [wait EXCEPT ![h] = TimeToExpire]
     ELSE /\ answer' = "ok"
          /\ handler' = [handler EXCEPT ![h] = "allowed"]
          /\ UNCHANGED wait
  /\ UNCHANGED <<ttl, page, sameOrigin, cooldown, saved, reloads, failed>>

-----------------------------------------------------------------------------
(* The pages *)

Click(h) ==
  /\ handler[h] = "idle" /\ cooldown = 0
  /\ TotalHits + Cardinality({g \in Handlers : handler[g] = "sent"}) < MaxHits
  /\ handler' = [handler EXCEPT ![h] = "sent"]
  /\ UNCHANGED <<ttl, page, sameOrigin, hits, window, wait, cooldown, saved, answer, reloads,
                 failed>>

\* load, which accept and revokeAcceptance await before they look at the answer.
Load(h) ==
  /\ ~Form /\ handler[h] \in {"refused", "allowed"}
  /\ handler' = [handler EXCEPT ![h] = IF @ = "refused" THEN "limited" ELSE "idle"]
  /\ UNCHANGED <<ttl, page, sameOrigin, hits, window, wait, cooldown, saved, answer, reloads,
                 failed>>

\* A fetch is rejected, that of the operation before or after the guard, or one
\* of load: the handler ends there, whatever the guard answered.
FetchFails(h) ==
  /\ handler[h] \in {"sent", "refused", "allowed"} /\ failed < MaxFailures
  /\ handler' = [handler EXCEPT ![h] = "idle"]
  /\ wait' = [wait EXCEPT ![h] = 0]
  /\ failed' = failed + 1
  /\ UNCHANGED <<ttl, page, sameOrigin, hits, window, cooldown, saved, answer, reloads>>

Submitted(h) ==
  /\ Form /\ handler[h] = "allowed"
  /\ handler' = [handler EXCEPT ![h] = "idle"]
  /\ UNCHANGED <<ttl, page, sameOrigin, hits, window, wait, cooldown, saved, answer, reloads,
                 failed>>

\* Mutant: a refusal is reported, and nothing is waited for.
NoWait(ticks) == 0

\* Retry-After if there is one that can be read, else 60 seconds.
RetryAfter(ticks) == IF sameOrigin /\ ~Form THEN ticks ELSE DefaultWait

\* The cooldown begins when the handler comes to it; an effect saves it.
StartCooldown(h) ==
  /\ handler[h] = IF Form THEN "refused" ELSE "limited"
  /\ cooldown' = RetryAfter(wait[h])
  /\ saved' = cooldown'
  /\ handler' = [handler EXCEPT ![h] = "idle"]
  /\ wait' = [wait EXCEPT ![h] = 0]
  /\ UNCHANGED <<ttl, page, sameOrigin, hits, window, answer, reloads, failed>>

\* The handlers of each page.  The static one of the customer has no button to
\* revoke; its cooldown is saved under the same name.
Accept(h) == page = "quotes" /\ (Click(h) \/ Load(h) \/ StartCooldown(h))
AcceptStatic(h) == page = "quotesStatic" /\ (Click(h) \/ Load(h) \/ StartCooldown(h))
Submit(h) == page = "form" /\ (Click(h) \/ Submitted(h) \/ StartCooldown(h))
SubmitStatic(h) == page = "formStatic" /\ (Click(h) \/ Submitted(h) \/ StartCooldown(h))

\* The page's handlers are gone (a request that still reaches the guard has
\* done so before); the saved cooldown is loaded if it is not over.
Reload ==
  /\ reloads < MaxReloads
  /\ reloads' = reloads + 1
  /\ handler' = [h \in Handlers |-> "idle"] /\ wait' = [h \in Handlers |-> 0]
  /\ cooldown' = saved
  /\ UNCHANGED <<ttl, page, sameOrigin, hits, window, saved, answer, failed>>

Less(n) == IF n = 0 THEN 0 ELSE n - 1

Tick ==
  /\ hits' = [t \in 0..MaxTtl |-> IF t = MaxTtl THEN 0 ELSE hits[t + 1]]
  /\ window' = Less(window) /\ cooldown' = Less(cooldown) /\ saved' = Less(saved)
  /\ UNCHANGED <<ttl, page, sameOrigin, handler, wait, answer, reloads, failed>>

Next ==
  \/ \E h \in Handlers :
       \/ Guard(h) \/ FetchFails(h)
       \/ Accept(h) \/ AcceptStatic(h) \/ Submit(h) \/ SubmitStatic(h)
  \/ Reload \/ Tick

Proceed(h) == Guard(h) \/ Load(h) \/ Submitted(h) \/ StartCooldown(h)

\* Requests are answered, time passes, and the user clicks again when the
\* button is enabled.
Fairness ==
  /\ \A h \in Handlers : WF_qvars(Proceed(h))
  /\ WF_qvars(Tick)
  /\ WF_qvars(\E h \in Handlers : Click(h))

Spec == Init /\ [][Next]_qvars /\ Fairness

-----------------------------------------------------------------------------
(* The counts, the handlers and the cooldowns have their types. *)
TypeOK ==
  /\ ttl \in 1..MaxTtl /\ page \in Pages /\ sameOrigin \in BOOLEAN
  /\ hits \in [0..MaxTtl -> 0..MaxHits] /\ window \in 0..MaxTtl
  /\ handler \in [Handlers -> {"idle", "sent", "refused", "allowed", "limited"}]
  /\ wait \in [Handlers -> 0..MaxTtl]
  /\ cooldown \in 0..(MaxTtl + DefaultWait) /\ saved = cooldown
  /\ answer \in {"none", "ok", "429"}
  /\ reloads \in 0..MaxReloads /\ failed \in 0..MaxFailures

\* The cooldown a page takes by itself is no shorter than requests count, or it
\* takes the one it is told.
CooldownCovers == Form \/ sameOrigin \/ DefaultWait >= ttl

(* Refused requests count as well, so that a user who tries too soon stays     *)
(* refused.  The cooldown starts late, may not start at all (a rejected fetch) *)
(* and, taken from the window, may be shorter than the time the requests       *)
(* count; it still brings a user who keeps trying through, if he makes one     *)
(* attempt at a time (one handler) and the page can read Retry-After or its    *)
(* 60 seconds are no shorter than QUOTES_RATE_TTL.                             *)
PatientUserGetsThrough == (answer = "429" /\ CooldownCovers) ~> answer = "ok"

(* Without that condition (not kept): the browser hides Retry-After from a     *)
(* page of another origin (main.ts exposes no header); with a QUOTES_RATE_TTL  *)
(* over 60 and a limit of 1 each try after 60 seconds is refused, and counts.  *)
EveryUserGetsThrough == answer = "429" ~> answer = "ok"

=============================================================================
