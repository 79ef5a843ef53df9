------------------------------ MODULE RateLimits ------------------------------
(***************************************************************************)
(* The guards that limit how often a user or an address may ask: quotes    *)
(* (accept and revoke), jobs, providers, search, signup and login.  All of *)
(* them count a request under a key, before they look at the limit, and    *)
(* all but login take a limit per role.  SEARCH_RATE_DISABLE is not set.   *)
(*                                                                         *)
(* The storage is the throttler library's, in the process: the storage     *)
(* that app.module.ts makes with REDIS_URL is put into an element of the   *)
(* array it returns, where the library does not look for it.  A request    *)
(* counts for the ttl of the one who made it, in ticks, refused or not.    *)
(* A process that restarts would have counted nothing: none does here.     *)
(* QuotesPage has what becomes of Retry-After.                             *)
(***************************************************************************)
EXTENDS Integers

CONSTANTS
  Instances,      \* API processes
  Users,          \* users, all behind one address
  RoleOf,         \* the role of each user, in his token or in his signup
  Environments,   \* *_RATE_TTL and *_RATE_LIMIT, [ttl, limit : [Fields -> Int]]
  MaxTtl,         \* the longest ttl of an environment
  MaxHits         \* bound on requests of one key that count at once

VARIABLES
  limiter,        \* the guard the behaviour is about
  env,            \* its settings
  hits,           \* of a key in a process: the requests that will still count
                  \* after each number of ticks
  allowed         \* history: requests let through in the last ticks, so many of
                  \* them, by key, process and override

rvars == <<limiter, env, hits, allowed>>

Unset == -1
Fields == {"base", "CUSTOMER", "PROVIDER"}
Limiters == {"quotes", "jobs", "providers", "search", "signup", "login"}
Ip == "ip"
Keys == Users \cup {Ip}

Init ==
  /\ limiter \in Limiters /\ env \in Environments
  /\ hits = [x \in Instances \X Keys |-> [t \in 0..MaxTtl |-> 0]]
  /\ allowed = [x \in Instances \X Keys \X Fields |-> [t \in 0..MaxTtl |-> 0]]

-----------------------------------------------------------------------------
\* JwtAuthGuard and RolesGuard before the limit; search and auth have neither.
\* An ADMIN, whom the guards would let through uncounted, is not admitted here
\* or not known (search).
Admitted(u) ==
  /\ limiter \in {"quotes", "jobs"} => RoleOf[u] = "CUSTOMER"
  /\ limiter = "providers" => RoleOf[u] = "PROVIDER"

\* req.user, which only JwtAuthGuard sets, and which it does not set for the
\* public paths of search.
KnowsUser == limiter \in {"quotes", "jobs", "providers"}

Key(u) == IF KnowsUser THEN u ELSE Ip

\* The role whose override applies: the providers guard knows one for
\* PROVIDER, signup takes every role but PROVIDER for CUSTOMER.
JobsField(role) == IF role \in {"CUSTOMER", "PROVIDER"} THEN role ELSE "base"
ProvidersField(role) == IF role = "PROVIDER" THEN role ELSE "base"
SearchField == "base"
AuthField(role) ==
  CASE limiter = "login" -> "base"
    [] limiter = "signup" -> IF role = "PROVIDER" THEN "PROVIDER" ELSE "CUSTOMER"

Field(u) ==
  CASE limiter \in {"quotes", "jobs"} -> JobsField(RoleOf[u])
    [] limiter = "providers" -> ProvidersField(RoleOf[u])
    [] limiter = "search" -> SearchField
    [] OTHER -> AuthField(RoleOf[u])

\* An override that is not set falls back on the base.
Setting(of, f) == IF of[f] = Unset THEN of["base"] ELSE of[f]
TtlOf(f) == Setting(env.ttl, f)
LimitOf(f) == Setting(env.limit, f)

TotalHits(i, k) == hits[<<i, k>>][0]

\* Mutant: one request more than the limit is let through.
OneMore(total, f) == total > LimitOf(f) + 1

Over(total, f) == total > LimitOf(f)

\* increment, then the comparison.
Request(i, u) ==
  LET k == Key(u)
      f == Field(u)
  IN /\ Admitted(u) /\ TotalHits(i, k) < MaxHits
     /\ hits' = [hits EXCEPT ![<<i, k>>] =
          [t \in 0..MaxTtl |-> IF t < TtlOf(f) THEN hits[<<i, k>>][t] + 1 ELSE hits[<<i, k>>][t]]]
     /\ allowed' = IF Over(TotalHits(i, k) + 1, f) THEN allowed
                   ELSE [allowed EXCEPT ![<<i, k, f>>] =
                          [t \in 0..MaxTtl |-> IF t = 0 THEN 0 ELSE allowed[<<i, k, f>>][t] + 1]]
     /\ UNCHANGED <<limiter, env>>

Tick ==
  /\ hits' = [x \in Instances \X Keys |->
                [t \in 0..MaxTtl |-> IF t = MaxTtl THEN 0 ELSE hits[x][t + 1]]]
  /\ allowed' = [x \in Instances \X Keys \X Fields |->
                   [t \in 0..MaxTtl |-> IF t = 0 THEN 0 ELSE allowed[x][t - 1]]]
  /\ UNCHANGED <<limiter, env>>

Next == Tick \/ \E i \in Instances, u \in Users : Request(i, u)

Spec == Init /\ [][Next]_rvars

-----------------------------------------------------------------------------
(* Counts and settings have their types. *)
TypeOK ==
  /\ limiter \in Limiters /\ env \in Environments
  /\ hits \in [Instances \X Keys -> [0..MaxTtl -> 0..MaxHits]]
  /\ allowed \in [Instances \X Keys \X Fields -> [0..MaxTtl -> Nat]]

(* In no stretch of time as long as the ttl does a process let more requests   *)
(* of a key through than the limit, wherever the stretch begins and although   *)
(* roles with other limits and ttls may share the key (signup); all processes  *)
(* together so many times the limit.                                           *)
AllowedWithinLimit ==
  \A i \in Instances, k \in Keys, f \in Fields : allowed[<<i, k, f>>][TtlOf(f)] <= LimitOf(f)

=============================================================================
