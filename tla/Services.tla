-------------------------------- MODULE Services --------------------------------
(***************************************************************************)
(* Services and pages that share no state, side by side: photos, a visit   *)
(* with its checkpoints, loyalty, provider search and the pages that show  *)
(* its results, a room's chat, the rate limits, audio uploads, and the     *)
(* metrics page.  A behaviour is one of one part, which part tells; the    *)
(* others stay in their initial state, so that the states of the parts add *)
(* up and do not multiply.                                                 *)
(***************************************************************************)
EXTENDS Integers, FiniteSets

CONSTANTS
  Tasks, Deletes, MaxFailures,                          \* Photos
  Providers, Requests, Interval, FreshFor, Horizon, MaxTurns,  \* SiteVisit
  Amounts, Costs, Jobs, MaxAwards, MaxRewards,          \* Loyalty
  N, Rows, Queries, Infinity, Cap, Take, MaxPages,      \* Search
  Customer, Messages, Fetches, None, PageSize, Kept, WsLimit, MaxCrashes,  \* Chat
  Values, Default, Nothing, MaxPage, MaxInFlight,  \* ResultsPage
  Instances, People, RoleOf, Environments, MaxTtl, MaxHits,  \* RateLimits
  Uploads, MaxRestarts,                                 \* Audio
  Windows, Polls, MaxPolls, MaxEvents, MaxLives         \* MetricsPage

ASSUME PhotoAssumption == MaxFailures \in Nat
ASSUME VisitAssumption ==
  /\ Providers # {} /\ MaxTurns \in Nat \ {0}
  /\ Interval \in Nat /\ FreshFor \in Nat /\ Horizon \in Nat
ASSUME PointsAssumption ==
  /\ Amounts \subseteq Nat /\ Costs \subseteq Int /\ IsFiniteSet(Requests)
  /\ MaxAwards \in Nat /\ MaxRewards \in Nat
ASSUME SearchAssumption ==
  /\ Rows # {} /\ Queries # {}
  /\ Rows \subseteq [prices : SUBSET Nat, distance : Nat, radius : Nat, online : BOOLEAN]
  /\ \A q \in Queries : /\ q.sort \in {"price", "online", "distance"}
                        /\ q.order \in {"asc", "desc"}
  /\ N \in Nat /\ Infinity \in Nat /\ Cap \in Nat /\ Take \in Nat \ {0} /\ MaxPages \in Nat
ASSUME RoomAssumption ==
  /\ PageSize \in Nat /\ Kept \in Nat /\ MaxCrashes \in Nat
  /\ None \notin Messages
\* The search page asks twice when it is opened.
ASSUME ResultsAssumption ==
  /\ Default \in Values /\ MaxPage \in Nat \ {0}
  /\ MaxInFlight \in Nat \ {0, 1}
\* Only an override may be unset.
ASSUME LimitsAssumption ==
  /\ MaxTtl \in Nat /\ MaxHits \in Nat /\ Environments # {}
  /\ \A e \in Environments, f \in {"base", "CUSTOMER", "PROVIDER"} :
       /\ e.ttl[f] \in (IF f = "base" THEN 0..MaxTtl ELSE -1..MaxTtl)
       /\ e.limit[f] \in (IF f = "base" THEN Nat ELSE Nat \cup {-1})
ASSUME SpeechAssumption == MaxRestarts \in Nat
ASSUME ChartsAssumption ==
  /\ Windows \subseteq Nat \ {0} /\ Windows # {}
  /\ MaxPolls \in Nat /\ MaxEvents \in Nat /\ MaxLives \in Nat \ {0}

VARIABLES
  part,
  extension, photo, thumbnailUrl, bucket, urlValid, task, delete, excused, photoCrashes,
  visit, checkpoints, locations, request, clock,
  loyalty, ledger, rewards, op, overlapped, given, died,
  provider, query, asked, opened, walked, hasNext, moved,
  joining, joined, stored, sends, page, nextCursor, newest, fetch, restarts,
  near, filters, saved, sent, shown, status, orderly, clicked,
  limiter, env, hits, allowed,
  configured, files, upload, left, restarted,
  counter, happened, lives, window, poll, polled, series, summary

Photo == INSTANCE Photos WITH row <- photo, crashes <- photoCrashes
Visit == INSTANCE SiteVisit WITH row <- visit, Fresh <- FreshFor
Points == INSTANCE Loyalty WITH account <- loyalty
Room == INSTANCE Chat WITH Take <- PageSize
Walk == INSTANCE Search
Results == INSTANCE ResultsPage
Limits == INSTANCE RateLimits WITH Users <- People
Speech == INSTANCE Audio
Charts == INSTANCE MetricsPage

Init ==
  /\ part \in {"photo", "visit", "points", "walk", "room", "results", "limits", "speech", "charts"}
  /\ Photo!Init /\ (part # "photo" => extension)
  /\ Visit!Init
  /\ Points!Init
  /\ Room!Init
  /\ IF part = "walk" THEN Walk!Init
     ELSE /\ provider = [i \in 1..N |-> CHOOSE r \in Rows : TRUE]
          /\ query = CHOOSE q \in Queries : TRUE
          /\ asked = 0 /\ opened = 0 /\ walked = <<>> /\ hasNext = TRUE /\ moved = FALSE
  /\ Results!Init /\ (part # "results" => near)
  /\ Limits!Init
  /\ part # "limits" => limiter = "login" /\ env = CHOOSE e \in Environments : TRUE
  /\ Speech!Init /\ (part # "speech" => configured)
  /\ Charts!Init /\ (part # "charts" => window = CHOOSE w \in Windows : TRUE)

PhotoVars ==
  <<extension, photo, thumbnailUrl, bucket, urlValid, task, delete, excused, photoCrashes>>
VisitVars == <<visit, checkpoints, locations, request, clock>>
PointsVars == <<loyalty, ledger, rewards, op, overlapped, given, died>>
WalkVars == <<provider, query, asked, opened, walked, hasNext, moved>>
RoomVars == <<joining, joined, stored, sends, page, nextCursor, newest, fetch, restarts>>
ResultsVars == <<near, filters, saved, sent, shown, status, orderly, clicked>>
LimitsVars == <<limiter, env, hits, allowed>>
SpeechVars == <<configured, files, upload, left, restarted>>
ChartsVars == <<counter, happened, lives, window, poll, polled, series, summary>>
vars == <<part, PhotoVars, VisitVars, PointsVars, WalkVars, RoomVars, ResultsVars, LimitsVars,
          SpeechVars, ChartsVars>>

Next ==
  /\ UNCHANGED part
  /\ IF part = "photo" THEN Photo!Next ELSE UNCHANGED PhotoVars
  /\ IF part = "visit" THEN Visit!Next ELSE UNCHANGED VisitVars
  /\ IF part = "points" THEN Points!Next ELSE UNCHANGED PointsVars
  /\ IF part = "walk" THEN Walk!Next ELSE UNCHANGED WalkVars
  /\ IF part = "room" THEN Room!Next ELSE UNCHANGED RoomVars
  /\ IF part = "results" THEN Results!Next ELSE UNCHANGED ResultsVars
  /\ IF part = "limits" THEN Limits!Next ELSE UNCHANGED LimitsVars
  /\ IF part = "speech" THEN Speech!Next ELSE UNCHANGED SpeechVars
  /\ IF part = "charts" THEN Charts!Next ELSE UNCHANGED ChartsVars

Spec == Init /\ [][Next]_vars

(* The variables of every part have their types. *)
TypeOK ==
  /\ Photo!TypeOK /\ Visit!TypeOK /\ Points!TypeOK /\ Walk!TypeOK
  /\ Room!TypeOK /\ Results!TypeOK /\ Limits!TypeOK /\ Speech!TypeOK
  /\ Charts!TypeOK

\* The properties of the parts, under their own names.
ThumbnailIsThere == Photo!ThumbnailIsThere
NoOrphanByCrash == Photo!NoOrphanByCrash
LocationNeverGoesBack == Visit!LocationNeverGoesBack
RewardsArePaid == Points!RewardsArePaid
BalanceIsLedger == Points!BalanceIsLedger
WalkIsComplete == Walk!WalkIsComplete
ShownIsStored == Room!ShownIsStored
PagesGoBack == Room!PagesGoBack
SettledShowsFilters == Results!SettledShowsFilters
AllowedWithinLimit == Limits!AllowedWithinLimit
AudioKeptWhileUsed == Speech!AudioKeptWhileUsed
RatesAreReal == Charts!RatesAreReal

=============================================================================
