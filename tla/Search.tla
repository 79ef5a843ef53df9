-------------------------------- MODULE Search --------------------------------
(***************************************************************************)
(* Provider search: GET /providers/search, with and without a radius, and  *)
(* GET /providers/near, and a visitor who walks through the result page by *)
(* page while "hasNext" says that there is more.  Every page is a request  *)
(* of its own, which filters, fetches, sorts and cuts again.               *)
(*                                                                         *)
(* Providers are numbered in the order the database returns their rows,    *)
(* which stays the same while no row changes: no ORDER BY is asked for;    *)
(* of a walk during which one moves nothing is claimed.  A distance        *)
(* is a number, and sorting by rank, whose scores depend on the pair       *)
(* compared, is left out.                                                  *)
(***************************************************************************)
EXTENDS Integers, Sequences, FiniteSets, FiniteSetsExt

CONSTANTS
  N,              \* number of providers
  Rows,           \* what a provider may be: [prices, distance, radius, online]
  Queries,        \* queries: [kind, radius, sort, order, onlineOnly, min, max]
  Infinity,       \* more than every price, and the distance of no location
  Cap,            \* rows a request fetches at most (500 and more)
  Take,           \* items of a page
  MaxPages        \* bound on the pages a visitor opens

VARIABLES
  provider,       \* the row of each provider
  query,          \* what the visitor asks for
  asked,          \* the number of the page asked for, 0 when answered
  opened,         \* the number of the last page shown
  walked,         \* history: the providers shown, page after page
  hasNext,        \* does the last page say that there is another?
  moved           \* history: a provider moved after the first page was shown

wvars == <<provider, query, asked, opened, walked, hasNext, moved>>

Init ==
  /\ provider \in [1..N -> Rows]
  /\ query \in Queries
  /\ asked = 0 /\ opened = 0 /\ walked = <<>> /\ hasNext = TRUE /\ moved = FALSE

-----------------------------------------------------------------------------
(* The server *)

\* reduce with s.price || Infinity: a price of 0 counts as none.
MinServicePrice(p) == Min({IF x = 0 THEN Infinity ELSE x : x \in provider[p].prices}
                            \cup {Infinity})

\* search without a radius asks neither where the visitor nor where a provider is.
ByDistance == query.kind = "near" \/ query.radius > 0

\* The filters of both routes.  A bound of 0 is not set; the two bounds may be
\* met by different services.
Matches(p) ==
  /\ query.onlineOnly => provider[p].online
  /\ query.min > 0 => \E x \in provider[p].prices : x >= query.min
  /\ query.max > 0 => \E x \in provider[p].prices : x <= query.max

\* Where distances count, providers without a location are left out.
Filtered ==
  {p \in 1..N : Matches(p) /\ (ByDistance => provider[p].distance # Infinity)}

Fetched == {p \in Filtered : Cardinality({q \in Filtered : q < p}) < Cap}

\* Both radii must reach, the visitor's (25 when there is none) and the
\* provider's, if he has one.
WithinReach(p) ==
  LET wanted == IF query.radius > 0 THEN query.radius ELSE 25 IN
  /\ provider[p].distance <= wanted
  /\ provider[p].radius > 0 => provider[p].distance <= provider[p].radius

Found == IF ByDistance THEN {p \in Fetched : WithinReach(p)} ELSE Fetched

SortKey(p) ==
  CASE query.sort = "price" -> MinServicePrice(p)
    [] query.sort = "online" -> IF provider[p].online THEN 1 ELSE 0
    [] query.sort = "distance" -> provider[p].distance

\* The comparison, whose ties keep the order of the rows (sort is stable).
Before(p, q) ==
  LET tie == IF ByDistance /\ query.sort # "distance"
             THEN \/ provider[p].distance < provider[q].distance
                  \/ provider[p].distance = provider[q].distance /\ p < q
             ELSE p < q
  IN \/ query.order = "asc" /\ SortKey(p) < SortKey(q)
     \/ query.order = "desc" /\ SortKey(p) > SortKey(q)
     \/ SortKey(p) = SortKey(q) /\ tie

Sorted ==
  [i \in 1..Cardinality(Found) |->
     CHOOSE p \in Found : Cardinality({q \in Found : Before(q, p)}) = i - 1]

\* search without a radius counts in the database, before the cap.
Total == IF ByDistance THEN Cardinality(Found) ELSE Cardinality(Filtered)

\* Mutant: pages are counted from 0.
StartFromZero(page) == page * Take

Start(page) == (page - 1) * Take

Smaller(a, b) == IF a < b THEN a ELSE b

PageItems(page) == SubSeq(Sorted, Start(page) + 1, Smaller(Start(page) + Take, Len(Sorted)))

-----------------------------------------------------------------------------
(* The visitor *)

\* The next page is asked for when the last one is there (ResultsPage has what
\* the web pages themselves ask for, and when).
Ask ==
  /\ asked = 0 /\ hasNext /\ opened < MaxPages
  /\ asked' = opened + 1
  /\ UNCHANGED <<provider, query, opened, walked, hasNext, moved>>

Show ==
  /\ asked > 0
  /\ walked' = walked \o PageItems(asked)
  /\ hasNext' = (Start(asked) + Len(PageItems(asked)) < Total)
  /\ opened' = asked /\ asked' = 0
  /\ UNCHANGED <<provider, query, moved>>

\* setLocation, at any time: a location is moved, never taken back.
SetLocation(p) ==
  /\ \E r \in Rows :
       /\ r.distance # Infinity
       /\ provider' = [provider EXCEPT ![p].distance = r.distance]
  /\ moved' = (moved \/ opened > 0)
  /\ UNCHANGED <<query, asked, opened, walked, hasNext>>

Next == Ask \/ Show \/ \E p \in 1..N : SetLocation(p)

Spec == Init /\ [][Next]_wvars

-----------------------------------------------------------------------------
(* Rows, the query and the walk have their types. *)
TypeOK ==
  /\ DOMAIN provider = 1..N
  /\ query \in Queries
  /\ asked \in 0..MaxPages /\ opened \in 0..MaxPages
  /\ walked \in Seq(1..N) /\ hasNext \in BOOLEAN /\ moved \in BOOLEAN

\* What a visitor asked for, said without fetching, sorting and cutting.
Wanted(p) ==
  /\ p \in Filtered
  /\ ByDistance => WithinReach(p)

(* A visitor who walks through all pages has seen every provider he asked for  *)
(* exactly once and in order, although each page is computed anew, as long as  *)
(* the cap is not reached: the arithmetic of start, total and hasNext.  Pages  *)
(* are places in a list that is computed anew: when a provider moves between   *)
(* two pages nothing is promised, one may be shown twice and one never.        *)
WalkIsComplete ==
  ~hasNext /\ ~moved /\ Cardinality(Filtered) <= Cap =>
    /\ Len(walked) = Cardinality({p \in 1..N : Wanted(p)})
    /\ {walked[i] : i \in DOMAIN walked} = {p \in 1..N : Wanted(p)}
    /\ \A i, j \in DOMAIN walked : i < j => Before(walked[i], walked[j])

=============================================================================
