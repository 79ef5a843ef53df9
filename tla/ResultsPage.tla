----------------------------- MODULE ResultsPage -----------------------------
(***************************************************************************)
(* The two pages that show found providers, providers/search and           *)
(* providers/near: their filters, the requests in flight and the results   *)
(* of the last answer.  The search page asks in an effect whenever a       *)
(* filter or the page number changes; the near page asks when a button is  *)
(* clicked.  Buttons that change a filter and then ask in a setTimeout do  *)
(* so with the function of the render they were clicked in, that is with   *)
(* the filters from before the change.                                     *)
(*                                                                         *)
(* Filters are told apart by how they are kept: "kept" stands for those    *)
(* that are saved and restored, "take" is the one of them that "Clear      *)
(* filters" leaves, and "lost" stands for those that are saved and not     *)
(* restored, service and category on the search page and the sort order    *)
(* rank, with its weights, on the near page.                               *)
(***************************************************************************)
EXTENDS Integers, Sequences, SequencesExt

CONSTANTS
  Values,         \* values of a filter, Default among them
  Default,        \* of a filter that is not set
  Nothing,        \* no results yet
  MaxPage,        \* bound on the page number
  MaxInFlight     \* bound on requests in flight

VARIABLES
  near,           \* is the page providers/near? (else providers/search)
  filters,        \* the page's state
  saved,          \* the filters in localStorage
  sent,           \* queries of the requests in flight, in the order of sending
  shown,          \* the query whose results the page shows
  status,         \* what the page says of the last search
  orderly,        \* history: since none was in flight every request was answered,
                  \* and no answer overtook another
  clicked         \* history: a button asked again with old filters since the last effect

fvars == <<near, filters, saved, sent, shown, status, orderly, clicked>>

Defaults == [page |-> 1, take |-> Default, kept |-> Default, lost |-> Default]

Filters == [page : 1..MaxPage, take : Values, kept : Values, lost : Values]

StatusAfter(queries, old) == IF queries = <<>> THEN old ELSE "Searching"

Init ==
  /\ near \in BOOLEAN
  /\ filters = Defaults /\ saved = Defaults
  /\ sent = IF near THEN <<>> ELSE <<Defaults>>
  /\ status = StatusAfter(sent, "none")
  /\ shown = Nothing /\ orderly = TRUE /\ clicked = FALSE

-----------------------------------------------------------------------------
\* Mutant: the effect does not depend on service and category.
ChangedButLost(new) == [new EXCEPT !.lost = filters.lost] # filters

\* search is a useCallback of every filter: the effect runs when one changes.
Changed(new) == new # filters

Send(queries) ==
  /\ Len(sent) + Len(queries) <= MaxInFlight
  /\ sent' = sent \o queries
  /\ status' = StatusAfter(queries, status)
  /\ orderly' = (orderly \/ sent = <<>>)

\* The page gets new filters, by which the effect asks (search page), and an
\* effect saves them.  before and later are what the click asks for itself.
Set(new, before, later) ==
  /\ filters' = new /\ saved' = new
  /\ Send(before \o (IF ~near /\ Changed(new) THEN <<new>> ELSE <<>>) \o later)
  /\ clicked' = (later # <<>>)
  /\ UNCHANGED <<near, shown>>

\* onChange of the input fields and selects.
Edit ==
  \E v \in Values : filters.kept # v /\ Set([filters EXCEPT !.kept = v], <<>>, <<>>)

\* Service and category on the search page, rank on the near page.
EditLost ==
  \E v \in Values : filters.lost # v /\ Set([filters EXCEPT !.lost = v], <<>>, <<>>)

\* "Prev" and "Next", the server having said that there is a next page.
Turn(page) ==
  /\ page \in 1..MaxPage /\ page # filters.page
  /\ Set([filters EXCEPT !.page = page], <<>>, <<filters>>)

\* A chip of a provider (category or service) goes back to the first page.
NearChipClicked ==
  \E v \in Values :
    near /\ Set([filters EXCEPT !.kept = v, !.page = 1], <<>>, <<filters>>)

ChipClicked ==
  \E v \in Values :
    ~near /\ Set([filters EXCEPT !.lost = v, !.page = 1], <<>>, <<filters>>)

\* "Clear filters" leaves the number of results per page.
Clear == Set([Defaults EXCEPT !.take = filters.take], <<>>, <<filters>>)

\* The number of results per page, which on the near page is an input like others.
TakeChanged ==
  \E v \in Values :
    \/ near /\ filters.take # v /\ Set([filters EXCEPT !.take = v], <<>>, <<>>)
    \/ ~near /\ Set([filters EXCEPT !.take = v, !.page = 1], <<>>, <<filters>>)

\* "Use my location + 10km": the callback is no event of the page, so that its
\* setTimeout may run before the effect.
Located ==
  \E v \in Values :
    LET new == [filters EXCEPT !.kept = v, !.page = 1]
    IN  Set(new, <<>>, <<filters>>) \/ Set(new, <<filters>>, <<>>)

\* "Search": the search page goes to the first page and asks before it has done
\* so; the near page asks for what its filters say.
SearchClicked ==
  IF near THEN Set(filters, <<filters>>, <<>>)
  ELSE Set([filters EXCEPT !.page = 1], <<filters>>, <<>>)

\* Request i is over, in order or not.
Over(i, ordered) ==
  /\ sent' = RemoveAt(sent, i)
  /\ orderly' = (orderly /\ ordered)
  /\ UNCHANGED <<near, filters, saved, clicked>>

\* The answers of requests may overtake each other.
Answered(i) ==
  /\ Over(i, i = 1)
  /\ shown' = sent[i] /\ status' = "OK"

\* An answer that is an error has no items: the page shows none.
Refused(i) ==
  /\ Over(i, i = 1)
  /\ shown' = Nothing /\ status' = "Error"

\* A fetch that is rejected ends search: results and status are left as they are.
Rejected(i) == Over(i, FALSE) /\ UNCHANGED <<shown, status>>

\* What the page takes of the saved filters.
Restored == [saved EXCEPT !.lost = Default]

\* The page is opened again: the search page asks with the defaults, then, with
\* the restored filters, in the effect of the next render.
Load ==
  /\ filters' = Restored /\ saved' = Restored
  /\ sent' = IF near THEN <<>>
             ELSE IF Restored = Defaults THEN <<Defaults>> ELSE <<Defaults, Restored>>
  /\ status' = StatusAfter(sent', "none")
  /\ shown' = Nothing /\ orderly' = TRUE /\ clicked' = FALSE
  /\ UNCHANGED near

Next ==
  \/ Edit \/ EditLost \/ ChipClicked \/ NearChipClicked \/ Clear \/ TakeChanged
  \/ Located \/ SearchClicked \/ Load
  \/ \E page \in 1..MaxPage : Turn(page)
  \/ \E i \in DOMAIN sent : Answered(i) \/ Refused(i) \/ Rejected(i)

Spec == Init /\ [][Next]_fvars

-----------------------------------------------------------------------------
(* Filters, requests and results have their types. *)
TypeOK ==
  /\ near \in BOOLEAN /\ filters \in Filters /\ saved = filters
  /\ sent \in Seq(Filters) /\ Len(sent) <= MaxInFlight
  /\ shown \in Filters \cup {Nothing}
  /\ status \in {"none", "Searching", "OK", "Error"}
  /\ orderly \in BOOLEAN /\ clicked \in BOOLEAN

(* When every request was answered and no answer overtook another, the search  *)
(* page that says OK shows the results of the filters it displays, through any *)
(* sequence of changes, restored filters and clicks on "Search", and the one   *)
(* that says Error shows none of other filters.  Not so after a button whose   *)
(* setTimeout asks with the old filters, until a filter changes again.         *)
SettledShowsFilters ==
  sent = <<>> /\ orderly /\ ~clicked /\ ~near =>
    shown = IF status = "OK" THEN filters ELSE Nothing

(* That holds whenever the search page says OK and nothing is in flight (not   *)
(* kept): an answer that is overtaken, a rejected fetch after an earlier       *)
(* answer, and the buttons with setTimeout leave OK above the results of other *)
(* filters.                                                                    *)
OkShowsFilters == sent = <<>> /\ status = "OK" /\ ~near => shown = filters

(* The page number displayed above the results (near/page.tsx:221,             *)
(* search/page.tsx:202) is that of the results, when all answers are in.  Not  *)
(* so on either page: "Next" shows the number of the next page and the results *)
(* of the old one.                                                             *)
PageNumberIsShown ==
  sent = <<>> /\ orderly /\ shown # Nothing => shown.page = filters.page

=============================================================================
