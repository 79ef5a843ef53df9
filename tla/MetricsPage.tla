------------------------------ MODULE MetricsPage ------------------------------
(***************************************************************************)
(* The metrics page: every 10 seconds, on "Refresh" and whenever another   *)
(* window is chosen it fetches the API's counters and the fulfilment       *)
(* summary, adds a sample to the chart of each counter and draws the       *)
(* differences of neighbouring samples as rates.  Polls may overlap and    *)
(* their answers overtake each other; the counters live in the memory of   *)
(* the API's process and start again at 0 with it.                         *)
(*                                                                         *)
(* One counter stands for the eight the page draws; its labels are added   *)
(* up in either place.  Wording, colours and the URL are left out.         *)
(***************************************************************************)
EXTENDS Integers, Sequences

CONSTANTS
  Windows,        \* samples a chart may hold, as chosen or named in the URL
  Polls,          \* places for polls that overlap
  MaxPolls,       \* bound on the polls
  MaxEvents,      \* bound on the events counted
  MaxLives        \* bound on the API's processes, one after the other

VARIABLES
  counter,        \* the counter in the API's process
  happened,       \* history: events so far, in all processes
  lives,          \* history: the number of the process
  window,         \* windowSamples
  poll,           \* the polls in progress
  polled,         \* how many polls there were
  series,         \* the samples of the chart; seen and life are their history
  summary         \* does the page show a fulfilment summary?

vars == <<counter, happened, lives, window, poll, polled, series, summary>>
server == <<counter, happened, lives>>

Idle == [pc |-> "idle"]

Init ==
  /\ counter = 0 /\ happened = 0 /\ lives = 1
  /\ window \in Windows
  /\ poll = [l \in Polls |-> Idle] /\ polled = 0
  /\ series = <<>> /\ summary = FALSE

-----------------------------------------------------------------------------
(* The API *)

\* inc of one of the counters
Happens ==
  /\ happened < MaxEvents
  /\ counter' = counter + 1 /\ happened' = happened + 1
  /\ UNCHANGED <<lives, window, poll, polled, series, summary>>

\* A new process makes new counters.
Restart ==
  /\ lives < MaxLives
  /\ counter' = 0 /\ lives' = lives + 1
  /\ UNCHANGED <<happened, window, poll, polled, series, summary>>

\* GET /metrics: the counters, or an answer that is not metrics (a limit was
\* exceeded, an error of the server).
Answer(l, ok) ==
  /\ poll[l].pc = "asked"
  /\ poll' = [poll EXCEPT ![l] =
                [pc |-> "answered", window |-> poll[l].window, ok |-> ok,
                 v |-> counter, seen |-> happened, life |-> lives]]
  /\ UNCHANGED <<server, window, polled, series, summary>>

-----------------------------------------------------------------------------
(* The page *)

\* load begins, and remembers the window of this moment.
Begin(l, w) ==
  /\ poll[l].pc = "idle" /\ polled < MaxPolls
  /\ poll' = [poll EXCEPT ![l] = [pc |-> "asked", window |-> w]]
  /\ polled' = polled + 1

\* The interval, or the button.
Load(l) ==
  /\ Begin(l, window)
  /\ UNCHANGED <<server, window, series, summary>>

\* Another window, from the list or from the URL: its effect loads at once and
\* starts the interval anew.  Polls in progress keep the window they began with.
SetWindow(l, w) ==
  /\ w # window
  /\ Begin(l, w)
  /\ window' = w
  /\ UNCHANGED <<server, series, summary>>

\* parseMetrics finds the counter's line, or none.
Lines(answer) == IF answer.ok THEN {answer.v} ELSE {}

\* The counter's lines, added up.
Summed(answer) == IF Lines(answer) = {} THEN 0 ELSE CHOOSE v \in Lines(answer) : TRUE

\* prevArr.slice(-(windowSamples - 1)), and slice(-0) is the whole array.
Trimmed(s, w) == IF w = 1 \/ Len(s) < w THEN s ELSE SubSeq(s, Len(s) - w + 2, Len(s))

\* updateSeriesFromText, whether or not the answer was one of success; later
\* tells whether Date.now() has gone on since the last sample.
Charted(answer, later) ==
  Append(Trimmed(series, answer.window),
         [v |-> Summed(answer), later |-> later,
          ok |-> answer.ok, seen |-> answer.seen, life |-> answer.life])

\* Both answers are there (Promise.all): the sample is drawn, and a summary that
\* is one is read; any other takes the summary shown away.
Chart(l) ==
  /\ poll[l].pc = "answered"
  /\ \E later \in BOOLEAN : series' = Charted(poll[l], later)
  /\ \/ poll' = [poll EXCEPT ![l] = [pc |-> "summary"]] /\ UNCHANGED summary
     \/ poll' = [poll EXCEPT ![l] = Idle] /\ summary' = FALSE
  /\ UNCHANGED <<server, window, polled>>

Summarise(l) ==
  /\ poll[l].pc = "summary"
  /\ poll' = [poll EXCEPT ![l] = Idle] /\ summary' = TRUE
  /\ UNCHANGED <<server, window, polled, series>>

\* A fetch is rejected, or the summary is no JSON.
LoadFails(l) ==
  /\ poll[l].pc # "idle"
  /\ poll' = [poll EXCEPT ![l] = Idle] /\ summary' = FALSE
  /\ UNCHANGED <<server, window, polled, series>>

\* The page is opened again: the window was saved, the samples were not.
Open(l) ==
  /\ polled < MaxPolls
  /\ poll' = [k \in Polls |-> IF k = l THEN [pc |-> "asked", window |-> window] ELSE Idle]
  /\ polled' = polled + 1
  /\ series' = <<>> /\ summary' = FALSE
  /\ UNCHANGED <<server, window>>

Next ==
  \/ Happens \/ Restart
  \/ \E l \in Polls :
       \/ Load(l) \/ Open(l) \/ \E w \in Windows : SetWindow(l, w)
       \/ \E ok \in BOOLEAN : Answer(l, ok)
       \/ Chart(l) \/ Summarise(l) \/ LoadFails(l)

Spec == Init /\ [][Next]_vars

-----------------------------------------------------------------------------
(* The chart with "show rate" *)

\* Mutant: a counter that went back is taken for one that went on.
RiseEitherWay(i) ==
  LET dv == series[i].v - series[i - 1].v IN IF dv >= 0 THEN dv ELSE -dv

\* The events that the rate drawn at sample i stands for (rate times dt).
Rise(i) ==
  LET dv == series[i].v - series[i - 1].v
  IN  IF series[i].later /\ dv >= 0 THEN dv ELSE 0

-----------------------------------------------------------------------------
(* Variables have their types. *)
TypeOK ==
  /\ counter \in 0..happened /\ happened \in 0..MaxEvents /\ lives \in 1..MaxLives
  /\ window \in Windows /\ polled \in 0..MaxPolls /\ summary \in BOOLEAN
  /\ \A l \in Polls : poll[l].pc \in {"idle", "asked", "answered", "summary"}
  /\ series \in Seq([v : 0..MaxEvents, later : BOOLEAN, ok : BOOLEAN,
                     seen : 0..MaxEvents, life : 1..MaxLives])

\* Sample i was taken after the one before it, and both are samples.
Sound(i) ==
  /\ series[i - 1].ok /\ series[i].ok
  /\ series[i - 1].seen <= series[i].seen /\ series[i - 1].life <= series[i].life

(* No rate stands for more events than happened between its two samples, also  *)
(* across a restart of the API, a change of the window and polls that overlap, *)
(* as long as no answer overtook another and none was an error.                *)
RatesAreReal ==
  \A i \in 2..Len(series) : Sound(i) => Rise(i) <= series[i].seen - series[i - 1].seen

(* The same of every two samples: not so, since the page draws the answer of a *)
(* failed request as 0, and the next good one as a rise by all there ever was. *)
ErrorsAreNotDrawn ==
  \A i \in 2..Len(series) :
    series[i - 1].seen <= series[i].seen =>
      Rise(i) <= series[i].seen - series[i - 1].seen

=============================================================================
