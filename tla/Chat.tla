--------------------------------- MODULE Chat ---------------------------------
(***************************************************************************)
(* The chat of one job's room: the gateway's room:join, room:leave and     *)
(* chat:send handlers, which await the database between their checks and   *)
(* their effects, listMessages, which pages through the stored messages,   *)
(* and the page of one member, which shows both what is broadcast and what *)
(* it fetches.  GET /users pages in the same way as listMessages.          *)
(* Typing is relayed, and changes nothing.                                 *)
(***************************************************************************)
EXTENDS Integers, FiniteSets, Sequences, SequencesExt

CONSTANTS
  Customer,       \* the job's customer, whose page is modelled
  Providers,      \* other users; the assigned provider is one of them
  Messages,       \* messages sent, each once
  Fetches,        \* history requests of the page at once
  None,           \* no cursor
  Take,           \* rows of a page of history (50)
  Kept,           \* messages the page keeps when one is broadcast (50)
  WsLimit,        \* WS_CHAT_RATE_LIMIT, the messages allowed in a while (15)
  MaxCrashes      \* bound on restarts of the API process

VARIABLES
  joining,        \* users whose room:join looks the job up
  joined,         \* users with a socket in the room
  stored,         \* the job's ChatMessage rows, in the order of createdAt
  sends,          \* the statement each message's chat:send is at
  page,           \* the messages on the customer's page
  nextCursor,     \* what "Load older" will ask for
  newest,         \* history: the messages nextCursor was answered with
  fetch,          \* the page's history requests and their answers
  restarts

cvars == <<joining, joined, stored, sends, page, nextCursor, newest, fetch, restarts>>

Users == {Customer} \cup Providers
NoFetch == [pc |-> "idle"]
Elements(s) == {s[i] : i \in DOMAIN s}

Init ==
  /\ joining = {} /\ joined = {}
  /\ stored = <<>>
  /\ sends = [m \in Messages |-> "new"]
  /\ page = <<>> /\ nextCursor = None /\ newest = {}
  /\ fetch = [f \in Fetches |-> NoFetch]
  /\ restarts = 0

-----------------------------------------------------------------------------
(* room:join and room:leave *)

JoinLook(u) ==
  /\ u \notin joining
  /\ joining' = joining \cup {u}
  /\ UNCHANGED <<joined, stored, sends, page, nextCursor, newest, fetch, restarts>>

\* isAssignedProvider compares Assignment.providerId, a Provider's id, with
\* the id of the socket's user: it is true of nobody.
Authorized(u) == u = Customer

\* The socket joins, or is told that it may not.
JoinDone(u) ==
  /\ u \in joining
  /\ joining' = joining \ {u}
  /\ joined' = IF Authorized(u) THEN joined \cup {u} ELSE joined
  /\ UNCHANGED <<stored, sends, page, nextCursor, newest, fetch, restarts>>

\* Nothing is awaited: a leave overtakes a join.
Leave(u) ==
  /\ u \in joined
  /\ joined' = joined \ {u}
  /\ UNCHANGED <<joining, stored, sends, page, nextCursor, newest, fetch, restarts>>

-----------------------------------------------------------------------------
(* chat:send *)

SendTo(m, pc) == sends' = [sends EXCEPT ![m] = pc]

\* What the rate limit knows of a user's messages: the storage is asked for
\* functions (getRecordSync, getRecord, addRecord) that it does not have.
Recent(u) == {}

wsAllowed(u) == Cardinality(Recent(u)) < WsLimit

\* The socket must be in the room.  The user and the job are looked up next.
Send(m, u) ==
  /\ sends[m] = "new" /\ u \in joined /\ wsAllowed(u)
  /\ SendTo(m, "job")
  /\ UNCHANGED <<joining, joined, stored, page, nextCursor, newest, fetch, restarts>>

SendRefused(m, u) ==
  /\ sends[m] = "new" /\ (u \notin joined \/ ~wsAllowed(u))
  /\ SendTo(m, "done")
  /\ UNCHANGED <<joining, joined, stored, page, nextCursor, newest, fetch, restarts>>

\* Mutant: a message is broadcast first, and stored when it is out.
BroadcastFirst(m) ==
  /\ sends[m] = "job"
  /\ page' = IF Customer \in joined THEN Append(page, m) ELSE page
  /\ SendTo(m, "emit")
  /\ UNCHANGED <<joining, joined, stored, nextCursor, newest, fetch, restarts>>

Save(m) ==
  /\ sends[m] = "job"
  /\ stored' = Append(stored, m)
  /\ SendTo(m, "emit")
  /\ UNCHANGED <<joining, joined, page, nextCursor, newest, fetch, restarts>>

\* setMessages((prev) => [...prev.slice(-49), m]) on a page in the room.
Shown(m) ==
  LET kept == IF Len(page) < Kept THEN page ELSE SubSeq(page, Len(page) - Kept + 2, Len(page))
  IN Append(kept, m)

Emit(m) ==
  /\ sends[m] = "emit"
  /\ page' = IF Customer \in joined THEN Shown(m) ELSE page
  /\ SendTo(m, "done")
  /\ UNCHANGED <<joining, joined, stored, nextCursor, newest, fetch, restarts>>

-----------------------------------------------------------------------------
(* The customer's page and listMessages *)

\* joinRoom and "Load older": the request carries the cursor of the page.
Fetch(f) ==
  /\ fetch[f].pc = "idle"
  /\ \E c \in {None, nextCursor} :
       fetch' = [fetch EXCEPT ![f] = [pc |-> "asked", cursor |-> c,
                                      seen |-> IF c = None THEN {} ELSE newest]]
  /\ UNCHANGED <<joining, joined, stored, sends, page, nextCursor, newest, restarts>>

Position(m) == CHOOSE i \in DOMAIN stored : stored[i] = m

\* Mutant: the cursor counts rows from the newest.
NewestByOffset(c) ==
  IF c = None THEN Len(stored)
  ELSE IF Len(stored) > Take THEN Len(stored) - Take ELSE 0

\* cursor and skip: 1, from the newest message on.
NewestOf(c) == IF c = None THEN Len(stored) ELSE Position(c) - 1

\* take + 1 rows are read, newest first; the one too many becomes the cursor,
\* which the next page then skips.
Answer(f) ==
  LET top == NewestOf(fetch[f].cursor)
      more == top > Take
  IN
  /\ fetch[f].pc = "asked"
  /\ fetch' = [fetch EXCEPT ![f] =
       [pc |-> "answered", seen |-> fetch[f].seen,
        items |-> SubSeq(stored, IF more THEN top - Take + 1 ELSE 1, top),
        next |-> IF more THEN stored[top - Take] ELSE None]]
  /\ UNCHANGED <<joining, joined, stored, sends, page, nextCursor, newest, restarts>>

\* setMessages replaces what is shown, messages broadcast meanwhile included.
Receive(f) ==
  /\ fetch[f].pc = "answered"
  /\ page' = fetch[f].items
  /\ newest' = Elements(fetch[f].items)
  /\ nextCursor' = fetch[f].next
  /\ fetch' = [fetch EXCEPT ![f] = NoFetch]
  /\ UNCHANGED <<joining, joined, stored, sends, restarts>>

\* The process dies: its sockets and handlers are gone, its requests unanswered.
Restart ==
  /\ restarts < MaxCrashes
  /\ restarts' = restarts + 1
  /\ joining' = {} /\ joined' = {}
  /\ sends' = [m \in Messages |-> IF sends[m] = "new" THEN "new" ELSE "done"]
  /\ fetch' = [f \in Fetches |-> IF fetch[f].pc = "asked" THEN NoFetch ELSE fetch[f]]
  /\ UNCHANGED <<stored, page, nextCursor, newest>>

Next ==
  \/ \E u \in Users : JoinLook(u) \/ JoinDone(u) \/ Leave(u)
  \/ \E m \in Messages, u \in Users : Send(m, u) \/ SendRefused(m, u)
  \/ \E m \in Messages : Save(m) \/ Emit(m)
  \/ \E f \in Fetches : Fetch(f) \/ Answer(f) \/ Receive(f)
  \/ Restart

Spec == Init /\ [][Next]_cvars

-----------------------------------------------------------------------------
(* Rooms, messages, the page and its requests have their types. *)
TypeOK ==
  /\ joining \subseteq Users /\ joined \subseteq Users
  /\ stored \in Seq(Messages) /\ page \in Seq(Messages)
  /\ sends \in [Messages -> {"new", "job", "emit", "done"}]
  /\ nextCursor \in Messages \cup {None}
  /\ newest \subseteq Messages
  /\ \A f \in Fetches : fetch[f].pc \in {"idle", "asked", "answered"}
  /\ restarts \in 0..MaxCrashes

(* What a page of the room shows, broadcast or fetched, is in the database,    *)
(* even if the process dies in the middle of chat:send: nobody reads a message *)
(* that is gone after a reload.                                                *)
ShownIsStored == Elements(page) \subseteq Elements(stored)

(* "returns older messages before this id" (realtime/jobs.controller.ts:33):   *)
(* an older page repeats nothing of the page its cursor came with, and is      *)
(* older than all of it, whatever is sent between the two requests.            *)
PagesGoBack ==
  \A f \in Fetches : fetch[f].pc = "answered" =>
    \A i \in DOMAIN fetch[f].items, m \in fetch[f].seen :
      Position(fetch[f].items[i]) < Position(m)

(* "Load older" skips nothing: between an older page and the page its cursor   *)
(* came with there is no message.                                              *)
PagesFollowOn ==
  \A f \in Fetches :
    fetch[f].pc = "answered" /\ fetch[f].seen # {} /\ fetch[f].items # <<>> =>
      \A i \in DOMAIN stored :
        i > Position(Last(fetch[f].items)) =>
          \E m \in fetch[f].seen : i >= Position(m)

=============================================================================
