------------------------------ MODULE ChatProofs ------------------------------
(***************************************************************************)
(* Theorems about Chat, for any number of messages, users and requests,    *)
(* pages of any size and any number of restarts.                           *)
(***************************************************************************)
EXTENDS Chat, SequenceTheorems, TLAPS

\* Sizes are numbers, and no message is taken for the absence of a cursor.
Sizes == Take \in Nat /\ Kept \in Nat /\ None \notin Messages

Requests ==
  [pc : {"idle"}]
    \cup [pc : {"asked"}, cursor : Messages \cup {None}, seen : SUBSET Messages]
    \cup [pc : {"answered"}, seen : SUBSET Messages, items : Seq(Messages),
          next : Messages \cup {None}]

Typed ==
  /\ stored \in Seq(Messages) /\ page \in Seq(Messages)
  /\ sends \in [Messages -> {"new", "job", "emit", "done"}]
  /\ nextCursor \in Messages \cup {None} /\ newest \subseteq Messages
  /\ fetch \in [Fetches -> Requests]

\* A message is stored once, on its way from "job" to "emit".
StoredOnce ==
  /\ \A i, j \in DOMAIN stored : stored[i] = stored[j] => i = j
  /\ \A m \in Messages : sends[m] \in {"new", "job"} => m \notin Elements(stored)
  /\ \A m \in Messages : sends[m] = "emit" => m \in Elements(stored)

\* What the page shows is stored.
ShownInv == Elements(page) \subseteq Elements(stored)

-----------------------------------------------------------------------------
(* Parts of sequences *)

LEMMA AppendElements ==
  ASSUME NEW s \in Seq(Messages), NEW m \in Messages
  PROVE  /\ Append(s, m) \in Seq(Messages)
         /\ Elements(Append(s, m)) = Elements(s) \cup {m}
         /\ DOMAIN Append(s, m) = 1..(Len(s) + 1) /\ DOMAIN s = 1..Len(s)
         /\ \A i \in DOMAIN s : Append(s, m)[i] = s[i]
         /\ Append(s, m)[Len(s) + 1] = m
BY DEF Elements

LEMMA SubSeqElements ==
  ASSUME NEW s \in Seq(Messages), NEW a \in Nat \ {0}, NEW b \in 0..Len(s)
  PROVE  /\ SubSeq(s, a, b) \in Seq(Messages)
         /\ Elements(SubSeq(s, a, b)) \subseteq Elements(s)
         /\ \A i \in DOMAIN SubSeq(s, a, b) :
              i + a - 1 \in a..b /\ SubSeq(s, a, b)[i] = s[i + a - 1]
<1>1. SubSeq(s, a, b) = [i \in 1..(b - a + 1) |-> s[i + a - 1]]
  OBVIOUS
<1>2. \A i \in 1..(b - a + 1) : i + a - 1 \in a..b /\ i + a - 1 \in DOMAIN s
  OBVIOUS
<1>3. SubSeq(s, a, b) \in Seq(Messages)
  BY SubSeqProperties, <1>1, <1>2
<1> QED BY <1>1, <1>2, <1>3 DEF Elements

LEMMA ShownElements ==
  ASSUME Sizes, Typed, NEW m \in Messages
  PROVE  Shown(m) \in Seq(Messages) /\ Elements(Shown(m)) \subseteq Elements(page) \cup {m}
<1>1. CASE Len(page) < Kept
  BY <1>1, AppendElements DEF Shown, Typed
<1>2. CASE ~(Len(page) < Kept)
  <2> DEFINE kept == SubSeq(page, Len(page) - Kept + 2, Len(page))
  <2>1. kept \in Seq(Messages) /\ Elements(kept) \subseteq Elements(page)
    <3>1. /\ page \in Seq(Messages) /\ Len(page) \in 0..Len(page)
          /\ Len(page) - Kept + 2 \in Nat \ {0}
      BY <1>2 DEF Typed, Sizes
    <3> QED BY <3>1, SubSeqElements
  <2>2. Shown(m) = Append(kept, m)
    BY <1>2 DEF Shown
  <2> HIDE DEF kept
  <2> QED BY <2>1, <2>2, AppendElements
<1> QED BY <1>1, <1>2

-----------------------------------------------------------------------------
(* Positions *)

Once(s) == \A i, j \in DOMAIN s : s[i] = s[j] => i = j

PositionIn(s, m) == CHOOSE i \in DOMAIN s : s[i] = m

LEMMA PositionOf ==
  ASSUME NEW s \in Seq(Messages), Once(s), NEW i \in DOMAIN s
  PROVE  PositionIn(s, s[i]) = i
BY DEF Once, PositionIn

\* A message that is stored keeps its position when others follow.
LEMMA PositionStays ==
  ASSUME NEW s \in Seq(Messages), NEW n \in Messages, Once(Append(s, n)), NEW m \in Elements(s)
  PROVE  /\ PositionIn(Append(s, n), m) = PositionIn(s, m)
         /\ PositionIn(s, m) \in 1..Len(s)
<1>1. PICK i \in DOMAIN s : s[i] = m
  BY DEF Elements
<1>2. i \in DOMAIN Append(s, n) /\ Append(s, n)[i] = m
  BY <1>1, AppendElements
<1>3. Once(s)
  BY AppendElements DEF Once
<1>4. PositionIn(s, m) = i
  BY <1>1, <1>3, PositionOf
<1>5. PositionIn(Append(s, n), m) = i
  BY <1>2, PositionOf, AppendElements
<1> QED BY <1>1, <1>4, <1>5

\* A cursor is stored, and older than the messages that came with it.
Older(s, c, ms) ==
  /\ ms \subseteq Elements(s)
  /\ c = None => ms = {}
  /\ c # None => c \in Elements(s) /\ \A m \in ms : PositionIn(s, c) < PositionIn(s, m)

\* An answer r is older than what was seen before, down to the next cursor.
Fits(s, r) ==
  /\ r.seen \subseteq Elements(s)
  /\ Elements(r.items) \subseteq Elements(s)
  /\ \A n \in Elements(r.items), m \in r.seen : PositionIn(s, n) < PositionIn(s, m)
  /\ r.next # None => Older(s, r.next, Elements(r.items))

LEMMA OlderStays ==
  ASSUME NEW s \in Seq(Messages), NEW n \in Messages, Once(Append(s, n)), NEW c, NEW ms,
         Older(s, c, ms)
  PROVE  Older(Append(s, n), c, ms)
<1>1. \A m \in Elements(s) :
        /\ PositionIn(Append(s, n), m) = PositionIn(s, m)
        /\ m \in Elements(Append(s, n))
  BY PositionStays, AppendElements
<1> QED BY <1>1 DEF Older

LEMMA FitsStays ==
  ASSUME NEW s \in Seq(Messages), NEW n \in Messages, Once(Append(s, n)), NEW r, Fits(s, r)
  PROVE  Fits(Append(s, n), r)
<1>1. \A m \in Elements(s) :
        /\ PositionIn(Append(s, n), m) = PositionIn(s, m)
        /\ m \in Elements(Append(s, n))
  BY PositionStays, AppendElements
<1>2. r.next # None => Older(Append(s, n), r.next, Elements(r.items))
  BY OlderStays DEF Fits
<1> QED BY <1>1, <1>2 DEF Fits

\* The page's own cursor is None when there is no more.
BackInv ==
  /\ newest \subseteq Elements(stored)
  /\ nextCursor # None => Older(stored, nextCursor, newest)
  /\ \A f \in Fetches : fetch[f].pc = "asked" => Older(stored, fetch[f].cursor, fetch[f].seen)
  /\ \A f \in Fetches : fetch[f].pc = "answered" => Fits(stored, fetch[f])

ChatInv == Typed /\ StoredOnce /\ ShownInv /\ BackInv

-----------------------------------------------------------------------------
(* Steps that leave what is stored and the history alone *)

LEMMA QuietStep ==
  ASSUME ChatInv, UNCHANGED <<stored, page, nextCursor, newest>>,
         sends' \in [Messages -> {"new", "job", "emit", "done"}],
         \A m \in Messages : sends'[m] = sends[m] \/ sends'[m] = "done"
                                \/ (sends[m] = "new" /\ sends'[m] = "job"),
         fetch' \in [Fetches -> Requests],
         \A f \in Fetches : fetch'[f] = fetch[f] \/ fetch'[f].pc = "idle"
  PROVE  ChatInv'
<1>1. Typed' /\ ShownInv'
  BY DEF ChatInv, Typed, ShownInv
<1>2. StoredOnce'
  BY DEF ChatInv, Typed, StoredOnce
<1>3. BackInv'
  BY DEF ChatInv, BackInv
<1> QED BY <1>1, <1>2, <1>3 DEF ChatInv

-----------------------------------------------------------------------------
(* Steps of the requests *)

LEMMA FetchStep ==
  ASSUME Sizes, ChatInv, NEW f \in Fetches, Fetch(f)
  PROVE  ChatInv'
<1>1. PICK c \in {None, nextCursor} :
        fetch' = [fetch EXCEPT ![f] = [pc |-> "asked", cursor |-> c,
                                       seen |-> IF c = None THEN {} ELSE newest]]
  BY DEF Fetch
<1>2. UNCHANGED <<stored, sends, page, nextCursor, newest>>
  BY DEF Fetch
<1>3. PICK seen \in SUBSET Messages : seen = IF c = None THEN {} ELSE newest
  BY DEF ChatInv, Typed
<1>4. PICK new \in Requests : new = [pc |-> "asked", cursor |-> c, seen |-> seen]
  BY DEF ChatInv, Typed, Requests
<1>5. fetch' = [fetch EXCEPT ![f] = new]
  BY <1>1, <1>3, <1>4
<1>6. Typed' /\ StoredOnce' /\ ShownInv'
  BY <1>2, <1>5 DEF ChatInv, Typed, StoredOnce, ShownInv
<1>7. new.pc = "asked" /\ Older(stored, new.cursor, new.seen)
  BY <1>3, <1>4 DEF ChatInv, BackInv, Older
<1>8. \A g \in Fetches : fetch'[g] = IF g = f THEN new ELSE fetch[g]
  BY <1>5 DEF ChatInv, Typed
<1>9. BackInv'
  BY <1>2, <1>7, <1>8 DEF ChatInv, BackInv
<1> QED BY <1>6, <1>9 DEF ChatInv

\* The rows of a page are among those stored.
LEMMA TopType ==
  ASSUME Sizes, Typed, NEW c \in Messages \cup {None}, c # None => c \in Elements(stored)
  PROVE  NewestOf(c) \in 0..Len(stored)
<1>1. CASE c = None
  BY <1>1 DEF NewestOf, Typed
<1>2. CASE c # None
  <2>1. \E i \in DOMAIN stored : stored[i] = c
    BY <1>2 DEF Elements
  <2>2. Position(c) \in DOMAIN stored
    BY <2>1 DEF Position
  <2> QED BY <1>2, <2>2 DEF NewestOf, Typed
<1> QED BY <1>1, <1>2

LEMMA AnswerStep ==
  ASSUME Sizes, ChatInv, NEW f \in Fetches, Answer(f)
  PROVE  ChatInv'
<1> DEFINE c == fetch[f].cursor
           top == NewestOf(c)
           more == top > Take
           first == IF more THEN top - Take + 1 ELSE 1
           items == SubSeq(stored, first, top)
           next == IF more THEN stored[top - Take] ELSE None
<1>1. /\ fetch[f].pc = "asked"
      /\ fetch' = [fetch EXCEPT ![f] = [pc |-> "answered", seen |-> fetch[f].seen,
                                        items |-> items, next |-> next]]
      /\ UNCHANGED <<stored, sends, page, nextCursor, newest>>
  BY DEF Answer
<1>2. /\ Typed /\ stored \in Seq(Messages) /\ Once(stored) /\ Older(stored, c, fetch[f].seen)
      /\ c \in Messages \cup {None} /\ fetch[f].seen \in SUBSET Messages
  BY <1>1 DEF ChatInv, StoredOnce, Once, BackInv, Typed, Requests
<1>3. top \in 0..Len(stored)
  BY <1>2, TopType DEF Older
<1>4. first \in Nat \ {0}
  BY <1>3 DEF Sizes
<1>5. /\ items \in Seq(Messages) /\ Elements(items) \subseteq Elements(stored)
      /\ \A i \in DOMAIN items : i + first - 1 \in first..top /\ items[i] = stored[i + first - 1]
  BY <1>2, <1>3, <1>4, SubSeqElements
<1>6. more => top - Take \in DOMAIN stored
  BY <1>2, <1>3 DEF Sizes
<1>7. next \in Messages \cup {None} /\ (next # None => more /\ next \in Elements(stored))
  BY <1>2, <1>6 DEF Elements
<1>8. ASSUME NEW n \in Elements(items)
      PROVE  /\ \A m \in fetch[f].seen : PositionIn(stored, n) < PositionIn(stored, m)
             /\ next # None => PositionIn(stored, next) < PositionIn(stored, n)
  <2>0. PICK i \in DOMAIN items : items[i] = n
    BY DEF Elements
  <2>1. i + first - 1 \in first..top /\ i + first - 1 \in DOMAIN stored
    BY <1>2, <1>3, <1>4, <1>5
  <2>2. PositionIn(stored, n) = i + first - 1
    BY <1>2, <1>5, <2>0, <2>1, PositionOf
  <2>3. ASSUME NEW m \in fetch[f].seen PROVE PositionIn(stored, n) < PositionIn(stored, m)
    \* There is a cursor, and the page ends before it.
    <3>1. c # None /\ PositionIn(stored, c) < PositionIn(stored, m)
      BY <1>2 DEF Older
    <3>2. top = PositionIn(stored, c) - 1
      BY <3>1 DEF NewestOf, Position, PositionIn
    <3>3. m \in Elements(stored) /\ c \in Elements(stored)
      BY <1>2, <3>1 DEF Older
    <3>4. PositionIn(stored, m) \in Nat /\ PositionIn(stored, c) \in Nat
      BY <1>2, <3>3, PositionOf DEF Elements
    <3> QED BY <2>1, <2>2, <3>1, <3>2, <3>4, <1>3, <1>4
  <2>4. ASSUME next # None PROVE PositionIn(stored, next) < PositionIn(stored, n)
    <3>1. more /\ next = stored[top - Take] /\ first = top - Take + 1
      BY <1>7, <2>4
    <3>2. PositionIn(stored, next) = top - Take
      BY <1>2, <1>6, <3>1, PositionOf
    <3> QED BY <1>3, <2>1, <2>2, <3>1, <3>2 DEF Sizes
  <2> QED BY <2>3, <2>4
<1> HIDE DEF next, items
<1>9. PICK new \in Requests : new = [pc |-> "answered", seen |-> fetch[f].seen,
                                     items |-> items, next |-> next]
  BY <1>2, <1>5, <1>7 DEF Requests
<1>10. fetch' = [fetch EXCEPT ![f] = new]
  BY <1>1, <1>9
<1>11. new.pc = "answered" /\ new.seen = fetch[f].seen /\ new.items = items /\ new.next = next
  BY <1>9
<1>12. Fits(stored, new)
  BY <1>2, <1>5, <1>7, <1>8, <1>11 DEF Fits, Older
<1>13. \A g \in Fetches : fetch'[g] = IF g = f THEN new ELSE fetch[g]
  BY <1>10 DEF ChatInv, Typed
<1>14. BackInv'
  BY <1>1, <1>11, <1>12, <1>13 DEF ChatInv, BackInv
<1>15. Typed' /\ StoredOnce' /\ ShownInv'
  BY <1>1, <1>10 DEF ChatInv, Typed, StoredOnce, ShownInv
<1> QED BY <1>14, <1>15 DEF ChatInv

LEMMA ReceiveStep ==
  ASSUME Sizes, ChatInv, NEW f \in Fetches, Receive(f)
  PROVE  ChatInv'
<1>1. /\ fetch[f].pc = "answered" /\ page' = fetch[f].items
      /\ newest' = Elements(fetch[f].items) /\ nextCursor' = fetch[f].next
      /\ fetch' = [fetch EXCEPT ![f] = NoFetch] /\ UNCHANGED <<stored, sends>>
  BY DEF Receive
<1>2. /\ fetch[f].items \in Seq(Messages) /\ fetch[f].next \in Messages \cup {None}
      /\ Fits(stored, fetch[f])
  BY <1>1 DEF ChatInv, BackInv, Typed, Requests
<1>3. Typed'
  <2>1. NoFetch \in Requests
    BY DEF NoFetch, Requests
  <2> QED BY <1>1, <1>2, <2>1 DEF ChatInv, Typed, Elements
<1>4. StoredOnce' /\ ShownInv'
  BY <1>1, <1>2 DEF ChatInv, StoredOnce, ShownInv, Fits
<1>5. \A g \in Fetches : fetch'[g] = fetch[g] \/ fetch'[g].pc = "idle"
  BY <1>1 DEF ChatInv, Typed, NoFetch
<1>6. BackInv'
  BY <1>1, <1>2, <1>5 DEF ChatInv, BackInv, Fits
<1> QED BY <1>3, <1>4, <1>6 DEF ChatInv

-----------------------------------------------------------------------------
(* Steps of the messages *)

LEMMA SaveStep ==
  ASSUME Sizes, ChatInv, NEW m \in Messages, Save(m)
  PROVE  ChatInv'
<1>1. /\ sends[m] = "job" /\ stored' = Append(stored, m)
      /\ sends' = [sends EXCEPT ![m] = "emit"] /\ UNCHANGED <<page, nextCursor, newest, fetch>>
  BY DEF Save, SendTo
<1>2. stored \in Seq(Messages) /\ m \notin Elements(stored) /\ Once(stored)
  BY <1>1 DEF ChatInv, Typed, StoredOnce, Once
<1>3. Elements(stored)' = Elements(stored) \cup {m} /\ stored' \in Seq(Messages)
  BY <1>1, <1>2, AppendElements
<1>4. Once(Append(stored, m))
  BY <1>2, AppendElements DEF Once, Elements
<1>5. Typed'
  BY <1>1, <1>3 DEF ChatInv, Typed
<1>6. StoredOnce'
  BY <1>1, <1>3, <1>4 DEF ChatInv, Typed, StoredOnce, Once
<1>7. ShownInv'
  BY <1>1, <1>3 DEF ChatInv, ShownInv
<1>8. BackInv'
  BY <1>1, <1>2, <1>3, <1>4, OlderStays, FitsStays DEF ChatInv, BackInv
<1> QED BY <1>5, <1>6, <1>7, <1>8 DEF ChatInv

LEMMA EmitStep ==
  ASSUME Sizes, ChatInv, NEW m \in Messages, Emit(m)
  PROVE  ChatInv'
<1>1. /\ sends[m] = "emit" /\ sends' = [sends EXCEPT ![m] = "done"]
      /\ page' \in {page, Shown(m)} /\ UNCHANGED <<stored, nextCursor, newest, fetch>>
  BY DEF Emit, SendTo
<1>2. page' \in Seq(Messages) /\ Elements(page') \subseteq Elements(page) \cup {m}
  BY <1>1, ShownElements DEF ChatInv, Typed
<1>3. m \in Elements(stored)
  BY <1>1 DEF ChatInv, StoredOnce
<1>4. Typed' /\ StoredOnce' /\ ShownInv'
  BY <1>1, <1>2, <1>3 DEF ChatInv, Typed, StoredOnce, ShownInv
<1>5. BackInv'
  BY <1>1 DEF ChatInv, BackInv
<1> QED BY <1>4, <1>5 DEF ChatInv

-----------------------------------------------------------------------------
LEMMA ChatInvInit == Init => ChatInv
<1> SUFFICES ASSUME Init PROVE ChatInv
  OBVIOUS
<1>1. Typed
  BY DEF Init, Typed, NoFetch, Requests
<1>2. Elements(stored) = {} /\ Elements(page) = {}
  BY DEF Init, Elements
<1> QED BY <1>1, <1>2 DEF Init, ChatInv, StoredOnce, ShownInv, BackInv, NoFetch

LEMMA ChatInvNext == Sizes /\ ChatInv /\ [Next]_cvars => ChatInv'
<1> SUFFICES ASSUME Sizes, ChatInv, [Next]_cvars PROVE ChatInv'
  OBVIOUS
<1>0. sends \in [Messages -> {"new", "job", "emit", "done"}] /\ fetch \in [Fetches -> Requests]
  BY DEF ChatInv, Typed
<1>1. ASSUME NEW u \in Users, JoinLook(u) \/ JoinDone(u) \/ Leave(u) PROVE ChatInv'
  BY <1>0, <1>1, QuietStep DEF JoinLook, JoinDone, Leave
<1>2. ASSUME NEW m \in Messages, NEW u \in Users, Send(m, u) \/ SendRefused(m, u) PROVE ChatInv'
  <2>1. UNCHANGED <<stored, page, nextCursor, newest, fetch>>
    BY <1>2 DEF Send, SendRefused
  <2>2. /\ sends[m] = "new"
        /\ \/ sends' = [sends EXCEPT ![m] = "job"]
           \/ sends' = [sends EXCEPT ![m] = "done"]
    BY <1>2 DEF Send, SendRefused, SendTo
  <2> QED BY <1>0, <2>1, <2>2, QuietStep
<1>3. CASE Restart
  <2>1. UNCHANGED <<stored, page, nextCursor, newest>>
    BY <1>3 DEF Restart
  <2>2. sends' = [m \in Messages |-> IF sends[m] = "new" THEN "new" ELSE "done"]
    BY <1>3 DEF Restart
  <2>3. fetch' = [f \in Fetches |-> IF fetch[f].pc = "asked" THEN NoFetch ELSE fetch[f]]
    BY <1>3 DEF Restart
  <2>4. NoFetch \in Requests /\ NoFetch.pc = "idle"
    BY DEF NoFetch, Requests
  <2> QED BY <1>0, <2>1, <2>2, <2>3, <2>4, QuietStep
<1>4. CASE UNCHANGED cvars
  BY <1>0, <1>4, QuietStep DEF cvars
<1> QED BY <1>1, <1>2, <1>3, <1>4, SaveStep, EmitStep, FetchStep, AnswerStep, ReceiveStep DEF Next

\* What a page of the room shows is in the database: the handler stores a
\* message before it broadcasts it, and an answer is made of rows.
THEOREM ShownSafety == ASSUME Sizes PROVE Spec => []ShownIsStored
<1>1. ChatInv => ShownIsStored
  BY DEF ChatInv, ShownInv, ShownIsStored
<1>2. ChatInv /\ [Next]_cvars => ChatInv'
  BY ChatInvNext
<1> QED BY <1>1, <1>2, ChatInvInit, PTL DEF Spec

\* Paging goes back: an older page repeats nothing of the page its cursor came
\* with and is older than all of it, whatever is sent in between.
THEOREM PagingSafety == ASSUME Sizes PROVE Spec => []PagesGoBack
<1>1. ChatInv => PagesGoBack
  <2> SUFFICES ASSUME ChatInv, NEW f \in Fetches, fetch[f].pc = "answered",
                      NEW i \in DOMAIN fetch[f].items, NEW m \in fetch[f].seen
               PROVE  Position(fetch[f].items[i]) < Position(m)
    BY DEF PagesGoBack
  <2>1. Fits(stored, fetch[f]) /\ fetch[f].items[i] \in Elements(fetch[f].items)
    BY DEF ChatInv, BackInv, Elements
  <2>2. PositionIn(stored, fetch[f].items[i]) < PositionIn(stored, m)
    BY <2>1 DEF Fits
  <2> QED BY <2>2 DEF Position, PositionIn
<1>2. ChatInv /\ [Next]_cvars => ChatInv'
  BY ChatInvNext
<1> QED BY <1>1, <1>2, ChatInvInit, PTL DEF Spec

-----------------------------------------------------------------------------
(* Types *)

RoomTypes ==
  /\ joining \subseteq Users /\ joined \subseteq Users /\ restarts \in 0..MaxCrashes

\* Rooms, messages, the page and its requests have their types.
THEOREM ChatTypes == ASSUME Sizes, MaxCrashes \in Nat PROVE Spec => []TypeOK
<1>1. Init => ChatInv /\ RoomTypes
  BY ChatInvInit DEF Init, RoomTypes
<1>2. ChatInv /\ RoomTypes /\ [Next]_cvars => ChatInv' /\ RoomTypes'
  <2>1. ChatInv /\ [Next]_cvars => ChatInv'
    BY ChatInvNext
  <2>2. RoomTypes /\ [Next]_cvars => RoomTypes'
    <3> SUFFICES ASSUME RoomTypes, [Next]_cvars PROVE RoomTypes'
      OBVIOUS
    <3>1. ASSUME NEW u \in Users, JoinLook(u) \/ JoinDone(u) \/ Leave(u) PROVE RoomTypes'
      BY <3>1 DEF JoinLook, JoinDone, Leave, RoomTypes
    <3>2. CASE Restart
      BY <3>2 DEF Restart, RoomTypes
    <3>3. CASE UNCHANGED <<joining, joined, restarts>>
      BY <3>3 DEF RoomTypes
    <3>4. ASSUME NEW m \in Messages, NEW u \in Users, Send(m, u) \/ SendRefused(m, u)
          PROVE  UNCHANGED <<joining, joined, restarts>>
      BY <3>4 DEF Send, SendRefused
    <3>5. ASSUME NEW m \in Messages, Save(m) \/ Emit(m)
          PROVE  UNCHANGED <<joining, joined, restarts>>
      BY <3>5 DEF Save, Emit
    <3>6. ASSUME NEW f \in Fetches, Fetch(f) \/ Answer(f) \/ Receive(f)
          PROVE  UNCHANGED <<joining, joined, restarts>>
      BY <3>6 DEF Fetch, Answer, Receive
    <3>7. CASE UNCHANGED cvars
      BY <3>3, <3>7 DEF cvars
    <3> QED BY <3>1, <3>2, <3>3, <3>4, <3>5, <3>6, <3>7 DEF Next
  <2> QED BY <2>1, <2>2
<1>3. ChatInv /\ RoomTypes => TypeOK
  <2> SUFFICES ASSUME ChatInv, RoomTypes PROVE TypeOK
    OBVIOUS
  <2>1. \A f \in Fetches : fetch[f].pc \in {"idle", "asked", "answered"}
    BY DEF ChatInv, Typed, Requests
  <2> QED BY <2>1 DEF ChatInv, RoomTypes, Typed, TypeOK
<1> QED BY <1>1, <1>2, <1>3, PTL DEF Spec

=============================================================================
