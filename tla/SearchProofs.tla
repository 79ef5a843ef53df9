----------------------------- MODULE SearchProofs -----------------------------
(***************************************************************************)
(* Theorems about Search, for any number of providers, any rows and        *)
(* queries, and pages of any size: the comparison is a strict total order, *)
(* the place of a provider among those found is how many come before him,  *)
(* and the pages are laid end to end.                                      *)
(***************************************************************************)
EXTENDS Search, FiniteSetTheorems, SequenceTheorems, WellFoundedInduction, TLAPS

Row == [prices : SUBSET Nat, distance : Nat, radius : Nat, online : BOOLEAN]

\* What rows and queries may hold, and the bounds.
Figures ==
  /\ Rows \subseteq Row
  /\ \A q \in Queries : /\ q.sort \in {"price", "online", "distance"}
                        /\ q.order \in {"asc", "desc"}
  /\ N \in Nat /\ Infinity \in Nat /\ Cap \in Nat /\ Take \in Nat \ {0} /\ MaxPages \in Nat

WalkTypes ==
  /\ provider \in [1..N -> Row] /\ query \in Queries
  /\ asked \in 0..MaxPages /\ opened \in 0..MaxPages /\ walked \in Seq(1..N)
  /\ hasNext \in BOOLEAN /\ moved \in BOOLEAN

-----------------------------------------------------------------------------
(* The order *)

LEMMA LeastNatural == ASSUME NEW S \in SUBSET Nat, S # {}
                      PROVE  \E x \in S : \A y \in S : x <= y
<1>1. PICK x \in S : \A y \in S : ~(<<y, x>> \in OpToRel(<, Nat))
  BY NatLessThanWellFounded, WFMin
<1>2. \A y \in S : ~(y < x)
  BY <1>1 DEF OpToRel
<1>3. \A y \in S : x <= y
  BY <1>2
<1> QED BY <1>3

LEMMA KeyIsInt ==
  ASSUME Figures, WalkTypes, NEW p \in 1..N
  PROVE  SortKey(p) \in Int /\ provider[p].distance \in Int
<1>1. /\ provider[p].prices \subseteq Nat /\ provider[p].distance \in Int
      /\ query.sort \in {"price", "online", "distance"} /\ Infinity \in Nat
  BY DEF Figures, WalkTypes, Row
<1>2. MinServicePrice(p) \in Int
  <2> DEFINE S == {IF x = 0 THEN Infinity ELSE x : x \in provider[p].prices} \cup {Infinity}
  <2>1. S \in SUBSET Nat /\ S # {}
    BY <1>1
  <2>2. \E x \in S : \A y \in S : x <= y
    BY ONLY <2>1, LeastNatural
  <2>3. Min(S) \in S
    BY ONLY <2>2 DEF Min
  <2> QED BY <2>1, <2>3 DEF MinServicePrice
<1> QED BY <1>1, <1>2 DEF SortKey

LEMMA BeforeIsOrder ==
  ASSUME Figures, WalkTypes
  PROVE  /\ \A p \in 1..N : ~Before(p, p)
         /\ \A p, q \in 1..N : p # q => Before(p, q) \/ Before(q, p)
         /\ \A p, q, r \in 1..N : Before(p, q) /\ Before(q, r) => Before(p, r)
<1> DEFINE key(p) == SortKey(p)
           far(p) == provider[p].distance
<1>1. \A p \in 1..N : key(p) \in Int /\ far(p) \in Int /\ p \in Int
  BY KeyIsInt
<1>2. query.order \in {"asc", "desc"}
  BY DEF Figures, WalkTypes
<1> DEFINE tied(p, q) == IF ByDistance /\ query.sort # "distance"
                         THEN far(p) < far(q) \/ (far(p) = far(q) /\ p < q) ELSE p < q
<1>3. \A p, q : Before(p, q) <=> \/ query.order = "asc" /\ key(p) < key(q)
                                 \/ query.order = "desc" /\ key(p) > key(q)
                                 \/ key(p) = key(q) /\ tied(p, q)
  BY DEF Before
<1> HIDE DEF key, far
<1>4. /\ \A p \in 1..N : ~tied(p, p)
      /\ \A p, q \in 1..N : p # q => tied(p, q) \/ tied(q, p)
      /\ \A p, q, r \in 1..N : tied(p, q) /\ tied(q, r) => tied(p, r)
  <2>1. CASE ByDistance /\ query.sort # "distance"
    BY ONLY <1>1, <2>1
  <2>2. CASE ~(ByDistance /\ query.sort # "distance")
    BY ONLY <1>1, <2>2
  <2> QED BY ONLY <2>1, <2>2
<1> HIDE DEF tied
<1>5. CASE query.order = "asc"
  BY ONLY <1>1, <1>3, <1>4, <1>5
<1>6. CASE query.order = "desc"
  BY ONLY <1>1, <1>3, <1>4, <1>6
<1> QED BY <1>2, <1>5, <1>6

-----------------------------------------------------------------------------
(* Sorting: who is found, each at his place *)

Earlier(p) == {q \in Found : Before(q, p)}
Place(p) == Cardinality(Earlier(p))

LEMMA FoundAreProviders ==
  ASSUME Figures, WalkTypes
  PROVE  /\ Filtered \subseteq 1..N /\ IsFiniteSet(Filtered)
         /\ Found \subseteq 1..N /\ IsFiniteSet(Found) /\ Cardinality(Found) \in Nat
<1>1. IsFiniteSet(1..N)
  BY FS_Interval DEF Figures
<1>2. Filtered \subseteq 1..N /\ Found \subseteq 1..N
  BY DEF Filtered, Found, Fetched
<1> QED BY <1>1, <1>2, FS_Subset, FS_CardinalityType

\* Whoever comes before another has fewer before him.
LEMMA PlacesDiffer ==
  ASSUME Figures, WalkTypes, NEW p \in Found
  PROVE  /\ Place(p) \in 0..(Cardinality(Found) - 1)
         /\ \A q \in Found : Before(p, q) => Place(p) < Place(q)
<1>1. /\ Found \subseteq 1..N /\ IsFiniteSet(Found) /\ Cardinality(Found) \in Nat
      /\ p \in 1..N
  BY FoundAreProviders
<1>2. ASSUME NEW S, IsFiniteSet(S), NEW T \in SUBSET S, T # S
      PROVE  Cardinality(T) \in Nat /\ Cardinality(S) \in Nat /\ Cardinality(T) < Cardinality(S)
  <2>1. IsFiniteSet(T) /\ Cardinality(T) <= Cardinality(S) /\ Cardinality(S) # Cardinality(T)
    BY <1>2, FS_Subset
  <2>2. Cardinality(S) \in Nat /\ Cardinality(T) \in Nat
    BY <1>2, <2>1, FS_CardinalityType
  <2> QED BY <2>1, <2>2
<1>3. Earlier(p) \in SUBSET Found /\ p \notin Earlier(p)
  BY <1>1, BeforeIsOrder DEF Earlier
<1>4. Place(p) \in Nat /\ Place(p) < Cardinality(Found)
  BY <1>1, <1>2, <1>3 DEF Place
<1>5. ASSUME NEW q \in Found, Before(p, q) PROVE Place(p) < Place(q)
  <2>1. q \in 1..N /\ Earlier(q) \in SUBSET Found
    BY <1>1 DEF Earlier
  <2>2. IsFiniteSet(Earlier(q))
    BY <1>1, <2>1, FS_Subset
  <2>3. \A r \in Earlier(p) : r \in Earlier(q)
    BY <1>1, <1>5, <2>1, BeforeIsOrder DEF Earlier
  <2>4. p \in Earlier(q)
    BY <1>5 DEF Earlier
  <2>5. Earlier(p) \in SUBSET Earlier(q) /\ Earlier(p) # Earlier(q)
    BY <1>3, <2>3, <2>4
  <2> QED BY <1>2, <2>2, <2>5 DEF Place
<1> QED BY <1>1, <1>4, <1>5

\* The places are the numbers from 0, and each is taken once.
LEMMA EveryPlaceIsTaken ==
  ASSUME Figures, WalkTypes, NEW i \in 1..Cardinality(Found)
  PROVE  \E p \in Found : Place(p) = i - 1
<1> DEFINE T == 1..Cardinality(Found)
           f == [p \in Found |-> Place(p) + 1]
<1>1. /\ Found \subseteq 1..N /\ IsFiniteSet(Found) /\ Cardinality(Found) \in Nat
  BY FoundAreProviders
<1>2. \A p \in Found : Place(p) \in Nat /\ Place(p) + 1 \in T
  BY <1>1, PlacesDiffer
<1>3. \A p, q \in Found : Place(p) = Place(q) => p = q
  <2> SUFFICES ASSUME NEW p \in Found, NEW q \in Found, p # q PROVE Place(p) # Place(q)
    OBVIOUS
  <2>1. Before(p, q) \/ Before(q, p)
    BY <1>1, BeforeIsOrder
  <2>2. Place(p) < Place(q) \/ Place(q) < Place(p)
    BY <2>1, PlacesDiffer
  <2> QED BY <1>2, <2>2
<1>4. f \in Injection(Found, T)
  <2>1. f \in [Found -> T]
    BY <1>2
  <2>2. \A p, q \in Found : f[p] = f[q] => p = q
    BY <1>2, <1>3
  <2> QED BY <2>1, <2>2 DEF Injection, IsInjective
<1>5. IsFiniteSet(T) /\ Cardinality(T) = Cardinality(Found)
  BY <1>1, FS_Interval
<1>6. f \in Surjection(Found, T)
  BY <1>4, <1>5, FS_Injection
<1>7. PICK p \in Found : f[p] = i
  BY <1>6 DEF Surjection
<1> QED BY <1>2, <1>7

LEMMA SortedFound ==
  ASSUME Figures, WalkTypes
  PROVE  /\ Sorted \in Seq(Found) /\ Len(Sorted) = Cardinality(Found) /\ Len(Sorted) \in Nat
         /\ {Sorted[i] : i \in 1..Len(Sorted)} = Found
         /\ \A i, j \in 1..Len(Sorted) : i < j => Before(Sorted[i], Sorted[j])
<1> DEFINE n == Cardinality(Found)
<1>1. n \in Nat /\ Found \subseteq 1..N
  BY FoundAreProviders
<1>2. Sorted = [i \in 1..n |-> CHOOSE p \in Found : Place(p) = i - 1]
  BY DEF Sorted, Place, Earlier
<1>3. \A i \in 1..n : Sorted[i] \in Found /\ Place(Sorted[i]) = i - 1
  BY <1>2, EveryPlaceIsTaken
<1>4. Sorted \in Seq(Found) /\ Len(Sorted) = n
  <2>1. Sorted \in [1..n -> Found]
    BY <1>2, <1>3
  <2> HIDE DEF n
  <2> QED BY <1>1, <2>1
<1>5. ASSUME NEW i \in 1..n, NEW j \in 1..n, i < j PROVE Before(Sorted[i], Sorted[j])
  <2>1. /\ Sorted[i] \in Found /\ Sorted[j] \in Found
        /\ Place(Sorted[i]) = i - 1 /\ Place(Sorted[j]) = j - 1
    BY <1>3
  <2>a. i - 1 # j - 1 /\ ~(j - 1 < i - 1)
    BY <1>1, <1>5
  <2>2. Sorted[i] # Sorted[j] /\ Sorted[i] \in 1..N /\ Sorted[j] \in 1..N
    BY <1>1, <2>1, <2>a
  <2>3. ~Before(Sorted[j], Sorted[i])
    BY ONLY <2>1, <2>a, PlacesDiffer, Figures, WalkTypes
  <2> QED BY <2>2, <2>3, BeforeIsOrder
<1>6. ASSUME NEW p \in Found PROVE \E i \in 1..n : Sorted[i] = p
  <2> DEFINE i == Place(p) + 1
  <2>1. i \in 1..n /\ i - 1 = Place(p)
    BY <1>1, PlacesDiffer
  <2>2. Sorted[i] \in Found /\ Place(Sorted[i]) = Place(p)
    BY <1>3, <2>1
  <2>3. ~Before(p, Sorted[i]) /\ ~Before(Sorted[i], p)
    <3>1. Place(p) \in Nat
      BY <1>1, PlacesDiffer
    <3> QED BY <2>2, <3>1, PlacesDiffer
  <2>4. Sorted[i] = p
    BY <1>1, <2>2, <2>3, BeforeIsOrder
  <2> QED BY <2>1, <2>4
<1>7. {Sorted[i] : i \in 1..n} = Found
  BY <1>3, <1>6
<1> QED BY <1>1, <1>4, <1>5, <1>7

-----------------------------------------------------------------------------
(* The pages, end to end *)

\* As long as nobody moves, what was shown is the beginning of what is found.
Laid ==
  /\ walked = SubSeq(Sorted, 1, Smaller(opened * Take, Len(Sorted)))
  /\ ~hasNext /\ Cardinality(Filtered) <= Cap => opened * Take >= Len(Sorted)

WalkInv ==
  /\ WalkTypes
  /\ asked # 0 => asked = opened + 1 /\ hasNext
  /\ opened = 0 => hasNext /\ walked = <<>>
  /\ ~moved => Laid

\* The cap not being reached, what is fetched is what was filtered.
LEMMA UnderCap ==
  ASSUME Figures, WalkTypes, Cardinality(Filtered) <= Cap
  PROVE  Fetched = Filtered /\ Found = {p \in 1..N : Wanted(p)} /\ Total = Cardinality(Found)
<1>1. Filtered \subseteq 1..N /\ IsFiniteSet(Filtered) /\ Cardinality(Filtered) \in Nat
  BY FoundAreProviders, FS_CardinalityType
<1>2. ASSUME NEW p \in Filtered PROVE Cardinality({q \in Filtered : q < p}) < Cap
  <2> DEFINE T == {q \in Filtered : q < p}
  <2>1. T \in SUBSET Filtered /\ p \notin T
    BY <1>1
  <2> HIDE DEF T
  <2>2. IsFiniteSet(T) /\ Cardinality(T) <= Cardinality(Filtered)
        /\ Cardinality(T) # Cardinality(Filtered)
    BY ONLY <1>1, <1>2, <2>1, FS_Subset
  <2>3. Cardinality(T) \in Nat /\ Cap \in Nat
    BY <2>2, FS_CardinalityType DEF Figures
  <2>4. Cardinality(T) < Cap
    BY ONLY <1>1, <2>2, <2>3, Cardinality(Filtered) <= Cap
  <2> QED BY <2>4 DEF T
<1>3. Fetched = Filtered
  BY <1>2 DEF Fetched
<1> QED BY <1>1, <1>3 DEF Found, Wanted, Total

LEMMA PageStarts ==
  ASSUME Figures, NEW n \in Nat
  PROVE  n * Take \in Nat /\ (n + 1) * Take = n * Take + Take /\ ((n + 1) - 1) * Take = n * Take
BY DEF Figures

\* A page is laid to the ones before it.
LEMMA PageAppended ==
  ASSUME NEW S, NEW s \in Seq(S), NEW start \in Nat, NEW take \in Nat
  PROVE  SubSeq(s, 1, Smaller(start, Len(s)))
           \o SubSeq(s, start + 1, Smaller(start + take, Len(s)))
           = SubSeq(s, 1, Smaller(start + take, Len(s)))
<1> DEFINE n == Len(s)
           end == Smaller(start + take, n)
<1>1. n \in Nat
  BY LenProperties
<1>2. CASE start <= n
  <2>1. /\ Smaller(start, n) = start /\ 1 \in 1..(n + 1) /\ start \in (1 - 1)..n
        /\ end \in start..n
    BY <1>1, <1>2 DEF Smaller
  <2>2. s \in Seq(S)
    OBVIOUS
  <2> HIDE DEF end
  <2>3. SubSeq(s, 1, start) \o SubSeq(s, start + 1, end) = SubSeq(s, 1, end)
    BY ONLY <2>1, <2>2, ConcatAdjacentSubSeq DEF n
  <2> QED BY ONLY <2>1, <2>3 DEF end
<1>3. CASE start > n
  <2>1. Smaller(start, n) = n /\ end = n /\ n < start + 1
    BY <1>1, <1>3 DEF Smaller
  <2>2. SubSeq(s, start + 1, n) = <<>>
    BY <1>1, <2>1, SubSeqEmpty
  <2>3. SubSeq(s, 1, n) = s
    BY SubSeqFull
  <2>4. s \o <<>> = s
    BY ConcatEmptySeq
  <2> QED BY ONLY <2>1, <2>2, <2>3, <2>4
<1>4. start <= n \/ start > n
  BY <1>1
<1> QED BY ONLY <1>2, <1>3, <1>4

LEMMA PageLength ==
  ASSUME NEW S, NEW s \in Seq(S), NEW start \in Nat, NEW take \in Nat
  PROVE  start + Len(SubSeq(s, start + 1, Smaller(start + take, Len(s)))) >= Len(s)
           => start + take >= Len(s)
<1> DEFINE n == Len(s)
           end == Smaller(start + take, n)
<1>1. n \in Nat /\ end \in Nat /\ end <= n
  BY LenProperties DEF Smaller
<1>2. \A i \in (start + 1)..end : s[i] \in S
  <2>1. \A i \in (start + 1)..end : i \in 1..n
    BY <1>1
  <2> QED BY <2>1, ElementOfSeq
<1>3. Len(SubSeq(s, start + 1, end)) = IF start + 1 <= end THEN end - (start + 1) + 1 ELSE 0
  BY <1>1, <1>2, SubSeqProperties
<1> QED BY <1>1, <1>3 DEF Smaller

LEMMA WalkInit == ASSUME Figures PROVE Init => WalkInv
<1> SUFFICES ASSUME Init PROVE WalkInv
  OBVIOUS
<1>1. WalkTypes
  <2>1. walked \in Seq(1..N)
    BY DEF Init
  <2>2. hasNext \in BOOLEAN /\ moved \in BOOLEAN
    BY DEF Init
  <2>3. /\ provider \in [1..N -> Row] /\ query \in Queries
        /\ asked \in 0..MaxPages /\ opened \in 0..MaxPages
    BY DEF Init, Figures
  <2> QED BY <2>1, <2>2, <2>3 DEF WalkTypes
<1>2. Len(Sorted) \in Nat
  BY <1>1, SortedFound
<1>3. Smaller(opened * Take, Len(Sorted)) = 0
  BY <1>2 DEF Init, Smaller, Figures
<1>4. SubSeq(Sorted, 1, 0) = <<>>
  BY SubSeqEmpty
<1> QED BY <1>1, <1>3, <1>4 DEF Init, WalkInv, Laid

\* The same of the places after a step.
LEMMA SortedLength == Figures /\ WalkTypes => Len(Sorted) \in Nat
BY SortedFound

LEMMA SortedLengthNext == (Figures /\ WalkTypes)' => (Len(Sorted) \in Nat)'
BY SortedLength, PTL

LEMMA WalkNext == ASSUME Figures PROVE WalkInv /\ [Next]_wvars => WalkInv'
<1> SUFFICES ASSUME WalkInv, [Next]_wvars PROVE WalkInv'
  OBVIOUS
<1>0. WalkTypes
  BY DEF WalkInv
<1>s. ASSUME UNCHANGED <<provider, query>>
      PROVE  Sorted' = Sorted /\ Filtered' = Filtered
  BY <1>s DEF Sorted, Found, Fetched, Filtered, Matches, ByDistance, WithinReach, Before, SortKey,
              MinServicePrice
<1>1. CASE Ask
  <2>1. /\ opened < MaxPages /\ asked' = opened + 1 /\ hasNext
        /\ UNCHANGED <<provider, query, opened, walked, hasNext, moved>>
    BY <1>1 DEF Ask
  <2>2. WalkTypes'
    BY <1>0, <2>1 DEF WalkTypes, Figures
  <2> QED BY <1>s, <2>1, <2>2 DEF WalkInv, Laid
<1>2. CASE Show
  <2> DEFINE start == opened * Take
  <2>1. /\ asked = opened + 1 /\ hasNext /\ opened' = asked /\ asked' = 0
        /\ UNCHANGED <<provider, query, moved>>
        /\ walked' = walked \o PageItems(asked)
        /\ hasNext' = (Start(asked) + Len(PageItems(asked)) < Total)
    BY <1>0, <1>2 DEF Show, WalkInv, WalkTypes, Figures
  <2>2. opened \in Nat /\ Take \in Nat /\ opened + 1 # 0
    BY <1>0 DEF WalkTypes, Figures
  <2>3. start \in Nat /\ Start(asked) = start /\ opened' * Take = start + Take
    BY <2>1, <2>2, PageStarts DEF Start
  <2>4. /\ Sorted \in Seq(Found) /\ Len(Sorted) = Cardinality(Found) /\ Len(Sorted) \in Nat
        /\ Found \subseteq 1..N
    BY <1>0, SortedFound, FoundAreProviders
  <2>5. PageItems(asked) = SubSeq(Sorted, start + 1, Smaller(start + Take, Len(Sorted)))
    BY <2>3 DEF PageItems
  <2> HIDE DEF start
  <2>6. PageItems(asked) \in Seq(1..N) /\ Len(PageItems(asked)) \in Nat
    <3> DEFINE end == Smaller(start + Take, Len(Sorted))
    <3>1. end \in Nat /\ end <= Len(Sorted)
      BY <2>2, <2>3, <2>4 DEF Smaller
    <3> HIDE DEF end
    <3>2. \A i \in (start + 1)..end : i \in 1..Len(Sorted)
      BY ONLY <2>3, <2>4, <3>1
    <3>3. \A i \in (start + 1)..end : Sorted[i] \in 1..N
      BY ONLY <2>4, <3>2, ElementOfSeq
    <3>4. SubSeq(Sorted, start + 1, end) \in Seq(1..N)
      BY ONLY <2>3, <3>1, <3>3, SubSeqProperties
    <3>5. PageItems(asked) \in Seq(1..N)
      BY <2>5, <3>4 DEF end
    <3> QED BY ONLY <3>5, LenProperties
  <2>7. walked' \in Seq(1..N)
    <3>1. walked \in Seq(1..N)
      BY <1>0 DEF WalkTypes
    <3> QED BY ONLY <2>1, <2>6, <3>1, ConcatProperties
  <2>8. hasNext' \in BOOLEAN
    BY <2>1
  <2>9. WalkTypes'
    BY <1>0, <2>1, <2>7, <2>8 DEF WalkTypes, Figures
  <2>10. ASSUME ~moved, ~hasNext', Cardinality(Filtered) <= Cap
         PROVE  start + Take >= Len(Sorted)
    <3>1. Total = Len(Sorted)
      BY <1>0, <2>4, <2>10, UnderCap
    <3>2. start + Len(PageItems(asked)) >= Len(Sorted)
      <4>1. ~(start + Len(PageItems(asked)) < Len(Sorted))
        BY ONLY <2>1, <2>3, <2>10, <3>1
      <4> QED BY ONLY <2>3, <2>4, <2>6, <4>1
    <3> QED BY ONLY <2>2, <2>3, <2>4, <2>5, <3>2, PageLength
  <2>11. ASSUME ~moved PROVE walked' = SubSeq(Sorted, 1, Smaller(start + Take, Len(Sorted)))
    <3>1. walked = SubSeq(Sorted, 1, Smaller(start, Len(Sorted)))
      BY <2>11 DEF WalkInv, Laid, start
    <3> QED BY ONLY <2>1, <2>2, <2>3, <2>4, <2>5, <3>1, PageAppended
  <2>12. Sorted' = Sorted /\ Filtered' = Filtered
    BY <1>s, <2>1
  <2>13. ~moved' => Laid'
    BY ONLY <2>1, <2>3, <2>10, <2>11, <2>12 DEF Laid
  <2>14. /\ asked' # 0 => asked' = opened' + 1 /\ hasNext'
         /\ opened' # 0
    BY <2>1, <2>2
  <2> QED BY <2>9, <2>13, <2>14 DEF WalkInv
<1>3. ASSUME NEW p \in 1..N, SetLocation(p) PROVE WalkInv'
  <2>1. PICK r \in Rows : provider' = [provider EXCEPT ![p].distance = r.distance]
    BY <1>3 DEF SetLocation
  <2>2. /\ moved' = (moved \/ opened > 0)
        /\ UNCHANGED <<query, asked, opened, walked, hasNext>>
    BY <1>3 DEF SetLocation
  <2>3. provider' \in [1..N -> Row]
    <3>1. r.distance \in Nat /\ provider[p] \in Row
      BY <1>0 DEF Figures, Row, WalkTypes
    <3>2. [provider[p] EXCEPT !.distance = r.distance] \in Row
      BY ONLY <3>1 DEF Row
    <3> QED BY <1>0, <2>1, <3>2 DEF WalkTypes
  <2>m. moved' \in BOOLEAN
    BY <2>2
  <2>4. WalkTypes'
    BY <1>0, <2>2, <2>3, <2>m DEF WalkTypes
  <2>5. Len(Sorted)' \in Nat
    BY <2>4, SortedLengthNext
  <2>6. ASSUME ~moved' PROVE Laid'
    <3>1. opened = 0 /\ hasNext /\ walked = <<>>
      <4>1. ~(opened > 0) /\ ~moved
        BY <2>2, <2>6
      <4>2. opened = 0
        BY <1>0, <4>1 DEF WalkTypes, Figures
      <4> QED BY <4>2 DEF WalkInv
    <3>2. Smaller(opened' * Take, Len(Sorted)') = 0
      BY <2>2, <2>5, <3>1 DEF Smaller, Figures
    <3>3. \A s : SubSeq(s, 1, 0) = <<>>
      BY SubSeqEmpty
    <3> QED BY <2>2, <3>1, <3>2, <3>3 DEF Laid
  <2> QED BY <2>2, <2>4, <2>6 DEF WalkInv
<1>4. CASE UNCHANGED wvars
  <2>1. UNCHANGED <<provider, query, asked, opened, walked, hasNext, moved>>
    BY <1>4 DEF wvars
  <2> QED BY <1>s, <2>1 DEF WalkInv, WalkTypes, Laid
<1> QED BY <1>1, <1>2, <1>3, <1>4 DEF Next

\* Rows, the query and the walk keep their types.
THEOREM SearchTypes == ASSUME Figures PROVE Spec => []TypeOK
<1>1. Init => WalkInv
  BY WalkInit
<1>2. WalkInv /\ [Next]_wvars => WalkInv'
  BY WalkNext
<1>3. WalkInv => TypeOK
  BY DEF WalkInv, WalkTypes, TypeOK
<1> QED BY <1>1, <1>2, <1>3, PTL DEF Spec

\* A visitor who walks through all pages, while no provider moves, has seen every
\* provider he asked for exactly once and in order.
THEOREM WalkSafety == ASSUME Figures PROVE Spec => []WalkIsComplete
<1>1. Init => WalkInv
  BY WalkInit
<1>2. WalkInv /\ [Next]_wvars => WalkInv'
  BY WalkNext
<1>3. WalkInv => WalkIsComplete
  <2> SUFFICES ASSUME WalkInv, ~hasNext, ~moved, Cardinality(Filtered) <= Cap
               PROVE  /\ Len(walked) = Cardinality({p \in 1..N : Wanted(p)})
                      /\ {walked[i] : i \in DOMAIN walked} = {p \in 1..N : Wanted(p)}
                      /\ \A i, j \in DOMAIN walked : i < j => Before(walked[i], walked[j])
    BY DEF WalkIsComplete
  <2>1. WalkTypes /\ Laid /\ opened * Take >= Len(Sorted)
    BY DEF WalkInv, Laid
  <2>2. /\ Sorted \in Seq(Found) /\ Len(Sorted) = Cardinality(Found) /\ Len(Sorted) \in Nat
        /\ {Sorted[i] : i \in 1..Len(Sorted)} = Found
        /\ \A i, j \in 1..Len(Sorted) : i < j => Before(Sorted[i], Sorted[j])
    BY <2>1, SortedFound
  <2>3. opened * Take \in Nat
    BY <2>1, PageStarts DEF WalkTypes, Figures
  <2>4. Smaller(opened * Take, Len(Sorted)) = Len(Sorted)
    BY <2>1, <2>2, <2>3 DEF Smaller
  <2>5. walked = Sorted
    BY ONLY <2>1, <2>2, <2>4, SubSeqFull DEF Laid
  <2>6. DOMAIN walked = 1..Len(Sorted)
    BY <2>2, <2>5
  <2>7. Found = {p \in 1..N : Wanted(p)}
    BY <2>1, UnderCap
  <2> QED BY <2>2, <2>5, <2>6, <2>7
<1> QED BY <1>1, <1>2, <1>3, PTL DEF Spec
=============================================================================
