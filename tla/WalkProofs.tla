------------------------------ MODULE WalkProofs ------------------------------
(***************************************************************************)
(* That reading a list page by page misses nothing (WalkComplete of        *)
(* Views), for any number of pages, any page sizes and any reservations.   *)
(***************************************************************************)
EXTENDS ViewsProofs

USE DEF Created, tables, Refused, Shown, Idle, Reading, Listing

-------------------------------------------------------------------------------
(* Numbers and places *)

\* The last page reaches the last row.
LEMMA PagesSuffice ==
    ASSUME NEW page \in Nat \ {0}, NEW limit \in Nat \ {0}, NEW total \in Nat,
           ~ (page < (total + limit - 1) \div limit)
    PROVE  total <= page * limit
<1> DEFINE q == (total + limit - 1) \div limit
<1>1. q \in Int /\ q * limit > total - 1
  OBVIOUS
<1>2. q <= page
  BY <1>1
<1>3. q * limit <= page * limit
  BY <1>1, <1>2
<1> HIDE DEF q
<1>4. q * limit \in Int /\ page * limit \in Int
  BY <1>1
<1> QED
  BY <1>1, <1>3, <1>4

LEMMA LeastOf ==
    ASSUME NEW a \in Nat, NEW b \in Nat
    PROVE  Min({a, b}) = IF a <= b THEN a ELSE b
<1>1. \E x \in {a, b} : \A y \in {a, b} : x <= y
  OBVIOUS
<1>2. Min({a, b}) \in {a, b} /\ \A y \in {a, b} : Min({a, b}) <= y
  BY <1>1 DEF Min
<1> QED
  BY <1>2

LEMMA ConcatParts ==
    ASSUME NEW S, NEW a \in Seq(S), NEW b \in Seq(S)
    PROVE  /\ Len(a \o b) = Len(a) + Len(b)
           /\ \A i \in 1..Len(a) : (a \o b)[i] = a[i]
           /\ \A i \in 1..Len(b) : (a \o b)[Len(a) + i] = b[i]
           /\ Len(a) \in Nat /\ Len(b) \in Nat
OBVIOUS

LEMMA ConcatEmpty ==
    ASSUME NEW S, NEW a \in Seq(S), NEW b \in Seq(S), Len(a \o b) = 0
    PROVE  a = <<>>
<1>1. Len(a) + Len(b) = 0 /\ Len(a) \in Nat /\ Len(b) \in Nat
  OBVIOUS
<1>2. Len(a) = 0
  BY <1>1
<1> QED
  BY <1>2

\* A reservation with members has a time.
LEMMA EntryTimes ==
    ASSUME TypeOK, RowsFollowReservation, NEW r \in Entries
    PROVE  r \in Reservations /\ time[r] \in Nat
BY BoundsAssumption DEF TypeOK, TablesTypeOK, RowsFollowReservation, Entries, Times

LEMMA AheadFinite ==
    ASSUME NEW rows \in SUBSET Reservations, NEW r, NEW order
    PROVE  /\ IsFiniteSet(rows) /\ Cardinality(rows) \in Nat
           /\ IsFiniteSet(Ahead(r, rows, order))
           /\ Cardinality(Ahead(r, rows, order)) \in Nat
           /\ Cardinality(Ahead(r, rows, order)) <= Cardinality(rows)
<1>1. IsFiniteSet(rows) /\ Cardinality(rows) \in Nat
  BY FiniteAssumption, FS_Subset, FS_CardinalityType
<1>2. Ahead(r, rows, order) \in SUBSET rows
  BY DEF Ahead
<1> QED
  BY <1>1, <1>2, FS_Subset, FS_CardinalityType

\* Newcomers only move others back.
LEMMA AheadGrows ==
    ASSUME NEW more \in SUBSET Reservations, NEW rows \in SUBSET more, NEW r, NEW order
    PROVE  Cardinality(Ahead(r, rows, order)) <= Cardinality(Ahead(r, more, order))
<1>1. Ahead(r, rows, order) \in SUBSET Ahead(r, more, order)
  BY DEF Ahead
<1> QED
  BY <1>1, AheadFinite, FS_Subset

\* Who is in the list is not ahead of itself, so that some place is left for it.
LEMMA AheadLess ==
    ASSUME TypeOK, RowsFollowReservation, NEW rows \in SUBSET Entries, NEW r \in rows, NEW order
    PROVE  Cardinality(Ahead(r, rows, order)) < Cardinality(rows)
<1>1. Ahead(r, rows, order) \in SUBSET rows /\ r \notin Ahead(r, rows, order)
  BY EntryTimes DEF Ahead
<1>2. rows \in SUBSET Reservations
  BY DEF Entries
<1> QED
  BY <1>1, <1>2, AheadFinite, FS_Subset

\* An ordering leaves no row out.
LEMMA OrderedOnto ==
    ASSUME NEW rows \in SUBSET Reservations, NEW order, NEW s \in Orderings(rows, order)
    PROVE  \A r \in rows : \E i \in 1..Cardinality(rows) : s[i] = r
<1> DEFINE n == Cardinality(rows)
<1>1. n \in Nat /\ IsFiniteSet(rows)
  BY AheadFinite
<1>2. s \in Injection(1..n, rows)
  BY DEF Orderings, SetToSeqs, Injection, IsInjective
<1>3. IsFiniteSet(1..n) /\ Cardinality(1..n) = n
  BY <1>1, FS_Interval
<1>4. s \in Surjection(1..n, rows)
  BY <1>1, <1>2, <1>3, FS_Injection
<1> QED
  BY <1>4 DEF Surjection

\* In an ordering by distinct times the i-th row has the i-th place.
LEMMA OrderedPlaces ==
    ASSUME TypeOK, RowsFollowReservation, NEW rows \in SUBSET Entries,
           \A r, s \in rows : time[r] = time[s] => r = s,
           NEW order \in {"ASC", "DESC"}, NEW s \in Orderings(rows, order),
           NEW i \in 1..Cardinality(rows)
    PROVE  Cardinality(Ahead(s[i], rows, order)) = i - 1
<1> DEFINE n == Cardinality(rows)
<1>1. rows \in SUBSET Reservations /\ n \in Nat
  BY AheadFinite DEF Entries
<1>2. /\ s \in [1..n -> rows]
      /\ \A j, k \in 1..n : j # k => s[j] # s[k]
  BY DEF Orderings, SetToSeqs
<1>3. Len(s) = n
  BY <1>1, <1>2
<1>4. \A j, k \in 1..n : j < k => InOrder(s[j], s[k], order)
  BY <1>3 DEF Orderings
<1>5. \A r \in rows : time[r] \in Nat
  BY EntryTimes
<1>6. s \in Injection(1..n, rows)
  BY <1>2 DEF Injection, IsInjective
<1>7. s \in Surjection(1..n, rows)
  <2>1. IsFiniteSet(1..n) /\ Cardinality(1..n) = n
    BY <1>1, FS_Interval
  <2>2. IsFiniteSet(rows)
    BY <1>1, AheadFinite
  <2> QED
    BY <1>6, <2>1, <2>2, FS_Injection
<1> HIDE DEF n
<1> DEFINE A == Ahead(s[i], rows, order)
<1>8. A = {s[j] : j \in 1..(i - 1)}
  <2>1. i \in 1..n
    BY DEF n
  <2>2. ASSUME NEW j \in 1..n, j < i
        PROVE  s[j] \in A
    BY <1>2, <1>4, <1>5, <2>1, <2>2 DEF Ahead, InOrder
  <2>3. ASSUME NEW j \in 1..n, ~ (j < i)
        PROVE  s[j] \notin A
    BY <1>1, <1>2, <1>4, <1>5, <2>1, <2>3 DEF Ahead, InOrder
  <2>4. \A r \in rows : \E j \in 1..n : s[j] = r
    BY <1>7 DEF Surjection
  <2>5. A \subseteq rows
    BY DEF Ahead
  <2>6. \A j \in 1..(i - 1) : j \in 1..n /\ j < i
    BY <1>1, <2>1
  <2>7. \A j \in 1..n : j < i => j \in 1..(i - 1)
    BY <1>1, <2>1
  <2> HIDE DEF A
  <2> QED
    BY <2>2, <2>3, <2>4, <2>5, <2>6, <2>7
<1> DEFINE f == [j \in 1..(i - 1) |-> s[j]]
<1>9. f \in Bijection(1..(i - 1), A)
  <2>1. \A j \in 1..(i - 1) : j \in 1..n
    BY <1>1 DEF n
  <2> HIDE DEF A
  <2> QED
    BY <1>2, <1>8, <2>1 DEF Bijection, Injection, Surjection, IsInjective
<1> QED
  BY <1>1, <1>9, FS_CountingElements DEF ExistsBijection, n

-------------------------------------------------------------------------------
(* The page that is read *)

\* The slice of a page holds the rows of the ordering from its offset on, as many
\* as the page takes or as there are.
LEMMA SliceRows ==
    ASSUME NEW rows, NEW n \in Nat, NEW s \in [1..n -> rows],
           NEW from \in Nat, NEW limit \in Nat \ {0},
           NEW first, first = from + 1,
           NEW to, to = IF from + limit <= n THEN from + limit ELSE n
    PROVE  /\ SubSeq(s, first, to) \in Seq(rows)
           /\ Len(SubSeq(s, first, to)) =
                  IF from >= n THEN 0 ELSE IF from + limit <= n THEN limit ELSE n - from
           /\ \A i \in 1..Len(SubSeq(s, first, to)) : SubSeq(s, first, to)[i] = s[from + i]
<1>1. first \in Int /\ to \in Int /\ \A i \in first..to : s[i] \in rows
  OBVIOUS
<1> DEFINE slice == SubSeq(s, first, to)
<1>2. /\ slice \in Seq(rows)
      /\ Len(slice) = IF first <= to THEN to - first + 1 ELSE 0
      /\ \A i \in 1..(to - first + 1) : slice[i] = s[first + i - 1]
  BY ONLY <1>1, SubSeqProperties
<1> HIDE DEF slice
<1>3. Len(slice) = IF from >= n THEN 0 ELSE IF from + limit <= n THEN limit ELSE n - from
  BY <1>2
<1>4. ASSUME NEW i \in 1..Len(slice)
      PROVE  slice[i] = s[from + i]
  <2>1. i \in 1..(to - first + 1)
    BY ONLY <1>1, <1>2
  <2>2. first + i - 1 = from + i
    OBVIOUS
  <2> QED
    BY <1>2, <2>1, <2>2
<1> QED
  BY <1>2, <1>3, <1>4 DEF slice

\* A reservation that is in a list is not lost from the next one's, nor from the one
\* by the clock of an earlier page, except for the reasons Undisturbed names.
LEMMA ListedLasts ==
    ASSUME TypeOK, RowsFollowReservation, NEW query \in Query, NEW asOf \in Times, asOf <= now,
           NEW r \in Entries
    PROVE  /\ query.status = "AFTER" /\ r \in Matching(query, now) => r \in Matching(query, asOf)
           /\ query.status # "AFTER" /\ r \in Matching(query, asOf) => r \in Matching(query, now)
<1>1. time[r] \in Nat /\ asOf \in Nat /\ now \in Nat
  BY EntryTimes, BoundsAssumption DEF TypeOK, TablesTypeOK, Times
<1>2. query.status \in {"ALL", "AFTER", "BEFORE"}
  BY DEF Query, StatusFilter
<1>3. CASE query.status = "AFTER"
  BY <1>1, <1>3 DEF Matching
<1>4. CASE query.status = "BEFORE"
  BY <1>1, <1>4 DEF Matching
<1>5. CASE query.status = "ALL"
  BY <1>5 DEF Matching
<1> QED
  BY <1>2, <1>3, <1>4, <1>5

LEMMA FindPageEffect ==
    ASSUME NEW w \in Walk, FindPage(w)
    PROVE  \E s \in Orderings(Matching(w.query, now), w.query.order) :
             /\ pc' = "countPage" /\ UNCHANGED tables
             /\ walk'.slice = SubSeq(s, Offset(w.query, w.page) + 1,
                                    Min({Offset(w.query, w.page) + w.query.limit, Len(s)}))
             /\ walk'.query = w.query /\ walk'.page = w.page /\ walk'.asOf = now
             /\ walk'.collected = w.collected /\ walk'.entries = w.entries
             /\ walk'.listed = w.listed \union Matching(w.query, now)
             /\ walk'.moves = w.moves
<1>1. PICK s \in Orderings(Matching(w.query, now), w.query.order) :
          /\ pc' = "countPage" /\ UNCHANGED tables
          /\ walk' = [w EXCEPT !.asOf = now,
                               !.slice = SubSeq(s, Offset(w.query, w.page) + 1,
                                                Min({Offset(w.query, w.page) + w.query.limit, Len(s)})),
                               !.total = 0,
                               !.listed = @ \union Matching(w.query, now)]
  BY DEF FindPage
<1> DEFINE slice == SubSeq(s, Offset(w.query, w.page) + 1,
                           Min({Offset(w.query, w.page) + w.query.limit, Len(s)}))
           M == Matching(w.query, now)
<1>2. walk' = [w EXCEPT !.asOf = now, !.slice = slice, !.total = 0, !.listed = @ \union M]
  BY <1>1
<1> HIDE DEF slice, M
<1>3. /\ walk'.slice = slice /\ walk'.query = w.query /\ walk'.page = w.page
      /\ walk'.asOf = now /\ walk'.collected = w.collected /\ walk'.entries = w.entries
      /\ walk'.listed = w.listed \union M /\ walk'.moves = w.moves
  BY <1>2 DEF Walk
<1> QED
  BY <1>1, <1>3 DEF slice, M

LEMMA QueryType ==
    ASSUME NEW query \in Query
    PROVE  query.limit \in Nat \ {0} /\ query.order \in {"ASC", "DESC"}
<1>1. query.limit \in PageSizes /\ query.order \in {"ASC", "DESC"}
  BY DEF Query
<1> QED
  BY <1>1, PageSizesAssumption, Zenon

\* What is known of a walk before its next page is read is known of it with that
\* page: w is the walk, with the number of the page that is read.
LEMMA PageStep ==
    ASSUME TypeOK, RowsFollowReservation, NEW w \in Walk, FindPage(w),
           w.asOf <= now, w.moves <= moves,
           w.listed \subseteq Entries,
           w.entries \subseteq w.listed \union Matching(w.query, now),
           w.moves = moves /\ w.query.status # "AFTER" => w.listed \subseteq Matching(w.query, w.asOf),
           w.moves = moves /\ w.listed \subseteq Matching(w.query, now)
             /\ (\A r, s \in Entries : time[r] = time[s] => r = s) =>
               /\ \A r \in w.entries :
                      Cardinality(Ahead(r, w.listed, w.query.order)) < Offset(w.query, w.page)
                          => r \in ToSet(w.collected)
               /\ Matching(w.query, now) = w.entries =>
                      /\ Len(w.collected) = Min({Offset(w.query, w.page), Cardinality(w.entries)})
                      /\ \A i \in 1..Len(w.collected) :
                             /\ w.collected[i] \in w.entries
                             /\ Cardinality(Ahead(w.collected[i], w.entries, w.query.order)) = i - 1
    PROVE  WalkInv'
<1> DEFINE M == Matching(w.query, now)
           order == w.query.order
           limit == w.query.limit
           from == Offset(w.query, w.page)
<1>1. PICK s \in Orderings(M, order) :
             /\ pc' = "countPage" /\ UNCHANGED tables
             /\ walk'.slice = SubSeq(s, from + 1, Min({from + limit, Len(s)}))
             /\ walk'.query = w.query /\ walk'.page = w.page /\ walk'.asOf = now
             /\ walk'.collected = w.collected /\ walk'.entries = w.entries
             /\ walk'.listed = w.listed \union M
             /\ walk'.moves = w.moves
  BY FindPageEffect
<1> HIDE DEF M, order, limit, from
<1>2. Matching(walk.query, walk.asOf)' = M /\ Entries' = Entries /\ M \subseteq Entries
  <2>1. members' = members /\ time' = time /\ walk'.query = w.query /\ walk'.asOf = now
    BY <1>1
  <2>2. Entries' = Entries
    BY <2>1 DEF Entries
  <2>3. Matching(walk.query, walk.asOf)' = M
    BY <2>1, <2>2 DEF Matching, M
  <2> QED
    BY <2>2, <2>3 DEF Matching, M
<1>3. /\ now \in Times /\ w.asOf \in Times /\ now \in Nat /\ moves \in Nat /\ w.moves \in Nat
      /\ w.query \in Query /\ w.page \in Nat \ {0}
      /\ w.collected \in Seq(Reservations) /\ w.entries \in SUBSET Reservations
      /\ w.listed \in SUBSET Reservations
  BY BoundsAssumption DEF TypeOK, TablesTypeOK, Walk, Times
<1>4. limit \in Nat \ {0} /\ order \in {"ASC", "DESC"}
  BY <1>3, QueryType DEF limit, order
<1>5. w.moves = moves /\ w.query.status # "AFTER" => w.listed \subseteq M
  BY <1>3, ListedLasts DEF M
<1>6. w.entries \subseteq w.listed \union M
  BY DEF M
<1>7. WalkGrows'
  <2>1. walk'.asOf <= now' /\ walk'.moves <= moves' /\ walk'.entries \subseteq walk'.listed
    BY <1>1, <1>3, <1>6
  <2>2. walk'.listed \subseteq Entries'
    BY <1>1, <1>2
  <2>3. walk'.moves = moves' /\ walk'.query.status # "AFTER" =>
            walk'.listed \subseteq Matching(walk.query, walk.asOf)'
    BY <1>1, <1>2, <1>5
  <2> QED
    BY <2>1, <2>2, <2>3 DEF WalkGrows
<1>8. ASSUME Undisturbed'
      PROVE  /\ \A r \in walk'.entries : Place(r)' < Covered' => r \in ToSet(SoFar)'
             /\ walk'.listed = walk'.entries =>
                    /\ Len(SoFar)' = Min({Covered', Cardinality(walk'.entries)})
                    /\ \A i \in DOMAIN SoFar' :
                           SoFar'[i] \in walk'.entries /\ Place(SoFar[i])' = i - 1
  <2> DEFINE seen == w.collected
             both == w.collected \o walk'.slice
             n == Cardinality(M)
  <2>1. w.moves = moves /\ w.listed \subseteq M /\ \A r, t \in Entries : time[r] = time[t] => r = t
    BY <1>1, <1>2, <1>8 DEF Undisturbed
  <2>2. /\ \A r \in w.entries : Cardinality(Ahead(r, w.listed, order)) < from => r \in ToSet(seen)
        /\ M = w.entries =>
               /\ Len(seen) = Min({from, Cardinality(w.entries)})
               /\ \A i \in 1..Len(seen) :
                      seen[i] \in w.entries /\ Cardinality(Ahead(seen[i], w.entries, order)) = i - 1
    BY <2>1 DEF M, order, from
  <2>3. walk'.listed = M
    BY <1>1, <2>1
  <2>4. M \in SUBSET Reservations /\ n \in Nat /\ M \in SUBSET Entries
    BY <1>2, AheadFinite DEF Entries
  <2>5. from \in Nat
    <3>1. w.page - 1 \in Nat
      BY <1>3
    <3>2. \A a, b \in Nat : a * b \in Nat
      OBVIOUS
    <3> QED
      BY <1>4, <3>1, <3>2 DEF from, Offset, limit
  <2>6. walk'.page * walk'.query.limit = from + limit
    <3>1. \A a, b \in Nat \ {0} : a * b = (a - 1) * b + b
      OBVIOUS
    <3> QED
      BY <1>1, <1>3, <1>4, <3>1 DEF from, Offset, limit
  <2>7. /\ walk'.slice \in Seq(M)
        /\ Len(walk'.slice) = IF from >= n THEN 0 ELSE IF from + limit <= n THEN limit ELSE n - from
        /\ \A i \in 1..Len(walk'.slice) : walk'.slice[i] = s[from + i]
    <3>1. PICK first : first = from + 1
      OBVIOUS
    <3>2. PICK to : to = IF from + limit <= n THEN from + limit ELSE n
      OBVIOUS
    <3>3. s \in [1..n -> M]
      BY DEF Orderings, SetToSeqs
    <3>4. Min({from + limit, Len(s)}) = to
      <4>1. Len(s) = n /\ from + limit \in Nat
        BY <1>4, <2>4, <2>5, <3>3
      <4> QED
        BY <2>4, <3>2, <4>1, LeastOf
    <3>5. walk'.slice = SubSeq(s, first, to)
      BY <1>1, <3>1, <3>4
    <3> HIDE DEF n
    <3>6. n \in Nat
      BY <2>4
    <3>7. /\ SubSeq(s, first, to) \in Seq(M)
          /\ Len(SubSeq(s, first, to)) =
                 IF from >= n THEN 0 ELSE IF from + limit <= n THEN limit ELSE n - from
          /\ \A i \in 1..Len(SubSeq(s, first, to)) : SubSeq(s, first, to)[i] = s[from + i]
      BY ONLY <1>4, <2>5, <3>1, <3>2, <3>3, <3>6, SliceRows
    <3> QED
      BY <3>5, <3>7, Zenon
  <2>8. \A i \in 1..n : s[i] \in M /\ Cardinality(Ahead(s[i], M, order)) = i - 1
    <3>1. s \in [1..n -> M]
      BY DEF Orderings, SetToSeqs
    <3> QED
      BY <1>4, <2>1, <2>4, <3>1, OrderedPlaces
  <2>9. \A r \in M : \E i \in 1..n : s[i] = r
    BY <1>4, <2>1, <2>4, OrderedOnto
  <2>10. walk'.slice \in Seq(Reservations) /\ both \in Seq(Reservations)
    BY <1>3, <2>4, <2>7
  <2>11. /\ Len(both) = Len(seen) + Len(walk'.slice)
         /\ \A i \in 1..Len(seen) : both[i] = seen[i]
         /\ \A i \in 1..Len(walk'.slice) : both[Len(seen) + i] = walk'.slice[i]
         /\ Len(seen) \in Nat /\ Len(walk'.slice) \in Nat
    <3>1. seen \in Seq(Reservations) /\ walk'.slice \in Seq(Reservations)
      BY <1>3, <2>10
    <3>2. PICK slice \in Seq(Reservations) : slice = walk'.slice
      BY <3>1
    <3> HIDE DEF seen
    <3>3. both = seen \o slice
      BY <3>2 DEF both, seen
    <3> HIDE DEF both
    <3> QED
      BY <3>1, <3>2, <3>3, ConcatParts
  <2> HIDE DEF seen, both, n
  <2>12. ASSUME NEW r \in w.entries, Cardinality(Ahead(r, M, order)) < from + limit
         PROVE  r \in ToSet(both)
    <3>1. r \in M
      BY <1>6, <2>1
    <3>2. PICK i \in 1..n : s[i] = r
      BY <2>9, <3>1
    <3>3. i - 1 < from + limit
      BY <2>8, <2>12, <3>2
    <3>4. CASE i <= from
      <4>1. Cardinality(Ahead(r, M, order)) < from
        BY <2>4, <2>5, <2>8, <3>2, <3>4
      <4>2. Cardinality(Ahead(r, w.listed, order)) <= Cardinality(Ahead(r, M, order))
        BY <2>1, <2>4, AheadGrows
      <4>3. Cardinality(Ahead(r, w.listed, order)) \in Nat /\ Cardinality(Ahead(r, M, order)) \in Nat
        BY <1>3, <2>4, AheadFinite
      <4>4. r \in ToSet(seen)
        BY <2>2, <2>5, <4>1, <4>2, <4>3
      <4> QED
        BY <2>11, <4>4 DEF ToSet
    <3>5. CASE from < i
      <4>1. i - from \in 1..Len(walk'.slice)
        BY <1>4, <2>4, <2>5, <2>7, <3>2, <3>3, <3>5
      <4>2. from + (i - from) = i
        BY <2>4, <2>5, <3>2
      <4>3. walk'.slice[i - from] = r
        BY <2>7, <3>2, <4>1, <4>2
      <4>4. PICK k \in 1..Len(walk'.slice) : walk'.slice[k] = r
        BY <4>1, <4>3
      <4>5. Len(seen) + k \in 1..Len(both)
        BY <2>11, <4>4
      <4> QED
        BY <2>11, <4>4, <4>5 DEF ToSet
    <3> QED
      BY <2>4, <2>5, <3>2, <3>4, <3>5
  <2>13. ASSUME M = w.entries
         PROVE  /\ Len(both) = Min({from + limit, n})
                /\ \A i \in 1..Len(both) :
                       both[i] \in M /\ Cardinality(Ahead(both[i], M, order)) = i - 1
    <3>1. /\ Len(seen) = Min({from, n})
          /\ \A i \in 1..Len(seen) : seen[i] \in M /\ Cardinality(Ahead(seen[i], M, order)) = i - 1
      BY <2>2, <2>13 DEF n
    <3>2. Len(seen) = IF from <= n THEN from ELSE n
      BY <2>4, <2>5, <3>1, LeastOf
    <3>3. Min({from + limit, n}) = IF from + limit <= n THEN from + limit ELSE n
      <4>1. from + limit \in Nat
        BY <1>4, <2>5
      <4> QED
        BY <2>4, <4>1, LeastOf
    <3>4. Len(both) = Min({from + limit, n})
      <4>1. limit \in Nat /\ limit >= 1 /\ n \in Nat /\ from \in Nat
        BY <1>4, <2>4, <2>5 DEF n
      <4>2. Len(walk'.slice) = IF from >= n THEN 0 ELSE IF from + limit <= n THEN limit ELSE n - from
        BY <2>7
      <4>3. Len(both) = Len(seen) + Len(walk'.slice)
        BY <2>11
      <4> QED
        BY ONLY <3>2, <3>3, <4>1, <4>2, <4>3
    <3>5. ASSUME NEW i \in 1..Len(both)
          PROVE  both[i] \in M /\ Cardinality(Ahead(both[i], M, order)) = i - 1
      <4>1. CASE i <= Len(seen)
        <5>1. i \in 1..Len(seen)
          BY <2>11, <4>1
        <5>2. both[i] = seen[i]
          BY <2>11, <5>1
        <5> QED
          BY <3>1, <5>1, <5>2
      <4>2. CASE Len(seen) < i
        <5>0. i - Len(seen) \in Int
          BY <2>11
        <5>1. PICK k \in Int : k = i - Len(seen)
          BY <5>0, Zenon
        <5>2. k \in 1..Len(walk'.slice) /\ Len(seen) + k = i
          BY <2>11, <4>2, <5>1
        <5>3. Len(seen) = from /\ from + k \in 1..n
          BY <1>4, <2>4, <2>5, <2>7, <3>2, <5>2
        <5>4. both[i] = s[i] /\ i \in 1..n
          BY <2>7, <2>11, <5>2, <5>3
        <5> QED
          BY <2>8, <5>4
      <4> QED
        BY <2>11, <4>1, <4>2
    <3> QED
      BY <3>4, <3>5
  <2>14. time' = time /\ walk'.query.order = order
    BY <1>1 DEF order
  <2>15. \A r : Ahead(r, walk.listed, walk.query.order)' = Ahead(r, M, order)
    BY <2>3, <2>14 DEF Ahead
  <2>16. SoFar' = both /\ Covered' = from + limit
    BY <1>1, <2>6 DEF SoFar, Covered, both
  <2>17. DOMAIN both = 1..Len(both)
    BY <2>10 DEF both
  <2> QED
    BY <1>1, <2>3, <2>12, <2>13, <2>14, <2>15, <2>16, <2>17 DEF Place, n
<1> QED
  BY <1>1, <1>7, <1>8 DEF WalkInv, WalkSoFar

-------------------------------------------------------------------------------
(* The steps *)

LEMMA FirstStep ==
    ASSUME TypeOK, RowsFollowReservation, NEW query \in Query, ListFirst(query)
    PROVE  WalkInv'
<1> DEFINE M == Matching(query, now)
           w == [query |-> query, page |-> 1, asOf |-> now, slice |-> <<>>, total |-> 0,
                 collected |-> <<>>, entries |-> M, listed |-> {}, moves |-> moves]
<1>1. FindPage(w)
  BY DEF ListFirst
<1>2. M \in SUBSET Reservations /\ now \in Times /\ moves \in 0..MaxMoves
  BY DEF TypeOK, TablesTypeOK, Matching, Entries
<1> HIDE DEF M
<1>3. w \in Walk
  BY <1>2 DEF Walk
<1>4. /\ w.query = query /\ w.page = 1 /\ w.asOf = now /\ w.collected = <<>> /\ w.entries = M
      /\ w.listed = {} /\ w.moves = moves
  OBVIOUS
<1> HIDE DEF w
<1>5. query.limit \in Nat
  BY QueryType
<1>6. Offset(w.query, w.page) = 0
  BY <1>4, <1>5 DEF Offset
<1>7. \A r : Cardinality(Ahead(r, w.listed, w.query.order)) \in Nat
  BY <1>4, AheadFinite
<1>8. Len(w.collected) = Min({0, Cardinality(w.entries)}) /\ Len(w.collected) = 0
  <2>1. Cardinality(w.entries) \in Nat
    BY <1>2, <1>4, AheadFinite
  <2> QED
    BY <1>4, <2>1, LeastOf
<1>9. now \in Nat /\ moves \in Nat
  BY <1>2, BoundsAssumption DEF Times
<1>10. w.entries = Matching(w.query, now)
  BY <1>4 DEF M
<1>11. /\ w.asOf <= now /\ w.moves <= moves /\ w.listed \subseteq Entries
       /\ w.entries \subseteq w.listed \union Matching(w.query, now)
       /\ w.listed \subseteq Matching(w.query, w.asOf)
  BY <1>4, <1>9, <1>10
<1>12. /\ \A r \in w.entries :
              Cardinality(Ahead(r, w.listed, w.query.order)) < Offset(w.query, w.page)
                  => r \in ToSet(w.collected)
       /\ Matching(w.query, now) = w.entries =>
              /\ Len(w.collected) = Min({Offset(w.query, w.page), Cardinality(w.entries)})
              /\ \A i \in 1..Len(w.collected) :
                     /\ w.collected[i] \in w.entries
                     /\ Cardinality(Ahead(w.collected[i], w.entries, w.query.order)) = i - 1
  BY <1>6, <1>7, <1>8
<1> QED
  BY <1>1, <1>3, <1>11, <1>12, PageStep

LEMMA NextStep ==
    ASSUME TypeOK, RowsFollowReservation, WalkInv, ListNext
    PROVE  WalkInv'
<1> DEFINE w == [walk EXCEPT !.page = @ + 1]
<1>1. FindPage(w) /\ pc = "listed"
  BY DEF ListNext
<1>2. walk \in Walk
  BY <1>1 DEF TypeOK
<1>3. walk.page \in Nat \ {0} /\ walk.query \in Query /\ walk.asOf \in Times
      /\ walk.slice \in Seq(Reservations) /\ walk.collected \in Seq(Reservations)
      /\ walk.entries \in SUBSET Reservations /\ walk.listed \in SUBSET Reservations
  BY <1>2 DEF Walk
<1>4. PICK page : page = walk.page + 1
  OBVIOUS
<1>5. page \in Nat \ {0} /\ page - 1 = walk.page
  BY <1>3, <1>4
<1>6. w = [walk EXCEPT !.page = page]
  BY <1>4
<1> HIDE DEF w
<1>7. /\ w \in Walk
      /\ w.query = walk.query /\ w.page = page /\ w.asOf = walk.asOf
      /\ w.collected = walk.collected /\ w.entries = walk.entries
      /\ w.listed = walk.listed /\ w.moves = walk.moves
  BY <1>2, <1>5, <1>6 DEF Walk
<1>8. Offset(w.query, w.page) = Covered
  BY <1>5, <1>7 DEF Offset, Covered
<1>9. WalkGrows /\ WalkSoFar
  BY DEF WalkInv
<1>10. /\ w.asOf <= now /\ w.moves <= moves
       /\ w.entries \subseteq w.listed /\ w.listed \subseteq Entries
       /\ w.moves = moves /\ w.query.status # "AFTER" => w.listed \subseteq Matching(w.query, w.asOf)
  BY <1>1, <1>7, <1>9 DEF WalkGrows
<1>11. ASSUME w.moves = moves, w.listed \subseteq Matching(w.query, now),
              \A r, s \in Entries : time[r] = time[s] => r = s
       PROVE  /\ \A r \in w.entries :
                     Cardinality(Ahead(r, w.listed, w.query.order)) < Offset(w.query, w.page)
                         => r \in ToSet(w.collected)
              /\ Matching(w.query, now) = w.entries =>
                     /\ Len(w.collected) = Min({Offset(w.query, w.page), Cardinality(w.entries)})
                     /\ \A i \in 1..Len(w.collected) :
                            /\ w.collected[i] \in w.entries
                            /\ Cardinality(Ahead(w.collected[i], w.entries, w.query.order)) = i - 1
  <2>1. w.listed \subseteq Matching(w.query, w.asOf)
    BY <1>3, <1>7, <1>10, <1>11, ListedLasts
  <2>2. Undisturbed
    BY <1>7, <1>11, <2>1 DEF Undisturbed
  <2>3. SoFar = walk.collected
    <3>1. walk.slice = <<>>
      BY <1>1, <1>9, <2>2 DEF WalkSoFar
    <3> QED
      BY <1>3, <3>1, ConcatEmptySeq DEF SoFar
  <2>4. Matching(w.query, now) = w.entries => walk.listed = walk.entries
    BY <1>7, <1>10, <1>11
  <2> QED
    BY <1>1, <1>3, <1>7, <1>8, <1>9, <2>2, <2>3, <2>4 DEF WalkSoFar, Place
<1> QED
  BY <1>1, <1>7, <1>10, <1>11, PageStep

\* The count is of the list whose page was read, so the last page ends after it.
LEMMA CountStep ==
    ASSUME TypeOK, WalkInv, CountPage
    PROVE  WalkInv'
<1> DEFINE M == Matching(walk.query, walk.asOf)
           total == Cardinality(M)
<1>1. walk \in Walk /\ pc = "countPage" /\ UNCHANGED tables
  BY DEF TypeOK, CountPage
<1>2. /\ walk.page \in Nat \ {0} /\ walk.query \in Query
      /\ walk.slice \in Seq(Reservations) /\ walk.collected \in Seq(Reservations)
      /\ walk.entries \in SUBSET Reservations /\ walk.listed \in SUBSET Reservations
      /\ walk.query.limit \in Nat \ {0}
  BY <1>1, QueryType DEF Walk
<1>3. M \in SUBSET Reservations /\ total \in Nat
  BY AheadFinite DEF Matching, Entries
<1> HIDE DEF total
<1>4. \/ total = 0 /\ pc' = "listed" /\ walk' = [walk EXCEPT !.slice = <<>>]
      \/ total # 0 /\ pc' = "findParticipants" /\ walk' = [walk EXCEPT !.total = total]
  BY DEF CountPage, total
<1>5. /\ walk'.query = walk.query /\ walk'.page = walk.page /\ walk'.asOf = walk.asOf
      /\ walk'.collected = walk.collected /\ walk'.entries = walk.entries
      /\ walk'.listed = walk.listed /\ walk'.moves = walk.moves
  BY <1>1, <1>4 DEF Walk
<1>6. Entries' = Entries /\ Matching(walk.query, walk.asOf)' = M
  <2>1. Entries' = Entries
    BY <1>1 DEF Entries
  <2> QED
    BY <1>1, <1>5, <2>1 DEF Matching
<1>7. WalkGrows /\ WalkSoFar
  BY DEF WalkInv
<1>8. WalkGrows'
  BY <1>1, <1>4, <1>5, <1>6, <1>7 DEF WalkGrows
<1>9. \A r : Place(r)' = Place(r)
  BY <1>1, <1>5 DEF Place, Ahead
<1>10. ASSUME Undisturbed'
       PROVE  /\ Undisturbed /\ walk.listed \subseteq M
              /\ IsFiniteSet(M) /\ Cardinality(walk.listed) <= total /\ Cardinality(walk.listed) \in Nat
  <2>1. Undisturbed
    BY <1>1, <1>5, <1>6, <1>10 DEF Undisturbed
  <2>2. walk.listed \subseteq M
    BY <2>1 DEF Undisturbed
  <2> QED
    BY <1>2, <1>3, <2>1, <2>2, AheadFinite, FS_Subset DEF total
<1>11. ASSUME Undisturbed', total = 0
       PROVE  walk.listed = {} /\ walk.entries = {} /\ Len(SoFar) = 0
  <2>1. walk.listed = {}
    BY <1>3, <1>10, <1>11, AheadFinite, FS_EmptySet DEF total
  <2>2. walk.entries = {}
    BY <1>1, <1>7, <2>1 DEF WalkGrows
  <2>3. Len(SoFar) = Min({Covered, Cardinality(walk.entries)})
    BY <1>1, <1>7, <1>10, <1>11, <2>1, <2>2 DEF WalkSoFar
  <2>4. Cardinality(walk.entries) = 0 /\ Covered \in Nat
    BY <1>2, <2>2, FS_EmptySet DEF Covered
  <2> QED
    BY <2>1, <2>2, <2>3, <2>4, LeastOf
<1>12. Covered' = Covered /\ Covered \in Nat
  BY <1>2, <1>5 DEF Covered
<1>13. CASE total = 0
  <2>1. pc' = "listed" /\ walk'.slice = <<>>
    BY <1>1, <1>4, <1>13 DEF Walk
  <2>2. ASSUME Undisturbed'
        PROVE  /\ walk'.entries = {} /\ Cardinality(walk'.listed) <= Covered'
               /\ Len(SoFar') = 0 /\ DOMAIN SoFar' = {}
               /\ Min({Covered', Cardinality(walk'.entries)}) = 0
    <3>1. walk.listed = {} /\ walk.entries = {} /\ Len(SoFar) = 0
      BY <1>11, <1>13, <2>2
    <3>2. walk.collected = <<>>
      <4>1. walk.collected \in Seq(Reservations) /\ walk.slice \in Seq(Reservations)
        BY <1>2
      <4>2. Len(walk.collected \o walk.slice) = 0
        BY <3>1 DEF SoFar
      <4> QED
        BY ONLY <4>1, <4>2, ConcatEmpty, Zenon
    <3>3. SoFar' = <<>>
      BY <1>5, <2>1, <3>2 DEF SoFar
    <3>4. Cardinality(walk'.entries) = 0 /\ Cardinality(walk'.listed) = 0
      BY <1>5, <3>1, FS_EmptySet
    <3>5. Len(SoFar') = 0 /\ DOMAIN SoFar' = {}
      BY <3>3
    <3>6. Min({Covered', Cardinality(walk'.entries)}) = 0
      BY <1>12, <3>4, LeastOf
    <3> QED
      BY <1>5, <1>12, <3>1, <3>4, <3>5, <3>6
  <2> QED
    BY <1>8, <1>12, <2>1, <2>2 DEF WalkInv, WalkSoFar
<1>14. CASE total # 0
  <2>1. pc' = "findParticipants" /\ walk'.slice = walk.slice /\ walk'.total = total
    BY <1>1, <1>4, <1>14 DEF Walk
  <2>2. SoFar' = SoFar
    BY <1>5, <2>1 DEF SoFar
  <2>3. ASSUME Undisturbed', ~ HasNext(walk)'
        PROVE  Cardinality(walk'.listed) <= Covered'
    <3>1. ~ (walk.page < (total + walk.query.limit - 1) \div walk.query.limit)
      BY <1>5, <2>1, <2>3 DEF HasNext, LastPage
    <3>2. total <= Covered
      BY <1>2, <1>3, <3>1, PagesSuffice DEF total, Covered
    <3> QED
      BY <1>3, <1>5, <1>10, <1>12, <2>3, <3>2
  <2>4. ASSUME Undisturbed'
        PROVE  /\ \A r \in walk.entries : Place(r) < Covered => r \in ToSet(SoFar)
               /\ walk.listed = walk.entries =>
                      /\ Len(SoFar) = Min({Covered, Cardinality(walk.entries)})
                      /\ \A i \in DOMAIN SoFar :
                             SoFar[i] \in walk.entries /\ Place(SoFar[i]) = i - 1
    BY <1>1, <1>7, <1>10, <2>4 DEF WalkSoFar
  <2> QED
    BY <1>5, <1>8, <1>9, <1>12, <2>1, <2>2, <2>3, <2>4 DEF WalkInv, WalkSoFar
<1> QED
  BY <1>13, <1>14

\* Answering a page adds its rows to the ones that were shown.
LEMMA AnswerStep ==
    ASSUME TypeOK, WalkInv, FindParticipants
    PROVE  WalkInv'
<1>1. walk \in Walk /\ pc = "findParticipants" /\ pc' = "listed" /\ UNCHANGED tables
  BY DEF TypeOK, FindParticipants
<1>2. /\ walk'.query = walk.query /\ walk'.page = walk.page /\ walk'.asOf = walk.asOf
      /\ walk'.collected = walk.collected \o walk.slice /\ walk'.slice = <<>>
      /\ walk'.entries = walk.entries /\ walk'.listed = walk.listed /\ walk'.moves = walk.moves
      /\ walk'.total = walk.total
  BY <1>1 DEF FindParticipants, Walk
<1>3. SoFar' = SoFar
  <2>1. walk.collected \o walk.slice \in Seq(Reservations)
    BY <1>1 DEF Walk
  <2> QED
    BY <1>2, <2>1, ConcatEmptySeq DEF SoFar
<1>4. Entries' = Entries
  BY <1>1 DEF Entries
<1>5. Matching(walk.query, walk.asOf)' = Matching(walk.query, walk.asOf)
  BY <1>1, <1>2, <1>4 DEF Matching
<1>6. Undisturbed' => Undisturbed
  BY <1>1, <1>2, <1>4, <1>5 DEF Undisturbed
<1>7. \A r : Place(r)' = Place(r)
  BY <1>1, <1>2 DEF Place, Ahead
<1>8. Covered' = Covered /\ (HasNext(walk)' <=> HasNext(walk))
  BY <1>2 DEF Covered, HasNext, LastPage
<1>9. WalkGrows'
  BY <1>1, <1>2, <1>4, <1>5 DEF WalkInv, WalkGrows
<1>10. WalkSoFar'
  BY <1>1, <1>2, <1>3, <1>6, <1>7, <1>8 DEF WalkInv, WalkSoFar
<1> QED
  BY <1>9, <1>10 DEF WalkInv

\* A reservation of the list keeps its time unless it is moved, and newcomers are in
\* none of the lists that were read.
LEMMA ChangeStep ==
    ASSUME TypeOK, RowsFollowReservation, WalkInv, Change, UNCHANGED view
    PROVE  WalkInv'
<1>1. UNCHANGED <<pc, walk>>
  BY DEF view
<1> SUFFICES ASSUME pc \in Listing \union {"listed"}
             PROVE  WalkInv'
  BY <1>1 DEF WalkInv, WalkGrows, WalkSoFar
<1>2. WalkGrows /\ WalkSoFar
  BY DEF WalkInv
<1>3. /\ walk.asOf \in Nat /\ walk.moves \in Nat /\ now \in Nat /\ moves \in Nat
      /\ now' \in Nat /\ moves' \in Nat /\ now <= now' /\ moves <= moves'
  <2>1. walk.asOf \in Times /\ walk.moves \in 0..MaxMoves
    BY DEF TypeOK, Walk
  <2>2. now' \in Times /\ moves' \in 0..MaxMoves
    BY TablesStep DEF TypeOK, TablesTypeOK
  <2>3. Reservations # {} => now <= now' /\ moves <= moves'
    BY TablesGrow DEF TypeOK
  <2>4. Reservations = {} => now <= now' /\ moves <= moves'
    BY DEF Change, Tick, CommitMove, DropMoves, Move, TypeOK, TablesTypeOK, Times
  <2> QED
    BY <2>1, <2>2, <2>3, <2>4, BoundsAssumption DEF TypeOK, TablesTypeOK, Times
<1>4. ASSUME NEW r \in Entries
      PROVE  /\ r \in Reservations /\ r \in Entries'
             /\ moves' = moves => time'[r] = time[r]
  BY TablesGrow DEF TypeOK, RowsFollowReservation, Entries
<1>5. ASSUME walk.moves = moves'
      PROVE  /\ walk.moves = moves
             /\ \A r \in Entries : time'[r] = time[r]
             /\ \A r \in Entries : r \in Matching(walk.query, walk.asOf)'
                                     <=> r \in Matching(walk.query, walk.asOf)
  <2>1. walk.moves = moves /\ moves' = moves
    BY <1>2, <1>3, <1>5 DEF WalkGrows
  <2> QED
    BY <1>1, <1>4, <2>1 DEF Matching
<1>6. WalkGrows'
  <2>1. walk'.asOf <= now' /\ walk'.moves <= moves'
    BY <1>1, <1>2, <1>3 DEF WalkGrows
  <2>2. walk'.entries \subseteq walk'.listed /\ walk'.listed \subseteq Entries'
    BY <1>1, <1>2, <1>4 DEF WalkGrows
  <2>3. walk'.moves = moves' /\ walk'.query.status # "AFTER" =>
            walk'.listed \subseteq Matching(walk.query, walk.asOf)'
    BY <1>1, <1>2, <1>5 DEF WalkGrows
  <2> QED
    BY <2>1, <2>2, <2>3 DEF WalkGrows
<1>7. WalkSoFar'
  <2> SUFFICES ASSUME Undisturbed'
               PROVE  WalkSoFar'
    BY DEF WalkSoFar
  <2>1. walk.moves = moves'
    BY <1>1 DEF Undisturbed
  <2>2. walk.listed \subseteq Entries /\ walk.entries \subseteq walk.listed
    BY <1>2 DEF WalkGrows
  <2>3. Undisturbed
    <3>1. walk.listed \subseteq Matching(walk.query, walk.asOf)
      BY <1>1, <1>5, <2>1, <2>2 DEF Undisturbed
    <3>2. \A r, s \in Entries : time[r] = time[s] => r = s
      BY <1>4, <1>5, <2>1 DEF Undisturbed
    <3> QED
      BY <1>5, <2>1, <3>1, <3>2 DEF Undisturbed
  <2>4. ASSUME NEW r \in walk.listed
        PROVE  Place(r)' = Place(r)
    <3>1. \A s \in walk.listed : time'[s] = time[s]
      BY <1>5, <2>1, <2>2
    <3>2. Ahead(r, walk.listed, walk.query.order)' = Ahead(r, walk.listed, walk.query.order)
      BY <1>1, <2>4, <3>1 DEF Ahead
    <3> QED
      BY <3>2 DEF Place
  <2>5. SoFar' = SoFar /\ Covered' = Covered /\ (HasNext(walk)' <=> HasNext(walk))
    BY <1>1 DEF SoFar, Covered, HasNext, LastPage
  <2>6. /\ \A r \in walk.entries : Place(r) < Covered => r \in ToSet(SoFar)
        /\ walk.listed = walk.entries =>
               /\ Len(SoFar) = Min({Covered, Cardinality(walk.entries)})
               /\ \A i \in DOMAIN SoFar :
                      SoFar[i] \in walk.entries /\ Place(SoFar[i]) = i - 1
        /\ pc # "countPage" /\ ~ HasNext(walk) => Cardinality(walk.listed) <= Covered
        /\ pc = "listed" => walk.slice = <<>>
    BY <1>2, <2>3 DEF WalkSoFar
  <2> QED
    BY <1>1, <2>2, <2>4, <2>5, <2>6 DEF WalkSoFar
<1> QED
  BY <1>6, <1>7 DEF WalkInv

LEMMA WalkStep == IInv /\ WalkInv /\ [Next]_vars => WalkInv'
<1> SUFFICES ASSUME IInv, WalkInv, [Next]_vars
             PROVE  WalkInv'
  OBVIOUS
<1>1. TypeOK /\ RowsFollowReservation
  BY DEF IInv
<1>2. CASE Change /\ UNCHANGED view
  BY <1>1, <1>2, ChangeStep
<1>3. CASE \E query \in Query : ListFirst(query)
  BY <1>1, <1>3, FirstStep
<1>4. CASE ListNext
  BY <1>1, <1>4, NextStep
<1>5. CASE CountPage
  BY <1>1, <1>5, CountStep
<1>6. CASE FindParticipants
  BY <1>1, <1>6, AnswerStep
<1>7. CASE UNCHANGED vars
  <2>1. UNCHANGED tables /\ UNCHANGED <<pc, walk>>
    BY <1>7 DEF vars, view
  <2>2. Entries' = Entries
    BY <2>1 DEF Entries
  <2>3. Matching(walk.query, walk.asOf)' = Matching(walk.query, walk.asOf)
    BY <2>1, <2>2 DEF Matching
  <2>4. Undisturbed' <=> Undisturbed
    BY <2>1, <2>2, <2>3 DEF Undisturbed
  <2>5. \A r : Place(r)' = Place(r)
    BY <2>1 DEF Place, Ahead
  <2>6. SoFar' = SoFar /\ Covered' = Covered /\ (HasNext(walk)' <=> HasNext(walk))
    BY <2>1 DEF SoFar, Covered, HasNext, LastPage
  <2>7. WalkGrows'
    BY <2>1, <2>2, <2>3 DEF WalkInv, WalkGrows
  <2>8. WalkSoFar'
    BY <2>1, <2>4, <2>5, <2>6 DEF WalkInv, WalkSoFar
  <2> QED
    BY <2>7, <2>8 DEF WalkInv
<1>8. ASSUME pc' \notin Listing \union {"listed"}
      PROVE  WalkInv'
  BY <1>8 DEF WalkInv, WalkGrows, WalkSoFar
<1>9. ASSUME NEW r \in Reservations,
             \/ FindDetail(r) \/ FindForMembers(r) \/ FindForResults(r)
             \/ \E u \in Users : FindForPoke(r, u)
      PROVE  pc' \notin Listing \union {"listed"}
  BY <1>9 DEF FindDetail, FindForMembers, FindForResults, FindForPoke, Begin, End
<1>10. ASSUME CountReservations \/ Fail
       PROVE  pc' \notin Listing \union {"listed"}
  BY <1>10 DEF CountReservations, Fail, End
<1>11. ASSUME Advance, ~ CountPage, ~ FindParticipants
       PROVE  pc' \notin Listing \union {"listed"}
  BY <1>11 DEF Advance, FindOwn, CountDetail, AnswerDetail, FindMembers, CheckAccess, FindResults,
               AnswerResults, CountSuccesses, CountNothing, FindMemberships, FindPoked, Send, Read, End
<1> QED
  BY <1>2, <1>3, <1>4, <1>5, <1>6, <1>7, <1>8, <1>9, <1>10, <1>11 DEF Next, Arrive

-------------------------------------------------------------------------------
(* The theorems *)

\* What has been seen of a list that is read page by page: everything with a place
\* before the end of the page in service, and the first rows of it in their order if
\* nobody came in between.
THEOREM WalkInvariance == Spec => []WalkInv
<1>1. Init => WalkInv
  BY DEF Init, WalkInv, WalkGrows, WalkSoFar
<1>2. IInv /\ WalkInv /\ [Next]_vars => WalkInv'
  BY WalkStep
<1> QED
  BY <1>1, <1>2, Invariance, PTL DEF Spec

\* Whoever reads an undisturbed list to its last page has missed nothing of it, and
\* has seen it in order if no page was cut from a longer one.
THEOREM WalksComplete == Spec => []WalkComplete
<1>1. IInv /\ WalkInv => WalkComplete
  <2> SUFFICES ASSUME IInv, WalkInv, pc = "listed", ~ HasNext(walk), Undisturbed
               PROVE  /\ walk.entries \subseteq ToSet(walk.collected)
                      /\ walk.listed = walk.entries =>
                             walk.collected \in Orderings(walk.entries, walk.query.order)
    BY DEF WalkComplete
  <2> DEFINE c == walk.collected
             order == walk.query.order
  <2>1. /\ TypeOK /\ RowsFollowReservation /\ walk \in Walk
        /\ walk.entries \subseteq walk.listed /\ walk.listed \subseteq Entries
    BY DEF IInv, TypeOK, WalkInv, WalkGrows
  <2>2. /\ walk.collected \in Seq(Reservations) /\ walk.query \in Query /\ walk.page \in Nat \ {0}
        /\ walk.entries \in SUBSET Reservations /\ walk.listed \in SUBSET Reservations
    BY <2>1 DEF Walk
  <2>3. walk.slice = <<>> /\ SoFar = c
    BY <2>2, ConcatEmptySeq DEF WalkInv, WalkSoFar, SoFar
  <2>4. Covered \in Nat /\ order \in {"ASC", "DESC"}
    BY <2>2, QueryType DEF Covered
  <2>5. /\ Cardinality(walk.listed) <= Covered
        /\ Cardinality(walk.listed) \in Nat /\ Cardinality(walk.entries) \in Nat
        /\ IsFiniteSet(walk.entries)
    BY <2>2, AheadFinite DEF WalkInv, WalkSoFar
  <2>6. ASSUME NEW r \in walk.entries
        PROVE  r \in ToSet(c)
    <3>1. Place(r) < Cardinality(walk.listed) /\ Place(r) \in Nat
      BY <2>1, <2>2, AheadLess, AheadFinite DEF Place
    <3>2. Place(r) < Covered
      BY <2>4, <2>5, <3>1
    <3> QED
      BY <2>3, <3>2 DEF WalkInv, WalkSoFar
  <2>7. ASSUME walk.listed = walk.entries
        PROVE  c \in Orderings(walk.entries, order)
    <3> DEFINE n == Cardinality(walk.entries)
    <3>1. /\ Len(c) = Min({Covered, n})
          /\ \A i \in DOMAIN c : c[i] \in walk.entries /\ Place(c[i]) = i - 1
      BY <2>3, <2>7 DEF WalkInv, WalkSoFar
    <3>2. Len(c) = n
      BY <2>4, <2>5, <2>7, <3>1, LeastOf
    <3> HIDE DEF n
    <3>3. DOMAIN c = 1..n /\ n \in Nat
      BY <2>2, <2>5, <3>2 DEF n
    <3>4. c \in [1..n -> walk.entries]
      BY <2>2, <3>1, <3>2, <3>3
    <3> HIDE DEF c
    <3> DEFINE place == [r \in walk.entries |-> Place(r)]
    <3>5. \A i \in 1..n : place[c[i]] = i - 1
      BY <3>1, <3>3, <3>4
    <3> HIDE DEF place
    <3>6. \A i, j \in 1..n : i # j => c[i] # c[j]
      BY <3>3, <3>5
    <3>7. c \in SetToSeqs(walk.entries)
      BY <3>4, <3>6 DEF SetToSeqs, n
    <3>8. ASSUME NEW i \in 1..n, NEW j \in 1..n, i < j
          PROVE  InOrder(c[i], c[j], order)
      <4> SUFFICES ASSUME ~ InOrder(c[i], c[j], order)
                   PROVE  FALSE
        OBVIOUS
      <4>1. PICK r \in walk.entries : r = c[i]
        BY <3>4
      <4>2. PICK s \in walk.entries : s = c[j]
        BY <3>4
      <4>3. time[r] \in Nat /\ time[s] \in Nat
        BY <2>1, EntryTimes
      <4>4. ~ InOrder(r, s, order)
        BY <4>1, <4>2
      <4>5. Ahead(s, walk.listed, order) \subseteq Ahead(r, walk.listed, order)
        <5>1. \A t \in walk.listed : time[t] \in Nat
          BY <2>1, EntryTimes
        <5> QED
          BY <2>4, <4>3, <4>4, <5>1 DEF Ahead, InOrder
      <4>6. Place(s) <= Place(r)
        BY <2>2, <4>5, AheadFinite, FS_Subset DEF Place
      <4>7. place[r] = Place(r) /\ place[s] = Place(s)
        BY DEF place
      <4>8. place[r] = i - 1 /\ place[s] = j - 1
        BY <3>5, <4>1, <4>2
      <4> QED
        BY <3>3, <3>8, <4>6, <4>7, <4>8
    <3> QED
      BY <3>2, <3>7, <3>8 DEF Orderings
  <2> QED
    BY <2>6, <2>7
<1> QED
  BY <1>1, Invariance, WalkInvariance, PTL
===============================================================================
