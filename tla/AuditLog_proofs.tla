-------------------------- MODULE AuditLog_proofs ---------------------------
(***************************************************************************)
(* Theorems about the audit log: any writers, readers and kinds of row,    *)
(* any page sizes that AuditAssumption allows, and a table of any bounded  *)
(* size.  The pages are cut by rank: the matching rows have the ranks from *)
(* 0 to total - 1, the list of a query has each at its rank, and page n is *)
(* the ranks whose quotient by per_page is n - 1.                          *)
(***************************************************************************)
EXTENDS AuditLog, FiniteSetTheorems, FunctionTheorems, TLAPS

\* Types, and the bound on the table.
AuditTypeOK ==
  /\ now \in Time
  /\ rows \in Seq(Row) /\ Len(rows) <= MaxRows
  /\ stamped \in [Writer -> Row \cup {Unset}]
  /\ walk \in [Reader -> [query : AuditQuery \cup {Unset}, page : Nat, pages : Nat,
                          seen : SUBSET Nat, owed : SUBSET Nat]]

-----------------------------------------------------------------------------
(* Arithmetic.                                                             *)

\* A quotient is n or more when n whole pages fit.
LEMMA AtLeastTimes ==
  ASSUME NEW a \in Nat, NEW n \in Nat, NEW b \in Nat \ {0}
  PROVE  a \div b \in Nat /\ (n <= a \div b <=> n * b <= a)
  OBVIOUS

\* Page n's ranks are those with quotient n.
LEMMA QuotientIs ==
  ASSUME NEW a \in Nat, NEW n \in Nat, NEW b \in Nat \ {0}
  PROVE  a \div b = n <=> n * b <= a /\ a < n * b + b
<1>1. n * b \in Nat /\ (n + 1) * b = n * b + b
  OBVIOUS
<1>2. n <= a \div b <=> n * b <= a
  BY AtLeastTimes
<1>3. n + 1 <= a \div b <=> (n + 1) * b <= a
  BY AtLeastTimes
<1>4. a \div b \in Nat
  BY AtLeastTimes
<1> QED BY <1>1, <1>2, <1>3, <1>4

\* A product of smaller numbers is smaller.
LEMMA ProductGrows ==
  ASSUME NEW a \in Nat, NEW b \in Nat, NEW c \in Nat, NEW d \in Nat, a <= c, b <= d
  PROVE  a * b \in Nat /\ a * b <= c * d
<1>1. PICK x \in Nat : c = a + x
  BY c - a \in Nat
<1>2. PICK y \in Nat : d = b + y
  BY d - b \in Nat
<1>3. c * d = a * b + a * y + x * b + x * y
  BY <1>1, <1>2
<1>4. a * b \in Nat /\ a * y \in Nat /\ x * b \in Nat /\ x * y \in Nat
  OBVIOUS
<1> QED BY <1>3, <1>4

\* The arithmetic of a u64 wraps no number that it holds.
LEMMA SmallRemainder ==
  ASSUME NEW a \in Nat, NEW m \in Nat, a < m
  PROVE  a % m = a
  OBVIOUS

\* AuditStore::query refuses any other per_page.
LEMMA PerPageIsPositive ==
  ASSUME NEW q \in AuditQuery
  PROVE  q.per_page \in Nat \ {0} /\ q.per_page <= MaxPerPage
<1>1. q.per_page \in PerPage
  BY DEF AuditQuery
<1>2. q.per_page \in 1 .. MaxPerPage
  BY <1>1, AuditAssumption
<1> QED BY <1>2, AuditAssumption

\* As long as an i64 holds it, OFFSET is what the page number asks for.
LEMMA OffsetDoesNotWrap ==
  ASSUME NEW q \in AuditQuery, NEW n \in 1 .. MaxRows + 1
  PROVE  offset(q, n) = (n - 1) * q.per_page /\ offset(q, n) \in Nat
<1>1. q.per_page \in Nat /\ q.per_page <= MaxPerPage
  BY PerPageIsPositive
<1>2. n - 1 \in Nat /\ n - 1 <= MaxRows
  BY AuditAssumption
<1>3. (n - 1) * q.per_page \in Nat /\ (n - 1) * q.per_page <= MaxRows * MaxPerPage
  BY <1>1, <1>2, ProductGrows, AuditAssumption
<1>4. (n - 1) * q.per_page < Half
  BY <1>3, AuditAssumption
<1>5. 2 * Half \in Nat /\ (n - 1) * q.per_page < 2 * Half
  BY <1>3, <1>4, AuditAssumption
<1>6. ((n - 1) * q.per_page) % (2 * Half) = (n - 1) * q.per_page
  BY <1>3, <1>5, SmallRemainder
<1> QED BY <1>3, <1>4, <1>6 DEF offset

-----------------------------------------------------------------------------
(* The order of a page.                                                    *)

\* COUNT(*) is a number, and at most that of all rows.
LEMMA MatchingIsFinite ==
  ASSUME AuditTypeOK, NEW q
  PROVE  /\ Matching(q) \subseteq 1 .. Len(rows)
         /\ IsFiniteSet(Matching(q))
         /\ total(q) \in Nat /\ total(q) <= Len(rows)
<1>1. Len(rows) \in Nat
  BY DEF AuditTypeOK
<1>2. IsFiniteSet(1 .. Len(rows)) /\ Cardinality(1 .. Len(rows)) = Len(rows)
  <2>1. /\ IsFiniteSet(1 .. Len(rows))
        /\ Cardinality(1 .. Len(rows)) = IF 1 > Len(rows) THEN 0 ELSE Len(rows) - 1 + 1
    BY <1>1, FS_Interval
  <2> QED BY <1>1, <2>1
<1>3. Matching(q) \in SUBSET (1 .. Len(rows))
  BY DEF Matching
<1>4. IsFiniteSet(Matching(q)) /\ Cardinality(Matching(q)) <= Len(rows)
  BY <1>2, <1>3, FS_Subset
<1> QED BY <1>3, <1>4, FS_CardinalityType DEF total

\* Before is a strict total order: an id settles what the time leaves open.
LEMMA OrderIsTotal ==
  ASSUME AuditTypeOK, NEW q \in AuditQuery,
         NEW i \in Matching(q), NEW j \in Matching(q), NEW k \in Matching(q)
  PROVE  /\ ~Before(q, i, i)
         /\ Before(q, i, j) /\ Before(q, j, k) => Before(q, i, k)
         /\ i # j => Before(q, i, j) \/ Before(q, j, i)
<1>1. i \in 1 .. Len(rows) /\ j \in 1 .. Len(rows) /\ k \in 1 .. Len(rows)
  BY DEF Matching
<1>2. rows[i] \in Row /\ rows[j] \in Row /\ rows[k] \in Row
  BY <1>1 DEF AuditTypeOK
<1>3. rows[i].ts \in Nat /\ rows[j].ts \in Nat /\ rows[k].ts \in Nat
  BY <1>2, AuditAssumption DEF Row, Time
<1> QED BY <1>1, <1>3 DEF Before, Earlier

\* The rows that come before row i, which its rank counts.
Preceding(q, i) == {j \in Matching(q) : Before(q, j, i)}

\* So ranks are numbers,
LEMMA PrecedingIsFinite ==
  ASSUME AuditTypeOK, NEW q, NEW i
  PROVE  /\ IsFiniteSet(Preceding(q, i))
         /\ Rank(q, i) = Cardinality(Preceding(q, i)) /\ Rank(q, i) \in Nat
<1>1. Preceding(q, i) \in SUBSET Matching(q)
  BY DEF Preceding
<1>2. IsFiniteSet(Preceding(q, i))
  BY <1>1, MatchingIsFinite, FS_Subset
<1> QED BY <1>2, FS_CardinalityType DEF Rank, Preceding

\* below the total, since no row comes before itself,
LEMMA RankIsBelowTotal ==
  ASSUME AuditTypeOK, NEW q \in AuditQuery, NEW i \in Matching(q)
  PROVE  Rank(q, i) < total(q)
<1>1. Preceding(q, i) \in SUBSET Matching(q) /\ i \notin Preceding(q, i)
  BY OrderIsTotal DEF Preceding
<1>2. IsFiniteSet(Matching(q)) /\ total(q) \in Nat /\ Rank(q, i) \in Nat
  BY MatchingIsFinite, PrecedingIsFinite
<1>3. /\ Cardinality(Preceding(q, i)) <= Cardinality(Matching(q))
      /\ Cardinality(Matching(q)) # Cardinality(Preceding(q, i))
  BY <1>1, <1>2, FS_Subset
<1> QED BY <1>2, <1>3, PrecedingIsFinite DEF total

\* and in the order of the rows.
LEMMA RankFollowsOrder ==
  ASSUME AuditTypeOK, NEW q \in AuditQuery,
         NEW i \in Matching(q), NEW j \in Matching(q), Before(q, i, j)
  PROVE  Rank(q, i) < Rank(q, j)
<1>1. Preceding(q, i) \in SUBSET Preceding(q, j)
  BY OrderIsTotal DEF Preceding
<1>2. i \in Preceding(q, j) /\ i \notin Preceding(q, i)
  BY OrderIsTotal DEF Preceding
<1>3. IsFiniteSet(Preceding(q, j)) /\ Rank(q, i) \in Nat /\ Rank(q, j) \in Nat
  BY PrecedingIsFinite
<1>4. /\ Cardinality(Preceding(q, i)) <= Cardinality(Preceding(q, j))
      /\ Cardinality(Preceding(q, j)) # Cardinality(Preceding(q, i))
  BY <1>1, <1>2, <1>3, FS_Subset
<1> QED BY <1>3, <1>4, PrecedingIsFinite

\* Rows have different ranks, so that there is one of each rank below the total.
LEMMA EveryRankIsTaken ==
  ASSUME AuditTypeOK, NEW q \in AuditQuery, NEW k \in 1 .. total(q)
  PROVE  \E i \in Matching(q) : Rank(q, i) = k - 1
<1> DEFINE f == [i \in Matching(q) |-> Rank(q, i) + 1]
<1>1. total(q) \in Nat /\ IsFiniteSet(Matching(q))
  BY MatchingIsFinite
<1>2. IsFiniteSet(1 .. total(q)) /\ Cardinality(1 .. total(q)) = total(q)
  BY <1>1, FS_Interval
<1>3. f \in [Matching(q) -> 1 .. total(q)]
  BY <1>1, RankIsBelowTotal, PrecedingIsFinite
<1>4. ASSUME NEW i \in Matching(q), NEW j \in Matching(q), i # j
      PROVE  f[i] # f[j]
  <2>1. Rank(q, i) \in Nat /\ Rank(q, j) \in Nat
    BY PrecedingIsFinite
  <2>2. Rank(q, i) # Rank(q, j)
    BY <1>4, <2>1, OrderIsTotal, RankFollowsOrder
  <2> QED BY <2>1, <2>2
<1>5. f \in Injection(Matching(q), 1 .. total(q))
  BY <1>3, <1>4 DEF Injection, IsInjective
<1>6. f \in Surjection(Matching(q), 1 .. total(q))
  BY <1>2, <1>5, FS_Injection DEF total
<1>7. PICK i \in Matching(q) : f[i] = k
  BY <1>6 DEF Surjection
<1>8. Rank(q, i) \in Nat /\ Rank(q, i) + 1 = k
  BY <1>7, PrecedingIsFinite
<1> QED BY <1>8

\* So the list of the rows by rank is a sorted one.
LEMMA SortedIsSorted ==
  ASSUME AuditTypeOK, NEW q \in AuditQuery
  PROVE  /\ sorted(q) \in [1 .. total(q) -> Matching(q)]
         /\ \A a, b \in 1 .. total(q) :
              a < b => Before(q, sorted(q)[a], sorted(q)[b])
<1> DEFINE byRank ==
      [k \in 1 .. total(q) |-> CHOOSE i \in Matching(q) : Rank(q, i) = k - 1]
<1>1. ASSUME NEW k \in 1 .. total(q)
      PROVE  byRank[k] \in Matching(q) /\ Rank(q, byRank[k]) = k - 1
  BY EveryRankIsTaken
<1>2. byRank \in [1 .. total(q) -> Matching(q)]
  BY <1>1
<1> HIDE DEF byRank
<1>3. ASSUME NEW a \in 1 .. total(q), NEW b \in 1 .. total(q), a < b
      PROVE  Before(q, byRank[a], byRank[b])
  <2>1. Rank(q, byRank[a]) < Rank(q, byRank[b])
    BY <1>1, <1>3, MatchingIsFinite
  <2>2. byRank[a] # byRank[b] /\ ~Before(q, byRank[b], byRank[a])
    BY <1>1, <2>1, RankFollowsOrder, PrecedingIsFinite
  <2> QED BY <1>1, <2>2, OrderIsTotal
<1>4. \E list \in [1 .. total(q) -> Matching(q)] :
        \A a, b \in 1 .. total(q) : a < b => Before(q, list[a], list[b])
  BY <1>2, <1>3
<1> QED BY <1>4 DEF sorted

\* And a sorted list has every row at its rank: the rows before it in the list are
\* those that come before it.
LEMMA SortedByRank ==
  ASSUME AuditTypeOK, NEW q \in AuditQuery
  PROVE  /\ \A a \in 1 .. total(q) : Rank(q, sorted(q)[a]) = a - 1
         /\ \A i \in Matching(q) : \E a \in 1 .. total(q) : sorted(q)[a] = i
<1> DEFINE s == sorted(q)
<1>1. /\ s \in [1 .. total(q) -> Matching(q)]
      /\ \A a, b \in 1 .. total(q) : a < b => Before(q, s[a], s[b])
  BY SortedIsSorted
<1>2. total(q) \in Nat /\ IsFiniteSet(Matching(q))
  BY MatchingIsFinite
<1> HIDE DEF s
<1>3. ASSUME NEW a \in 1 .. total(q), NEW b \in 1 .. total(q)
      PROVE  Before(q, s[b], s[a]) <=> b < a
  <2>1. CASE b < a
    BY <1>1, <2>1
  <2>2. CASE b = a
    BY <1>1, <1>2, <2>2, OrderIsTotal
  <2>3. CASE a < b
    BY <1>1, <1>2, <2>3, OrderIsTotal
  <2> QED BY <1>2, <2>1, <2>2, <2>3
<1>4. s \in Injection(1 .. total(q), Matching(q))
  <2>1. ASSUME NEW a \in 1 .. total(q), NEW b \in 1 .. total(q), s[a] = s[b]
        PROVE  a = b
    <3>1. ~Before(q, s[a], s[b]) /\ ~Before(q, s[b], s[a])
      BY <1>1, <2>1, OrderIsTotal
    <3> QED BY <1>2, <1>3, <3>1
  <2> QED BY <1>1, <2>1 DEF Injection, IsInjective
<1>5. IsFiniteSet(1 .. total(q)) /\ Cardinality(1 .. total(q)) = total(q)
  BY <1>2, FS_Interval
<1>6. s \in Surjection(1 .. total(q), Matching(q))
  BY <1>2, <1>4, <1>5, FS_Injection DEF total
<1>7. \A i \in Matching(q) : \E a \in 1 .. total(q) : s[a] = i
  BY <1>6 DEF Surjection
<1>8. ASSUME NEW a \in 1 .. total(q) PROVE Rank(q, s[a]) = a - 1
  <2> DEFINE h == [b \in 1 .. a - 1 |-> s[b]]
  <2>1. \A b \in 1 .. a - 1 : b \in 1 .. total(q) /\ b < a
    BY <1>2
  <2>2. h \in [1 .. a - 1 -> Preceding(q, s[a])]
    BY <1>1, <2>1 DEF Preceding
  <2>3. \A j \in Preceding(q, s[a]) : \E b \in 1 .. a - 1 : h[b] = j
    <3> SUFFICES ASSUME NEW j \in Preceding(q, s[a])
                 PROVE  \E b \in 1 .. a - 1 : h[b] = j
      OBVIOUS
    <3>1. PICK b \in 1 .. total(q) : s[b] = j
      BY <1>7 DEF Preceding
    <3>2. b < a
      BY <1>3, <3>1 DEF Preceding
    <3>3. b \in 1 .. a - 1
      BY <1>2, <3>2
    <3> QED BY <3>1, <3>3
  <2>4. \A b, c \in 1 .. a - 1 : h[b] = h[c] => b = c
    BY <1>4, <2>1 DEF Injection, IsInjective
  <2>5. h \in Bijection(1 .. a - 1, Preceding(q, s[a]))
    BY <2>2, <2>3, <2>4 DEF Bijection, Injection, IsInjective, Surjection
  <2>6. IsFiniteSet(1 .. a - 1) /\ Cardinality(1 .. a - 1) = a - 1
    <3>1. a - 1 \in Nat
      BY <1>2
    <3>2. IsFiniteSet(1 .. a - 1)
          /\ Cardinality(1 .. a - 1) = IF 1 > a - 1 THEN 0 ELSE (a - 1) - 1 + 1
      BY <3>1, FS_Interval
    <3> QED BY <3>1, <3>2
  <2>7. Cardinality(Preceding(q, s[a])) = a - 1
    BY <2>5, <2>6, FS_Bijection DEF ExistsBijection
  <2> QED BY <2>7, PrecedingIsFinite
<1> QED BY <1>7, <1>8 DEF s

-----------------------------------------------------------------------------
(* Pages.                                                                  *)

\* Page n has the rows of the ranks from (n - 1) * per_page on, and there is one
\* as long as that is below the total.
LEMMA PageHasItsRanks ==
  ASSUME AuditTypeOK, NEW q \in AuditQuery, NEW n \in 1 .. MaxRows + 1
  PROVE  /\ ToSet(entries(q, n)) =
              {i \in Matching(q) : Rank(q, i) \div q.per_page = n - 1}
         /\ \A a, b \in DOMAIN entries(q, n) :
              a < b => Before(q, entries(q, n)[a], entries(q, n)[b])
<1> DEFINE first == offset(q, n)
           limit == {k \in 1 .. q.per_page : first + k <= total(q)}
<1>1. q.per_page \in Nat \ {0} /\ n - 1 \in Nat
  BY PerPageIsPositive, AuditAssumption
<1>2. first = (n - 1) * q.per_page /\ first \in Nat
  BY OffsetDoesNotWrap
<1>3. total(q) \in Nat
  BY MatchingIsFinite
<1>4. entries(q, n) = [k \in limit |-> sorted(q)[first + k]]
  BY DEF entries
<1> HIDE DEF first
<1>5. \A k \in limit : first + k \in 1 .. total(q)
  BY <1>1, <1>2, <1>3
<1>6. ASSUME NEW k \in limit
      PROVE  /\ entries(q, n)[k] \in Matching(q)
             /\ Rank(q, entries(q, n)[k]) \div q.per_page = n - 1
  <2>1. entries(q, n)[k] = sorted(q)[first + k]
    BY <1>4
  <2>2. entries(q, n)[k] \in Matching(q) /\ Rank(q, entries(q, n)[k]) = first + k - 1
    <3>1. first + k \in 1 .. total(q)
      BY <1>5
    <3>2. sorted(q)[first + k] \in Matching(q)
      BY <3>1, SortedIsSorted
    <3>3. Rank(q, sorted(q)[first + k]) = (first + k) - 1
      BY <3>1, SortedByRank
    <3> QED BY <1>2, <2>1, <3>1, <3>2, <3>3
  <2>3. /\ first + k - 1 \in Nat /\ first <= first + k - 1
        /\ first + k - 1 < first + q.per_page
    BY <1>1, <1>2
  <2> QED BY <1>1, <1>2, <2>2, <2>3, QuotientIs
<1>7. ASSUME NEW i \in Matching(q), Rank(q, i) \div q.per_page = n - 1
      PROVE  \E k \in limit : entries(q, n)[k] = i
  <2>1. PICK a \in 1 .. total(q) : sorted(q)[a] = i
    BY SortedByRank
  <2>2. Rank(q, i) = a - 1 /\ a - 1 \in Nat
    BY <1>3, <2>1, SortedByRank
  <2>3. first <= a - 1 /\ a - 1 < first + q.per_page
    BY <1>1, <1>2, <1>7, <2>2, QuotientIs
  <2>4. a - first \in limit /\ first + (a - first) = a
    BY <1>1, <1>2, <1>3, <2>3
  <2> QED BY <1>4, <2>1, <2>4
<1>8. ASSUME NEW a \in limit, NEW b \in limit, a < b
      PROVE  Before(q, entries(q, n)[a], entries(q, n)[b])
  <2>1. first + a < first + b
    BY <1>1, <1>2, <1>8
  <2> QED BY <1>4, <1>5, <2>1, SortedIsSorted
<1>9. DOMAIN entries(q, n) = limit
  BY <1>4
<1> QED BY <1>6, <1>7, <1>8, <1>9 DEF ToSet

\* `pages` is the number of pages with a row.
LEMMA PagesAreThoseWithRows ==
  ASSUME AuditTypeOK, NEW q \in AuditQuery, NEW n \in 1 .. MaxRows + 1
  PROVE  /\ entries(q, n) # <<>> <=> n <= pages(q)
         /\ pages(q) \in 0 .. MaxRows + 1
<1> DEFINE first == offset(q, n)
           limit == {k \in 1 .. q.per_page : first + k <= total(q)}
<1>1. q.per_page \in Nat \ {0} /\ n - 1 \in Nat /\ MaxRows \in Nat
  BY PerPageIsPositive, AuditAssumption
<1>2. first = (n - 1) * q.per_page /\ first \in Nat
  BY OffsetDoesNotWrap
<1>3. total(q) \in Nat /\ total(q) <= MaxRows
  BY <1>1, MatchingIsFinite DEF AuditTypeOK
<1>4. DOMAIN entries(q, n) = limit
  BY DEF entries
<1> HIDE DEF first
<1>5. limit # {} <=> first + 1 <= total(q)
  BY <1>1, <1>2, <1>3
<1>6. entries(q, n) # <<>> <=> limit # {}
  <2>1. entries(q, n) = [k \in limit |-> sorted(q)[first + k]]
    BY DEF entries, first
  <2> QED BY <2>1
<1>7. CASE total(q) = 0
  BY <1>1, <1>2, <1>5, <1>6, <1>7 DEF pages
<1>8. CASE total(q) # 0
  <2> DEFINE last == (total(q) - 1) \div q.per_page
  <2>1. total(q) - 1 \in Nat
    BY <1>3, <1>8
  <2>2. last \in Nat /\ (n - 1 <= last <=> first <= total(q) - 1)
    BY <1>1, <1>2, <2>1, AtLeastTimes
  <2>3. last <= total(q) - 1
    BY <1>1, <2>1
  <2>4. pages(q) = last + 1
    BY <1>8 DEF pages
  <2> HIDE DEF last
  <2>5. n <= pages(q) <=> n - 1 <= last
    BY <2>2, <2>4
  <2>6. n - 1 <= last <=> first + 1 <= total(q)
    BY <1>2, <1>3, <2>2
  <2>7. pages(q) \in 0 .. MaxRows + 1
    BY <1>1, <1>3, <2>2, <2>3, <2>4
  <2> QED BY <1>5, <1>6, <2>5, <2>6, <2>7
<1> QED BY <1>7, <1>8

\* What a reader has not seen of what there was when it began lies on the pages
\* that it has still to ask for, and it knows that they exist.
WalkOK ==
  \A r \in Reader : LET w == walk[r] IN
    w.query # Unset =>
      /\ w.page >= 1 /\ w.pages <= MaxRows + 1
      /\ w.owed \subseteq Matching(w.query)
      /\ \A i \in w.owed \ w.seen :
           (w.page - 1) * w.query.per_page <= Rank(w.query, i) /\ w.page <= w.pages

\* What every step preserves.
AuditInv == AuditTypeOK /\ WalkOK

\* Nobody reads an empty log.
LEMMA AuditInitInv == AuditInit => AuditInv
<1> SUFFICES ASSUME AuditInit PROVE AuditInv
  OBVIOUS
<1>1. AuditTypeOK
  BY AuditAssumption DEF AuditInit, AuditTypeOK, NoWalk, Time
<1>2. WalkOK
  BY DEF AuditInit, WalkOK, NoWalk
<1> QED BY <1>1, <1>2 DEF AuditInv

\* As long as the table stays, so do matches and ranks.
LEMMA RanksStay ==
  ASSUME UNCHANGED rows, NEW q
  PROVE  /\ Matching(q)' = Matching(q)
         /\ \A i : Rank(q, i)' = Rank(q, i)
<1>1. Matching(q)' = Matching(q)
  BY DEF Matching, build_where
<1> QED BY <1>1 DEF Rank, Before, Earlier

\* A row that comes in moves others to later pages at most.
LEMMA RankNeverDecreases ==
  ASSUME AuditTypeOK, AuditTypeOK', NEW row \in Row, rows' = Append(rows, row),
         NEW q \in AuditQuery, NEW i \in Matching(q)
  PROVE  /\ i \in Matching(q)'
         /\ Rank(q, i) \in Nat /\ Rank(q, i)' \in Nat /\ Rank(q, i) <= Rank(q, i)'
<1>1. /\ rows \in Seq(Row) /\ Len(rows) \in Nat /\ Len(rows') = Len(rows) + 1
      /\ \A j \in 1 .. Len(rows) : rows'[j] = rows[j]
  BY DEF AuditTypeOK
<1>2. \A j \in Matching(q) : j \in Matching(q)'
  BY <1>1 DEF Matching, build_where
<1>3. \A j \in Matching(q) : Before(q, j, i) => Before(q, j, i)'
  BY <1>1 DEF Matching, Before, Earlier
<1>4. Preceding(q, i) \in SUBSET Preceding(q, i)'
  BY <1>2, <1>3 DEF Preceding
<1>5. IsFiniteSet(Preceding(q, i)')
  <2>1. Len(rows') \in Nat /\ Preceding(q, i)' \in SUBSET (1 .. Len(rows'))
    BY <1>1 DEF Preceding, Matching
  <2>2. IsFiniteSet(1 .. Len(rows'))
    BY <2>1, FS_Interval
  <2> QED BY <2>1, <2>2, FS_Subset
<1>6. Rank(q, i)' = Cardinality(Preceding(q, i)')
  BY DEF Rank, Preceding
<1>7. Rank(q, i)' \in Nat /\ Rank(q, i) <= Rank(q, i)'
  BY <1>4, <1>5, <1>6, FS_Subset, FS_CardinalityType, PrecedingIsFinite
<1> QED BY <1>2, <1>7, PrecedingIsFinite

\* A reader asks for page n: what it still misses has a rank of n * per_page or
\* more, and so page n + 1 exists.
LEMMA NextPageExists ==
  ASSUME AuditTypeOK, NEW q \in AuditQuery, NEW n \in 1 .. MaxRows + 1,
         NEW i \in Matching(q), i \notin ToSet(entries(q, n)),
         (n - 1) * q.per_page <= Rank(q, i)
  PROVE  n * q.per_page <= Rank(q, i) /\ n + 1 <= pages(q)
<1>1. q.per_page \in Nat \ {0} /\ n \in Nat /\ n - 1 \in Nat
  BY PerPageIsPositive, AuditAssumption
<1>2. Rank(q, i) \in Nat /\ total(q) \in Nat /\ Rank(q, i) < total(q)
  BY PrecedingIsFinite, MatchingIsFinite, RankIsBelowTotal
<1>3. Rank(q, i) \div q.per_page # n - 1
  BY PageHasItsRanks
<1>4. n - 1 <= Rank(q, i) \div q.per_page /\ Rank(q, i) \div q.per_page \in Nat
  BY <1>1, <1>2, AtLeastTimes
<1>5. n <= Rank(q, i) \div q.per_page
  BY <1>1, <1>3, <1>4
<1>6. n * q.per_page <= Rank(q, i) /\ n * q.per_page \in Nat
  BY <1>1, <1>2, <1>5, AtLeastTimes
<1>7. total(q) - 1 \in Nat /\ n * q.per_page <= total(q) - 1
  BY <1>2, <1>6
<1>8. /\ n <= (total(q) - 1) \div q.per_page
      /\ (total(q) - 1) \div q.per_page \in Nat
  BY <1>1, <1>7, AtLeastTimes
<1> QED BY <1>1, <1>2, <1>6, <1>8 DEF pages

\* Every step preserves the invariant: log, since rows never move to an earlier
\* page, and list_audit, since an unseen row is on a later one.
LEMMA AuditNextInv == AuditInv /\ [AuditNext]_auditVars => AuditInv'
<1> SUFFICES ASSUME AuditInv, [AuditNext]_auditVars PROVE AuditInv'
  OBVIOUS
<1> USE AuditAssumption DEF AuditInv
<1>1. CASE UNCHANGED <<rows, walk>> /\ AuditTypeOK'
  <2>1. WalkOK'
    BY <1>1, RanksStay DEF WalkOK
  <2> QED BY <1>1, <2>1
<1>2. CASE UNCHANGED auditVars
  BY <1>1, <1>2 DEF auditVars, AuditTypeOK
<1>3. ASSUME NEW w \in Writer, NEW k \in Kind, Stamp(w, k) PROVE AuditInv'
  <2>1. [ts |-> now, kind |-> k] \in Row
    BY DEF AuditTypeOK, Row
  <2> QED BY <1>1, <1>3, <2>1 DEF Stamp, AuditTypeOK
<1>4. ASSUME NEW w \in Writer, log(w) PROVE AuditInv'
  <2>1. stamped[w] \in Row /\ rows' = Append(rows, stamped[w])
    BY <1>4 DEF log, AuditTypeOK
  <2>2. AuditTypeOK'
    BY <1>4, <2>1 DEF log, AuditTypeOK
  <2>3. WalkOK'
    <3> SUFFICES ASSUME NEW r \in Reader, NEW q, q = walk[r].query, q # Unset
                 PROVE  /\ walk[r].page >= 1 /\ walk[r].pages <= MaxRows + 1
                        /\ walk[r].owed \subseteq Matching(q)'
                        /\ \A i \in walk[r].owed \ walk[r].seen :
                             /\ (walk[r].page - 1) * q.per_page <= Rank(q, i)'
                             /\ walk[r].page <= walk[r].pages
      BY <1>4 DEF WalkOK, log
    <3>1. q \in AuditQuery /\ walk[r].page \in Nat
      BY DEF AuditTypeOK
    <3>2. /\ walk[r].page >= 1 /\ walk[r].pages <= MaxRows + 1
          /\ walk[r].owed \subseteq Matching(q)
          /\ \A i \in walk[r].owed \ walk[r].seen :
               /\ (walk[r].page - 1) * q.per_page <= Rank(q, i)
               /\ walk[r].page <= walk[r].pages
      BY DEF WalkOK
    <3>3. ASSUME NEW i \in Matching(q)
          PROVE  /\ i \in Matching(q)'
                 /\ Rank(q, i) \in Nat /\ Rank(q, i)' \in Nat
                 /\ Rank(q, i) <= Rank(q, i)'
      BY <2>1, <2>2, <3>1, RankNeverDecreases
    <3>4. ASSUME NEW i \in walk[r].owed \ walk[r].seen
          PROVE  (walk[r].page - 1) * q.per_page <= Rank(q, i)'
      <4>1. q.per_page \in Nat /\ walk[r].page - 1 \in Nat
        BY <3>1, <3>2, PerPageIsPositive
      <4>2. (walk[r].page - 1) * q.per_page \in Nat
        BY <4>1
      <4> QED BY <3>2, <3>3, <4>2
    <3> QED BY <3>2, <3>3, <3>4
  <2> QED BY <2>2, <2>3
<1>5. ASSUME NEW w \in Writer, LogFails(w) PROVE AuditInv'
  BY <1>1, <1>5 DEF LogFails, AuditTypeOK
<1>6. ASSUME NEW r \in Reader, NEW q \in AuditQuery, StartWalk(r, q) PROVE AuditInv'
  <2>1. Matching(q) \subseteq Nat
    BY MatchingIsFinite DEF AuditTypeOK
  <2>2. AuditTypeOK'
    BY <1>6, <2>1 DEF StartWalk, AuditTypeOK
  <2>3. \A i \in Matching(q) : (1 - 1) * q.per_page <= Rank(q, i)
    BY PrecedingIsFinite, PerPageIsPositive
  <2>4. WalkOK'
    BY <1>6, <2>3, RanksStay DEF StartWalk, WalkOK, AuditTypeOK
  <2> QED BY <2>2, <2>4
<1>7. ASSUME NEW r \in Reader, list_audit(r) PROVE AuditInv'
  <2> DEFINE w == walk[r]
             q == w.query
  <2>1. q \in AuditQuery /\ w.page \in Nat /\ w.page <= w.pages /\ w.pages \in Nat
    BY <1>7 DEF list_audit, AuditTypeOK
  <2>2. /\ w.page \in 1 .. MaxRows + 1
        /\ w.owed \subseteq Matching(q)
        /\ \A i \in w.owed \ w.seen : (w.page - 1) * q.per_page <= Rank(q, i)
    BY <1>7, <2>1 DEF WalkOK, list_audit
  <2>3. walk' = [walk EXCEPT ![r].seen = @ \cup ToSet(entries(q, w.page)),
                             ![r].page = @ + 1,
                             ![r].pages = pages(q)]
    BY <1>7 DEF list_audit
  <2> HIDE DEF w, q
  <2>4. pages(q) \in 0 .. MaxRows + 1
    BY <2>1, <2>2, PagesAreThoseWithRows
  <2>5. ToSet(entries(q, w.page)) \subseteq Nat
    <3>1. ToSet(entries(q, w.page)) \subseteq Matching(q)
      BY <2>1, <2>2, PageHasItsRanks
    <3> QED BY <3>1, MatchingIsFinite DEF AuditTypeOK
  <2>6. AuditTypeOK'
    <3>1. walk[r].seen \cup ToSet(entries(q, w.page)) \in SUBSET Nat
          /\ walk[r].page + 1 \in Nat /\ pages(q) \in Nat
      BY <2>4, <2>5 DEF AuditTypeOK
    <3> DEFINE Walks == [query : AuditQuery \cup {Unset}, page : Nat, pages : Nat,
                         seen : SUBSET Nat, owed : SUBSET Nat]
               asked == [walk[r] EXCEPT
                           !.seen = walk[r].seen \cup ToSet(entries(q, w.page)),
                           !.page = walk[r].page + 1,
                           !.pages = pages(q)]
    <3>2. asked \in Walks
      BY <3>1 DEF AuditTypeOK
    <3>3. walk' = [walk EXCEPT ![r] = asked]
      BY <2>3
    <3>4. walk \in [Reader -> Walks]
      BY DEF AuditTypeOK
    <3> HIDE DEF asked
    <3>5. walk' \in [Reader -> Walks]
      BY <3>2, <3>3, <3>4
    <3>6. now' = now /\ rows' = rows /\ stamped' = stamped
      BY <1>7 DEF list_audit
    <3> QED BY <3>5, <3>6 DEF AuditTypeOK
  <2>7. \A i \in w.owed \ (w.seen \cup ToSet(entries(q, w.page))) :
          w.page * q.per_page <= Rank(q, i) /\ w.page + 1 <= pages(q)
    BY <2>1, <2>2, NextPageExists
  <2>8. /\ walk'[r].query = q /\ walk'[r].page = w.page + 1 /\ walk'[r].pages = pages(q)
        /\ walk'[r].owed = w.owed
        /\ walk'[r].seen = w.seen \cup ToSet(entries(q, w.page))
        /\ \A s \in Reader : s # r => walk'[s] = walk[s]
    BY <2>3 DEF AuditTypeOK, w, q
  <2>9. rows' = rows
    BY <1>7 DEF list_audit
  <2>10. \A x : Matching(x)' = Matching(x) /\ \A i : Rank(x, i)' = Rank(x, i)
    BY <2>9, RanksStay
  <2>11. w.page + 1 - 1 = w.page /\ w.page + 1 >= 1
    BY <2>1
  <2>12. WalkOK'
    <3> SUFFICES ASSUME NEW s \in Reader, walk'[s].query # Unset
                 PROVE  LET v == walk'[s] IN
                   /\ v.page >= 1 /\ v.pages <= MaxRows + 1
                   /\ v.owed \subseteq Matching(v.query)
                   /\ \A i \in v.owed \ v.seen :
                        /\ (v.page - 1) * v.query.per_page <= Rank(v.query, i)
                        /\ v.page <= v.pages
      BY <2>10 DEF WalkOK
    <3>1. CASE s = r
      BY <2>2, <2>4, <2>7, <2>8, <2>11, <3>1
    <3>2. CASE s # r
      BY <2>8, <3>2 DEF WalkOK
    <3> QED BY <3>1, <3>2
  <2> QED BY <2>6, <2>12
<1>8. ASSUME NEW r \in Reader, EndWalk(r) PROVE AuditInv'
  <2>1. AuditTypeOK'
    BY <1>8 DEF EndWalk, AuditTypeOK, NoWalk
  <2>2. WalkOK'
    BY <1>8, RanksStay DEF EndWalk, WalkOK, AuditTypeOK, NoWalk
  <2> QED BY <2>1, <2>2
<1>9. CASE Restart
  BY <1>1, <1>9 DEF Restart, AuditTypeOK
<1>10. CASE Tick
  BY <1>1, <1>10 DEF Tick, AuditTypeOK, Time
<1> QED
  BY <1>2, <1>3, <1>4, <1>5, <1>6, <1>7, <1>8, <1>9, <1>10 DEF AuditNext

\* The invariant holds in every reachable state.
THEOREM AuditInvariant == AuditSpec => []AuditInv
  BY AuditInitInv, AuditNextInv, PTL DEF AuditSpec

\* Whatever is filtered, in either direction, and however many rows share a
\* second, the pages of AuditStore::query cut the table: each holds the matching
\* rows of its ranks, in order, and `pages` counts them.
THEOREM PagesCutTheTable == AuditSpec => []PagesPartition
<1>1. AuditInv => PagesPartition
  <2> SUFFICES ASSUME AuditInv, NEW r \in Reader, walk[r].query # Unset,
                      NEW n \in 1 .. MaxRows + 1
               PROVE  LET q == walk[r].query
                          page == entries(q, n)
                      IN /\ ToSet(page) =
                              {i \in Matching(q) : Rank(q, i) \div q.per_page = n - 1}
                         /\ \A a, b \in DOMAIN page :
                              a < b => Before(q, page[a], page[b])
                         /\ page # <<>> <=> n <= pages(q)
    BY DEF PagesPartition
  <2>1. AuditTypeOK /\ walk[r].query \in AuditQuery
    BY DEF AuditInv, AuditTypeOK
  <2> QED BY <2>1, PageHasItsRanks, PagesAreThoseWithRows
<1> QED BY <1>1, AuditInvariant, PTL

\* A reader who goes from page to page until list_audit says that there is no
\* other has seen every matching row that was there when it began, whatever was
\* logged meanwhile.
THEOREM WalksMissNothing == AuditSpec => []WalkMissesNothing
<1>1. AuditInv => WalkMissesNothing
  <2> SUFFICES ASSUME AuditInv, NEW r \in Reader, Finished(r)
               PROVE  walk[r].owed \subseteq walk[r].seen
    BY DEF WalkMissesNothing
  <2>1. walk[r].query # Unset /\ walk[r].page > walk[r].pages
    BY DEF Finished
  <2>2. walk[r].page \in Nat /\ walk[r].pages \in Nat
    BY DEF AuditInv, AuditTypeOK
  <2> QED BY <2>1, <2>2 DEF AuditInv, WalkOK
<1> QED BY <1>1, AuditInvariant, PTL
=============================================================================
