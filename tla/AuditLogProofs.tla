--------------------------- MODULE AuditLogProofs ---------------------------
(***************************************************************************)
(* Proofs about the reader of the audit log, for every page size and every  *)
(* number of rows: what a reader has not got yet stays below the boundary   *)
(* of its pages, and at most one row crosses it for each row written.       *)
(***************************************************************************)
EXTENDS AuditLog, FiniteSetTheorems, TLAPS

\* The table is finite and its time stamps are numbers, each of one row.
LogOK ==
    /\ IsFiniteSet(log)
    /\ \A r \in log : r.stamp \in Nat
    /\ \A r, q \in log : r.stamp = q.stamp => r = q

\* A row with a new stamp, in any place of the order, is written.
Appends(r) == log' = log \cup {r} /\ LogOK' /\ r \notin log

\* The rows above a boundary, and those that the reader got and that lie below it.
Above(k) == {r \in log : Rank(r) < k}
Sunk(k) == {r \in seen : Rank(r) >= k}

\* What the reader knows: its rows are rows, and each repeated row, as each one
\* that will be, was pushed down by another.
ReaderInv ==
    /\ LogOK
    /\ page \in Nat /\ repeats \in Nat
    /\ seen \subseteq log /\ target \subseteq log
    /\ page = 0 => seen = {} /\ repeats = 0
    /\ page > 0 => repeats + Cardinality(Sunk(page * PageSize)) + Cardinality(target)
                      <= Cardinality(log)
    /\ NothingSkipped

-----------------------------------------------------------------------------
\* The rank of a row is a number, and a newer row has a smaller one.
LEMMA Ranks ==
    ASSUME LogOK
    PROVE  /\ \A r \in log : Rank(r) \in Nat
           /\ \A r, q \in log : q.stamp > r.stamp => Rank(q) < Rank(r)
           /\ \A r, q \in log : Rank(q) = Rank(r) => q = r
<1>1. ASSUME NEW r \in log PROVE Newer(r) \in SUBSET log /\ Rank(r) \in Nat
  <2>1. Newer(r) \in SUBSET log
    BY DEF Newer
  <2>2. IsFiniteSet(Newer(r))
    BY <2>1, FS_Subset DEF LogOK
  <2>3. QED
    BY <2>1, <2>2, FS_CardinalityType DEF Rank
<1>2. ASSUME NEW r \in log, NEW q \in log, q.stamp > r.stamp PROVE Rank(q) < Rank(r)
  <2>1. Newer(q) \in SUBSET Newer(r)
    BY <1>2 DEF Newer, LogOK
  <2>2. q \in Newer(r) /\ q \notin Newer(q)
    BY <1>2 DEF Newer, LogOK
  <2>3. IsFiniteSet(Newer(r))
    BY <1>1, FS_Subset DEF LogOK
  <2>4. /\ Cardinality(Newer(q)) <= Cardinality(Newer(r))
        /\ Cardinality(Newer(r)) = Cardinality(Newer(q)) => Newer(r) = Newer(q)
    BY <2>1, <2>3, FS_Subset
  <2>5. QED
    BY <1>1, <2>2, <2>4 DEF Rank
<1>3. ASSUME NEW r \in log, NEW q \in log, Rank(q) = Rank(r) PROVE q = r
  <2>1. ~(q.stamp > r.stamp) /\ ~(r.stamp > q.stamp)
    BY <1>1, <1>2, <1>3
  <2>2. r.stamp \in Nat /\ q.stamp \in Nat
    BY DEF LogOK
  <2>3. QED
    BY <2>1, <2>2 DEF LogOK
<1>4. QED
  BY <1>1, <1>2, <1>3

\* A set of rows has a newest one ...
LEMMA Newest ==
    ASSUME LogOK, NEW X \in SUBSET log, X # {}
    PROVE  \E r \in X : Newer(r) \cap X = {}
<1> DEFINE T == {Newer(r) : r \in X}
<1>1. T \subseteq FiniteSubsetsOf(log)
  BY FS_FiniteSubsetsOfFinite DEF LogOK, Newer
<1>2. T # {}
  OBVIOUS
<1>3. PICK S \in T : \A R \in T : ~(<<R, S>> \in StrictSubsetOrdering(log))
  <2> HIDE DEF T
  <2>1. QED
    BY <1>1, <1>2, FS_StrictSubsetOrderingWellFounded, WFMin
<1>4. PICK r \in X : S = Newer(r)
  BY <1>3
<1>5. ASSUME NEW q \in X, q \in Newer(r) PROVE FALSE
  <2>1. Newer(q) \subseteq Newer(r) /\ q \notin Newer(q)
    BY <1>5 DEF Newer, LogOK
  <2>2. <<Newer(q), Newer(r)>> \in StrictSubsetOrdering(log)
    BY <1>5, <2>1 DEF StrictSubsetOrdering, Newer
  <2>3. QED
    BY <1>3, <1>4, <2>2
<1>6. QED
  BY <1>5

\* ... and an oldest one.
LEMMA Oldest ==
    ASSUME LogOK, NEW X \in SUBSET log, X # {}
    PROVE  \E r \in X : \A q \in X : q = r \/ q \in Newer(r)
<1> DEFINE Older(r) == {q \in log : q.stamp < r.stamp}
<1> DEFINE T == {Older(r) : r \in X}
<1>1. T \subseteq FiniteSubsetsOf(log)
  BY FS_FiniteSubsetsOfFinite DEF LogOK
<1>2. T # {}
  OBVIOUS
<1>3. PICK S \in T : \A R \in T : ~(<<R, S>> \in StrictSubsetOrdering(log))
  <2> HIDE DEF T
  <2>1. QED
    BY <1>1, <1>2, FS_StrictSubsetOrderingWellFounded, WFMin
<1>4. PICK r \in X : S = Older(r)
  BY <1>3
<1>5. ASSUME NEW q \in X, q.stamp < r.stamp PROVE FALSE
  <2>1. Older(q) \subseteq Older(r) /\ q \in Older(r) /\ q \notin Older(q)
    BY <1>5 DEF LogOK
  <2>2. <<Older(q), Older(r)>> \in StrictSubsetOrdering(log)
    BY <1>5, <2>1 DEF StrictSubsetOrdering
  <2>3. QED
    BY <1>3, <1>4, <2>2
<1>6. QED
  BY <1>5 DEF LogOK, Newer

\* At most k rows have a rank below k ...
LEMMA AboveAtMost ==
    ASSUME LogOK, NEW k \in Nat
    PROVE  IsFiniteSet(Above(k)) /\ Cardinality(Above(k)) <= k
<1>1. Above(k) \in SUBSET log
  BY DEF Above
<1>2. IsFiniteSet(Above(k))
  BY <1>1, FS_Subset DEF LogOK
<1>3. CASE Above(k) = {}
  BY <1>3, FS_EmptySet
<1>4. CASE Above(k) # {}
  <2>1. PICK r \in Above(k) : \A q \in Above(k) : q = r \/ q \in Newer(r)
    BY <1>1, <1>4, Oldest
  <2>2. Newer(r) \in SUBSET log /\ IsFiniteSet(Newer(r))
    BY FS_Subset DEF LogOK, Newer
  <2>3. Above(k) \in SUBSET (Newer(r) \cup {r})
    BY <2>1
  <2>4. /\ IsFiniteSet(Newer(r) \cup {r})
        /\ Cardinality(Newer(r) \cup {r}) <= Cardinality(Newer(r)) + 1
    <3>1. r \notin Newer(r)
      BY DEF Newer, LogOK, Above
    <3>2. Cardinality(Newer(r)) \in Nat
      BY <2>2, FS_CardinalityType
    <3>3. /\ IsFiniteSet(Newer(r) \cup {r})
          /\ Cardinality(Newer(r) \cup {r}) = Cardinality(Newer(r)) + 1
      BY <2>2, <3>1, FS_AddElement, Zenon
    <3>4. QED
      BY <3>2, <3>3
  <2>5. Cardinality(Above(k)) <= Cardinality(Newer(r)) + 1
    BY <2>2, <2>3, <2>4, <1>2, FS_Subset, FS_CardinalityType
  <2>6. Cardinality(Newer(r)) < k /\ Cardinality(Newer(r)) \in Nat
    BY <2>1, <2>2, FS_CardinalityType DEF Above, Rank
  <2>7. QED
    BY <1>2, <2>5, <2>6, FS_CardinalityType
<1>5. QED
  BY <1>2, <1>3, <1>4

\* ... and at least k, unless they are all.
LEMMA AboveAtLeast ==
    ASSUME LogOK, NEW k \in Nat, NEW r \in log, Rank(r) >= k
    PROVE  Cardinality(Above(k)) >= k
<1> DEFINE X == log \ Above(k)
<1>1. r \in X
  BY Ranks DEF Above
<1>2. PICK q \in X : Newer(q) \cap X = {}
  BY <1>1, Newest
<1>3. Newer(q) \in SUBSET Above(k)
  BY <1>2 DEF Newer
<1>4. Rank(q) >= k
  BY Ranks DEF Above
<1>5. Cardinality(Newer(q)) <= Cardinality(Above(k))
  BY <1>3, AboveAtMost, FS_Subset
<1>6. QED
  BY <1>4, <1>5, AboveAtMost, FS_CardinalityType, Ranks DEF Rank

\* A page is what is above its end and not above its begin.
LEMMA PageIsDifference ==
    ASSUME LogOK, NEW p \in Nat
    PROVE  /\ Page(p + 1) = Above((p + 1) * PageSize) \ Above(p * PageSize)
           /\ Above(p * PageSize) \subseteq Above((p + 1) * PageSize)
           /\ p * PageSize \in Nat /\ (p + 1) * PageSize = p * PageSize + PageSize
           /\ Page(p + 1) \in SUBSET log /\ IsFiniteSet(Page(p + 1))
<1> DEFINE k == p * PageSize
<1>1. PageSize \in Nat /\ k \in Nat /\ (p + 1) * PageSize = k + PageSize /\ p + 1 - 1 = p
  BY PageSizeIsPositive
<1>2. (p + 1 - 1) * PageSize = k
  BY <1>1
<1> HIDE DEF k
<1>3. Page(p + 1) = {r \in log : Rank(r) >= k /\ Rank(r) < k + PageSize}
  BY <1>1, <1>2 DEF Page
<1>4. \A r \in log : Rank(r) \in Nat
  BY Ranks
<1>5. Page(p + 1) = Above(k + PageSize) \ Above(k) /\ Above(k) \subseteq Above(k + PageSize)
  BY <1>1, <1>3, <1>4 DEF Above
<1>6. IsFiniteSet(Page(p + 1))
  BY <1>3, FS_Subset DEF LogOK
<1>7. QED
  BY <1>1, <1>3, <1>5, <1>6 DEF k

\* A short page is the last one: rows below it would have filled it.
LEMMA ShortPageIsLast ==
    ASSUME LogOK, NEW p \in Nat, NEW r \in log, Rank(r) >= (p + 1) * PageSize
    PROVE  Cardinality(Page(p + 1)) >= PageSize
<1> DEFINE Below == Above(p * PageSize)
           Until == Above((p + 1) * PageSize)
<1>1. p * PageSize \in Nat /\ (p + 1) * PageSize \in Nat /\ (p + 1) * PageSize = p * PageSize + PageSize
  BY PageSizeIsPositive
<1>2. /\ IsFiniteSet(Below) /\ Cardinality(Below) <= p * PageSize
      /\ IsFiniteSet(Until)
  BY <1>1, AboveAtMost
<1>3. Cardinality(Until) >= (p + 1) * PageSize
  BY <1>1, AboveAtLeast
<1>4. Page(p + 1) = Until \ Below /\ Below \subseteq Until
  BY PageIsDifference
<1>5. Cardinality(Page(p + 1)) = Cardinality(Until) - Cardinality(Below)
  <2>1. Until \cap Below = Below
    BY <1>4
  <2>2. QED
    BY <1>2, <1>4, <2>1, FS_Difference
<1> HIDE DEF Below, Until
<1>6. Cardinality(Below) \in Nat /\ Cardinality(Until) \in Nat /\ PageSize \in Nat
  BY <1>2, FS_CardinalityType, PageSizeIsPositive
<1>7. QED
  BY <1>1, <1>2, <1>3, <1>5, <1>6

-----------------------------------------------------------------------------
\* A new row pushes a row down by one place, or not at all.
LEMMA AppendedRanks ==
    ASSUME LogOK, NEW x, Appends(x), NEW r \in log
    PROVE  Rank(r)' \in {Rank(r), Rank(r) + 1}
<1>1. IsFiniteSet(Newer(r)) /\ x \notin Newer(r)
  BY FS_Subset DEF LogOK, Newer, Appends
<1>2. CASE x.stamp > r.stamp
  <2>1. Newer(r)' = Newer(r) \cup {x}
    BY <1>2 DEF Newer, Appends
  <2>2. Cardinality(Newer(r) \cup {x}) = Cardinality(Newer(r)) + 1
    BY <1>1, FS_AddElement, Zenon
  <2>3. QED
    BY <2>1, <2>2 DEF Rank
<1>3. CASE ~(x.stamp > r.stamp)
  <2>1. Newer(r)' = Newer(r)
    BY <1>3 DEF Newer, Appends
  <2>2. QED
    BY <2>1 DEF Rank
<1>4. QED
  BY <1>2, <1>3

\* One row at most crosses a boundary when a row is written.
LEMMA AppendedSunk ==
    ASSUME LogOK, seen \subseteq log, seen' = seen, NEW x, Appends(x), NEW k \in Nat
    PROVE  Cardinality(Sunk(k)') <= Cardinality(Sunk(k)) + 1
<1>1. IsFiniteSet(Sunk(k)) /\ Cardinality(Sunk(k)) \in Nat
  BY FS_Subset, FS_CardinalityType DEF LogOK, Sunk
<1>2. \A r \in seen : Rank(r) \in Nat /\ Rank(r)' \in {Rank(r), Rank(r) + 1}
  BY AppendedRanks, Ranks
<1>3. \A r \in Sunk(k)' : r \in Sunk(k) \/ (r \in log /\ Rank(r) + 1 = k)
  BY <1>2 DEF Sunk
<1>4. CASE \E q \in log : Rank(q) + 1 = k
  <2>1. PICK q \in log : Rank(q) + 1 = k
    BY <1>4
  <2>2. \A r \in log : Rank(r) + 1 = k => r = q
    <3>1. \A r \in log : Rank(r) \in Nat
      BY Ranks
    <3>2. \A r \in log : Rank(r) + 1 = k => Rank(r) = Rank(q)
      BY <2>1, <3>1
    <3>3. QED
      BY <3>2, Ranks
  <2>3. Sunk(k)' \in SUBSET (Sunk(k) \cup {q})
    BY <1>3, <2>2
  <2>4. /\ IsFiniteSet(Sunk(k) \cup {q})
        /\ Cardinality(Sunk(k) \cup {q})
              = IF q \in Sunk(k) THEN Cardinality(Sunk(k)) ELSE Cardinality(Sunk(k)) + 1
    BY <1>1, FS_AddElement, Zenon
  <2>5. Cardinality(Sunk(k)') <= Cardinality(Sunk(k) \cup {q})
    BY <2>3, <2>4, FS_Subset
  <2>6. Cardinality(Sunk(k)') \in Nat
    BY <2>3, <2>4, FS_Subset, FS_CardinalityType
  <2>7. QED
    BY <1>1, <2>4, <2>5, <2>6
<1>5. CASE ~\E q \in log : Rank(q) + 1 = k
  <2>1. Sunk(k)' \in SUBSET Sunk(k)
    BY <1>3, <1>5
  <2>2. Cardinality(Sunk(k)') <= Cardinality(Sunk(k)) /\ Cardinality(Sunk(k)') \in Nat
    BY <1>1, <2>1, FS_Subset, FS_CardinalityType
  <2>3. QED
    BY <1>1, <2>2
<1>6. QED
  BY <1>4, <1>5

\* Writing a row (log_action) keeps what the reader relies on.
LEMMA AppendKeeps ==
    ASSUME ReaderInv, NEW x, Appends(x), UNCHANGED reader
    PROVE  ReaderInv'
<1>1. LogOK /\ LogOK' /\ seen' = seen /\ target' = target /\ page' = page
      /\ repeats' = repeats /\ done' = done /\ seen \subseteq log /\ target \subseteq log
      /\ page \in Nat /\ repeats \in Nat /\ log' = log \cup {x} /\ x \notin log
  BY DEF ReaderInv, Appends, reader
<1> DEFINE k == page * PageSize
<1>2. k \in Nat
  BY <1>1, PageSizeIsPositive
<1>3. Cardinality(log') = Cardinality(log) + 1 /\ Cardinality(log) \in Nat
  BY <1>1, FS_AddElement, FS_CardinalityType, Zenon DEF LogOK
<1>4. Cardinality(Sunk(k)') <= Cardinality(Sunk(k)) + 1
  BY <1>1, <1>2, AppendedSunk
<1>5. Cardinality(Sunk(k)) \in Nat /\ Cardinality(Sunk(k)') \in Nat /\ Cardinality(target) \in Nat
  <2>1. Sunk(k) \in SUBSET log /\ Sunk(k)' \in SUBSET log'
    BY <1>1 DEF Sunk
  <2>2. IsFiniteSet(log) /\ IsFiniteSet(log')
    BY <1>1 DEF LogOK
  <2>3. QED
    BY <1>1, <2>1, <2>2, FS_Subset, FS_CardinalityType
<1>6. page > 0 => repeats + Cardinality(Sunk(k)) + Cardinality(target) <= Cardinality(log)
  BY DEF ReaderInv
<1>7. page > 0 => repeats + Cardinality(Sunk(k)') + Cardinality(target) <= Cardinality(log')
  <2> HIDE DEF k
  <2>1. QED
    BY <1>1, <1>3, <1>4, <1>5, <1>6
<1>8. (page > 0 => repeats + Cardinality(Sunk(page * PageSize)) + Cardinality(target)
                      <= Cardinality(log))'
  <2>1. Sunk(page * PageSize)' = Sunk(k)'
    BY <1>1
  <2>2. QED
    BY <1>1, <1>7, <2>1
<1>9. NothingSkipped'
  <2>1. \A r \in log : Rank(r) \in Nat /\ Rank(r)' \in {Rank(r), Rank(r) + 1}
    BY <1>1, AppendedRanks, Ranks
  <2>2. NothingSkipped
    BY DEF ReaderInv
  <2>3. \A r \in log : Rank(r) >= k => Rank(r)' >= k
    <3> HIDE DEF k
    <3>1. QED
      BY <1>2, <2>1
  <2>4. QED
    BY <1>1, <2>2, <2>3 DEF NothingSkipped
<1>10. QED
  BY <1>1, <1>8, <1>9 DEF ReaderInv

\* Reading the next page keeps it, too.
LEMMA ReadKeeps ==
    ASSUME ReaderInv, ReadPage
    PROVE  ReaderInv'
<1> DEFINE rows == Page(page + 1)
           k == page * PageSize
<1>1. LogOK /\ seen \subseteq log /\ target \subseteq log /\ page \in Nat /\ repeats \in Nat
  BY DEF ReaderInv
<1>2. /\ log' = log /\ page' = page + 1 /\ seen' = seen \cup rows
      /\ target' = (IF page = 0 THEN log ELSE target)
      /\ repeats' = repeats + Cardinality(rows \cap seen)
      /\ done' = (Cardinality(rows) < PageSize)
  BY DEF ReadPage
<1>0. PICK next \in Nat : next = (page + 1) * PageSize
  BY <1>1, PageSizeIsPositive
<1>3. /\ rows \in SUBSET log /\ IsFiniteSet(rows)
      /\ rows = Above(next) \ Above(k)
      /\ k \in Nat /\ next \in Nat /\ next = k + PageSize /\ PageSize \in Nat
  BY <1>0, <1>1, PageIsDifference, PageSizeIsPositive
<1>4. \A r \in log : /\ Rank(r) \in Nat /\ Rank(r)' = Rank(r)
                     /\ r \in rows <=> Rank(r) >= k /\ Rank(r) < next
  BY <1>1, <1>2, <1>3, Ranks DEF Above, Rank, Newer
<1> HIDE DEF rows, k
<1>5. LogOK' /\ page' \in Nat /\ page' > 0 /\ seen' \subseteq log' /\ target' \subseteq log'
  BY <1>1, <1>2, <1>3 DEF LogOK
<1>6. IsFiniteSet(log) /\ \A X \in SUBSET log : IsFiniteSet(X) /\ Cardinality(X) \in Nat
  BY <1>1, FS_Subset, FS_CardinalityType DEF LogOK
<1>7. repeats' \in Nat
  <2>1. rows \cap seen \in SUBSET log
    BY <1>1
  <2>2. QED
    BY <1>1, <1>2, <1>6, <2>1
<1>8. Sunk(next)' = {r \in seen : Rank(r) >= next}
  <2>1. Sunk(next)' = {r \in seen' : Rank(r)' >= next}
    BY DEF Sunk
  <2>2. \A r \in rows : ~(Rank(r) >= next) /\ Rank(r)' = Rank(r)
    BY <1>3, <1>4
  <2>3. \A r \in seen : Rank(r)' = Rank(r)
    BY <1>1, <1>4
  <2>4. QED
    BY <1>2, <2>1, <2>2, <2>3
<1>9. repeats' + Cardinality(Sunk(next)') + Cardinality(target') <= Cardinality(log')
  <2>1. CASE page = 0
    <3>1. seen = {} /\ repeats = 0
      BY <2>1 DEF ReaderInv
    <3>2. Sunk(next)' = {} /\ rows \cap seen = {}
      BY <1>8, <3>1
    <3>3. Cardinality(log) \in Nat /\ Cardinality({}) = 0
      BY <1>6, FS_EmptySet
    <3>4. QED
      BY <1>2, <2>1, <3>1, <3>2, <3>3
  <2>2. CASE page > 0
    <3>1. repeats + Cardinality(Sunk(k)) + Cardinality(target) <= Cardinality(log)
      BY <2>2 DEF ReaderInv, k
    <3>2. /\ Sunk(k) \in SUBSET log /\ Sunk(next)' \in SUBSET log /\ rows \cap seen \in SUBSET log
          /\ (rows \cap seen) \cup Sunk(next)' \in SUBSET Sunk(k)
          /\ (rows \cap seen) \cap Sunk(next)' = {}
      BY <1>1, <1>3, <1>4, <1>8 DEF Sunk
    <3>3. Cardinality((rows \cap seen) \cup Sunk(next)') = Cardinality(rows \cap seen) + Cardinality(Sunk(next)')
      <4>1. IsFiniteSet(rows \cap seen) /\ IsFiniteSet(Sunk(next)')
        BY <1>6, <3>2
      <4>2. Cardinality((rows \cap seen) \cup Sunk(next)')
              = Cardinality(rows \cap seen) + Cardinality(Sunk(next)') - Cardinality((rows \cap seen) \cap Sunk(next)')
        BY <4>1, FS_Union
      <4>3. Cardinality(rows \cap seen) \in Nat /\ Cardinality(Sunk(next)') \in Nat
        BY <4>1, FS_CardinalityType
      <4>4. QED
        <5>1. Cardinality((rows \cap seen) \cap Sunk(next)') = 0
          BY <3>2, FS_EmptySet
        <5>2. QED
          BY <4>2, <4>3, <5>1
    <3>4. Cardinality((rows \cap seen) \cup Sunk(next)') <= Cardinality(Sunk(k))
      BY <1>6, <3>2, FS_Subset
    <3>5. /\ Cardinality(Sunk(k)) \in Nat /\ Cardinality(Sunk(next)') \in Nat
          /\ Cardinality(rows \cap seen) \in Nat
          /\ Cardinality(target) \in Nat /\ Cardinality(log) \in Nat
      BY <1>1, <1>6, <3>2
    <3>6. target' = target
      BY <1>2, <2>2
    <3>7. QED
      BY <1>1, <1>2, <3>1, <3>3, <3>4, <3>5, <3>6
  <2>3. QED
    BY <1>1, <2>1, <2>2
<1>10. NothingSkipped'
  <2>1. SUFFICES ASSUME NEW r \in target' \ seen'
                 PROVE  ~done' /\ Rank(r)' >= page' * PageSize
    BY DEF NothingSkipped
  <2>2. r \in log /\ r \notin rows /\ r \notin seen /\ Rank(r) \in Nat
    BY <1>1, <1>2, <1>4
  <2>3. Rank(r) >= k
    <3>1. CASE page = 0
      BY <1>3, <2>2, <3>1 DEF k
    <3>2. CASE page > 0
      BY <1>2, <2>2, <3>2 DEF ReaderInv, NothingSkipped, k
    <3>3. QED
      BY <1>1, <3>1, <3>2
  <2>4. Rank(r) >= next
    BY <1>3, <1>4, <2>2, <2>3
  <2>5. Cardinality(rows) >= PageSize /\ Cardinality(rows) \in Nat
    BY <1>0, <1>1, <1>3, <2>2, <2>4, ShortPageIsLast, FS_CardinalityType DEF rows
  <2>6. ~done'
    <3>1. ~(Cardinality(rows) < PageSize)
      BY <1>3, <2>5
    <3>2. QED
      BY <1>2, <3>1
  <2>7. QED
    BY <1>0, <1>2, <1>4, <2>2, <2>4, <2>6
<1>11. Sunk(page * PageSize)' = Sunk(next)'
  BY <1>0, <1>2 DEF Sunk
<1>12. (page > 0 => repeats + Cardinality(Sunk(page * PageSize)) + Cardinality(target)
                      <= Cardinality(log))'
  BY <1>9, <1>11
<1>13. QED
  BY <1>5, <1>7, <1>10, <1>12 DEF ReaderInv
-----------------------------------------------------------------------------
\* get_client_ip: what it returns is a valid address, or none.
LEMMA LeastIndex ==
    ASSUME NEW S \in SUBSET Nat, S # {}
    PROVE  \E i \in S : \A j \in S : i <= j
<1> DEFINE R == OpToRel(<, Nat)
<1>1. PICK i \in S : \A j \in S : ~(<<j, i>> \in R)
  <2>1. IsWellFoundedOn(R, Nat)
    BY NatLessThanWellFounded, Zenon
  <2> HIDE DEF R
  <2>2. QED
    BY <2>1, WFMin
<1>2. ASSUME NEW j \in S PROVE ~(j < i)
  BY <1>1 DEF OpToRel
<1>3. QED
  BY <1>2

LEMMA ClientIpIsAddress ==
    ASSUME NEW from, DOMAIN from.forwarded \subseteq Nat
    PROVE  ClientIp(from) \in Addresses \cup {None}
<1> DEFINE valid == {i \in DOMAIN from.forwarded : from.forwarded[i] \in Addresses}
<1>1. CASE valid # {}
  <2>1. \E i \in valid : \A j \in valid : i <= j
    BY <1>1, LeastIndex
  <2>2. (CHOOSE i \in valid : \A j \in valid : i <= j) \in valid
    BY <2>1, Zenon
  <2>3. QED
    BY <2>2 DEF ClientIp
<1>2. CASE valid = {}
  BY <1>2 DEF ClientIp
<1>3. QED
  BY <1>1, <1>2
=============================================================================
