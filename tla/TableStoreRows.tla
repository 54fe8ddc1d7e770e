--------------------------- MODULE TableStoreRows ---------------------------
(***************************************************************************)
(* Lemmas on the operators TableStore is built from: what a scan, a merge, *)
(* a flush and a staged publication do to the rows a table shows.          *)
(***************************************************************************)
EXTENDS TableStoreInv, FiniteSetTheorems, WellFoundedInduction, TLAPS

USE SMTT(30), ZenonT(30)

-----------------------------------------------------------------------------
(* A bounded, nonempty set of numbers has a largest element: Max of it.    *)

\* Every nonempty finite set of naturals has a largest element: the smallest
\* of the sets "elements of S from y on" belongs to it.
LEMMA BoundedMax ==
    ASSUME NEW S \in SUBSET Nat, S # {}, NEW n \in Nat, \A x \in S : x <= n
    PROVE  \E m \in S : \A x \in S : x <= m
<1> DEFINE Up(y) == {x \in S : x >= y}
           T == {Up(y) : y \in S}
<1>1. IsFiniteSet(S)
  BY FS_BoundedSetOfNaturals
<1>2. T \subseteq FiniteSubsetsOf(S) /\ T # {}
  <2>1. FiniteSubsetsOf(S) = SUBSET S
    BY <1>1, FS_FiniteSubsetsOfFinite
  <2>2. \A y \in S : Up(y) \in SUBSET S
    OBVIOUS
  <2>3. T \subseteq SUBSET S
    BY <2>2
  <2>4. PICK y \in S : TRUE
    BY ZenonT(30)
  <2>5. Up(y) \in T
    OBVIOUS
  <2> QED BY ZenonT(30), <2>1, <2>3, <2>5
<1>3. IsWellFoundedOn(StrictSubsetOrdering(S), FiniteSubsetsOf(S))
  BY FS_StrictSubsetOrderingWellFounded
<1>4. PICK t \in T : \A u \in T : ~ (<<u, t>> \in StrictSubsetOrdering(S))
  <2> HIDE DEF T
  <2> QED BY <1>2, <1>3, WFMin
<1>5. PICK m \in S : t = Up(m)
  OBVIOUS
<1>6. ASSUME NEW x \in S, ~ (x <= m) PROVE FALSE
  <2>0. x \in Nat /\ m \in Nat /\ x > m
    BY <1>6
  <2>1. /\ Up(x) \in T
        /\ Up(x) \in SUBSET S /\ Up(m) \in SUBSET S
        /\ Up(x) \subseteq Up(m)
        /\ m \in Up(m) /\ m \notin Up(x)
    <3>1. Up(x) \in T
      OBVIOUS
    <3>2. Up(x) \in SUBSET S /\ Up(m) \in SUBSET S
      OBVIOUS
    <3>3. ASSUME NEW z \in S, z >= x PROVE z >= m
      BY <2>0, <3>3
    <3>5. Up(x) \subseteq Up(m)
      BY ZenonT(30), <3>3
    <3>4. m \in Up(m) /\ m \notin Up(x)
      BY <2>0
    <3> QED BY <3>1, <3>2, <3>4, <3>5
  <2>2. <<Up(x), t>> \in StrictSubsetOrdering(S)
    BY <2>1, <1>5 DEF StrictSubsetOrdering
  <2> QED BY ZenonT(30), <2>1, <2>2, <1>4
<1> QED BY <1>6

\* Max picks that element.
LEMMA MaxIsLargest ==
    ASSUME NEW S \in SUBSET Nat, S # {}, NEW n \in Nat, \A x \in S : x <= n
    PROVE  Max(S) \in S /\ \A x \in S : x <= Max(S)
<1>1. \E m \in S : \A x \in S : m >= x
  <2>1. PICK m \in S : \A x \in S : x <= m
    BY ZenonT(30), BoundedMax
  <2> QED BY <2>1
<1> QED BY ZenonT(30), <1>1 DEF Max

\* An element no other exceeds is the Max.
LEMMA MaxIs ==
    ASSUME NEW S \in SUBSET Nat, NEW n \in S, \A x \in S : x <= n
    PROVE  Max(S) = n
<1>1. \A m \in S : (\A x \in S : m >= x) => m = n
  <2> TAKE m \in S
  <2> HAVE \A x \in S : m >= x
  <2>1. m >= n /\ m <= n /\ m \in Nat /\ n \in Nat
    OBVIOUS
  <2> QED BY <2>1
<1>2. \A x \in S : n >= x
  OBVIOUS
<1> QED BY ZenonT(30), <1>1, <1>2 DEF Max

\* A nonempty set of naturals has a least element, and Min picks it: the
\* largest distance below some element n belongs to it.
LEMMA MinIsLeast ==
    ASSUME NEW S \in SUBSET Nat, S # {}
    PROVE  Min(S) \in S /\ \A x \in S : Min(S) <= x
<1>1. PICK n \in S : TRUE
  BY ZenonT(30)
<1> DEFINE D == {d \in 0..n : n - d \in S}
<1>2. D \in SUBSET Nat /\ D # {} /\ n \in Nat /\ \A d \in D : d <= n
  <2>1. 0 \in D
    BY <1>1
  <2> QED BY <2>1
<1>3. PICK d \in D : \A e \in D : e <= d
  <2> HIDE DEF D
  <2> QED BY ZenonT(30), <1>2, BoundedMax
<1>4. ASSUME NEW x \in S PROVE n - d <= x
  <2>1. CASE x > n
    BY <2>1, <1>2
  <2>2. CASE x <= n
    <3>1. n - x \in D
      BY <1>2, <2>2
    <3>2. n - x <= d /\ d \in Nat
      BY <3>1, <1>3
    <3> QED BY <3>2, <1>2
  <2> QED BY <2>1, <2>2, <1>2
<1>5. n - d \in S
  OBVIOUS
<1>6. \E m \in S : \A x \in S : m <= x
  BY <1>4, <1>5
<1> QED BY ZenonT(30), <1>6 DEF Min

-----------------------------------------------------------------------------
(* Rows.                                                                   *)

\* Every row is covered by a winner of its key: the merge-on-read of a set of
\* rows loses no key.
LEMMA LatestCovers ==
    ASSUME NEW R \in SUBSET Versions, NEW v \in R
    PROVE  \E m \in Latest(R) : KeyOf[m] = KeyOf[v] /\ v <= m
<1> DEFINE S == {w \in R : KeyOf[w] = KeyOf[v]}
<1>1. S \in SUBSET Nat /\ S # {} /\ \A x \in S : x <= MaxVersion
  <2>1. v \in S
    OBVIOUS
  <2>2. S \subseteq 1..MaxVersion
    BY ZenonT(30) DEF Versions
  <2> HIDE DEF S
  <2> QED BY <2>1, <2>2, SourceAssumption
<1>2. MaxVersion \in Nat
  BY SourceAssumption
<1>3. PICK m \in S : \A x \in S : x <= m
  <2> HIDE DEF S
  <2> QED BY ZenonT(30), <1>1, <1>2, BoundedMax
<1>4. m \in Latest(R)
  BY <1>3 DEF Latest
<1> QED BY <1>3, <1>4

\* Replacing S by R, which keeps every winner of S except deletes that hide
\* nothing outside S, changes no scan.
LEMMA MergeKeepsVisible ==
    ASSUME NEW S \in SUBSET Versions, NEW O \in SUBSET Versions,
           NEW R \in SUBSET Latest(S),
           \A v \in Latest(S) \ R :
              v \in Deleted /\ \A w \in O : KeyOf[w] = KeyOf[v] => w > v
    PROVE  Visible(R \cup O) = Visible(S \cup O)
<1>1. R \subseteq S
  BY DEF Latest
<1>2. ASSUME NEW v \in Visible(S \cup O) PROVE v \in Visible(R \cup O)
  <2>1. v \in S \cup O /\ v \notin Deleted
        /\ \A w \in S \cup O : KeyOf[w] = KeyOf[v] => w <= v
    BY <1>2 DEF Visible, Latest
  <2>2. v \in R \cup O
    BY <2>1 DEF Latest
  <2> QED BY <1>1, <2>1, <2>2 DEF Visible, Latest
<1>3. ASSUME NEW v \in Visible(R \cup O) PROVE v \in Visible(S \cup O)
  <2>1. v \in R \cup O /\ v \notin Deleted
        /\ \A w \in R \cup O : KeyOf[w] = KeyOf[v] => w <= v
    BY <1>3 DEF Visible, Latest
  <2>2. ASSUME NEW w \in S \cup O, KeyOf[w] = KeyOf[v] PROVE w <= v
    <3>1. CASE w \in O
      BY <2>1, <2>2, <3>1
    <3>2. CASE w \in S
      <4>1. PICK m \in Latest(S) : KeyOf[m] = KeyOf[w] /\ w <= m
        BY <3>2, LatestCovers
      <4>2. m \in Versions /\ w \in Versions /\ v \in Versions
        BY <1>1, <2>1, <3>2, <4>1 DEF Latest
      <4>3. CASE m \in R
        BY <2>1, <2>2, <4>1, <4>2, <4>3 DEF Versions
      <4>4. CASE m \notin R
        <5>1. CASE v \in O
          <6>1. v > m
            BY <2>2, <4>1, <4>4, <5>1
          <6> QED BY <6>1, <4>1, <4>2 DEF Versions
        <5>2. CASE v \in R
          <6>1. v \in Latest(S)
            BY <5>2
          <6> QED BY <6>1, <2>2, <3>2 DEF Latest
        <5> QED BY <5>1, <5>2, <2>1
      <4> QED BY <4>3, <4>4
    <3> QED BY <3>1, <3>2
  <2> QED BY <1>1, <2>1, <2>2 DEF Visible, Latest
<1> QED BY ZenonT(30), <1>2, <1>3

\* Every change of a+1..n has a row of its key in S, at least as new.
Covers(S, a, n) ==
    \A v \in a + 1 .. n : \E w \in S : KeyOf[w] = KeyOf[v] /\ w >= v

\* Rows that resolve to the source at version a, with rows that cover every
\* change of a+1..n added, resolve to the source at n.
LEMMA ExtendVisible ==
    ASSUME NEW a \in 0..MaxVersion, NEW n \in 0..MaxVersion, a <= n,
           NEW R \in SUBSET (1..a), Visible(R) = Visible(1..a),
           NEW S \in SUBSET (a + 1 .. n), Covers(S, a, n)
    PROVE  Visible(R \cup S) = Visible(1..n)
<1> USE SourceAssumption
<1>1. ASSUME NEW v \in Visible(1..n) PROVE v \in Visible(R \cup S)
  <2>1. v \in 1..n /\ v \notin Deleted
        /\ \A w \in 1..n : KeyOf[w] = KeyOf[v] => w <= v
    BY <1>1 DEF Visible, Latest
  <2>2. CASE v <= a
    <3>1. v \in Visible(1..a)
      BY <2>1, <2>2 DEF Visible, Latest
    <3>2. v \in R
      BY <3>1 DEF Visible, Latest
    <3> QED BY <2>1, <3>2 DEF Visible, Latest
  <2>3. CASE v > a
    <3>1. PICK w \in S : KeyOf[w] = KeyOf[v] /\ w >= v
      BY <2>1, <2>3 DEF Covers
    <3>2. w = v
      BY <2>1, <3>1
    <3> QED BY <2>1, <3>1, <3>2 DEF Visible, Latest
  <2> QED BY <2>1, <2>2, <2>3
<1>2. ASSUME NEW v \in Visible(R \cup S) PROVE v \in Visible(1..n)
  <2>1. v \in R \cup S /\ v \notin Deleted /\ v \in 1..n
        /\ \A w \in R \cup S : KeyOf[w] = KeyOf[v] => w <= v
    BY <1>2 DEF Visible, Latest
  <2>2. ASSUME NEW w \in 1..n, KeyOf[w] = KeyOf[v] PROVE w <= v
    <3>1. CASE w > a
      <4>1. PICK x \in S : KeyOf[x] = KeyOf[w] /\ x >= w
        BY <3>1 DEF Covers
      <4>2. x <= v
        BY <2>1, <2>2, <4>1
      <4> QED BY <4>1, <4>2, <2>1
    <3>2. CASE w <= a
      <4>1. CASE v \in S
        BY <4>1, <3>2
      <4>2. CASE v \in R
        <5>1. v \in Visible(R)
          BY <2>1, <4>2 DEF Visible, Latest
        <5>2. v \in Visible(1..a)
          BY <5>1
        <5> QED BY <5>2, <2>2, <3>2 DEF Visible, Latest
      <4> QED BY <4>1, <4>2, <2>1
    <3> QED BY <3>1, <3>2
  <2> QED BY <2>1, <2>2 DEF Visible, Latest
<1> QED BY ZenonT(30), <1>1, <1>2

\* A scan reads the memtable over the segments: it shows the source's state
\* at n when the segments hold it at a and the memtable the changes since.
LEMMA ScanExact ==
    ASSUME NEW a \in 0..MaxVersion, NEW n \in 0..MaxVersion, a <= n,
           NEW S, Rows(S) \subseteq 1..a, Visible(Rows(S)) = Visible(1..a),
           NEW mem, mem = Latest(a + 1 .. n)
    PROVE  Scan(S, mem) = Visible(1..n)
<1> USE SourceAssumption
<1>0. a + 1 .. n \in SUBSET Versions
  BY DEF Versions
<1>1. \A v \in a + 1 .. n : \E w \in mem : KeyOf[w] = KeyOf[v] /\ w >= v
  <2> TAKE v \in a + 1 .. n
  <2>1. PICK m \in Latest(a + 1 .. n) : KeyOf[m] = KeyOf[v] /\ v <= m
    BY <1>0, LatestCovers
  <2>2. m \in a + 1 .. n
    BY <2>1 DEF Latest
  <2> QED BY <2>1, <2>2
<1>2. mem \in SUBSET (a + 1 .. n) /\ Covers(mem, a, n)
  BY <1>1 DEF Latest, Covers
<1>3. Visible(Rows(S) \cup mem) = Visible(1..n)
  BY <1>2, ExtendVisible
<1> QED BY <1>3 DEF Scan

\* Adding the next changes to a memtable of winners keeps it one.
LEMMA LatestExtend ==
    ASSUME NEW a \in 0..MaxVersion, NEW b \in 0..MaxVersion,
           NEW n \in 0..MaxVersion, a <= b, b <= n
    PROVE  Latest(Latest(a + 1 .. b) \cup (b + 1 .. n)) = Latest(a + 1 .. n)
<1> USE SourceAssumption
<1> DEFINE M == Latest(a + 1 .. b) \cup (b + 1 .. n)
<1>0. a + 1 .. b \in SUBSET Versions
  BY DEF Versions
<1>1. M \subseteq a + 1 .. n
  BY DEF Latest
<1>2. \A v \in a + 1 .. n : \E w \in M : KeyOf[w] = KeyOf[v] /\ w >= v
  <2> TAKE v \in a + 1 .. n
  <2>1. CASE v > b
    <3>1. v \in M /\ v \in Nat
      BY <2>1
    <3> HIDE DEF M
    <3> QED BY <3>1
  <2>2. CASE v <= b
    <3>0. v \in a + 1 .. b
      BY <2>2
    <3>1. PICK m \in Latest(a + 1 .. b) : KeyOf[m] = KeyOf[v] /\ v <= m
      BY ONLY ZenonT(30), <1>0, <3>0, LatestCovers
    <3>2. m \in Nat
      BY <3>1 DEF Latest
    <3> QED BY <3>1, <3>2
  <2> QED BY <2>1, <2>2
<1>3. ASSUME NEW v \in Latest(M) PROVE v \in Latest(a + 1 .. n)
  <2>1. v \in a + 1 .. n /\ \A w \in M : KeyOf[w] = KeyOf[v] => w <= v
    BY <1>1, <1>3 DEF Latest
  <2>2. ASSUME NEW w \in a + 1 .. n, KeyOf[w] = KeyOf[v] PROVE w <= v
    <3>1. PICK x \in M : KeyOf[x] = KeyOf[w] /\ x >= w
      BY <1>2
    <3>2. x <= v /\ x \in Nat
      BY <1>1, <2>1, <2>2, <3>1
    <3> QED BY <3>1, <3>2, <2>1
  <2> QED BY <2>1, <2>2 DEF Latest
<1>4. ASSUME NEW v \in Latest(a + 1 .. n) PROVE v \in Latest(M)
  <2>1. v \in a + 1 .. n /\ \A w \in a + 1 .. n : KeyOf[w] = KeyOf[v] => w <= v
    BY <1>4 DEF Latest
  <2>2. v \in M
    <3>1. PICK x \in M : KeyOf[x] = KeyOf[v] /\ x >= v
      BY <1>2, <2>1
    <3>2. x = v
      BY <1>1, <2>1, <3>1
    <3> QED BY <3>1, <3>2
  <2> QED BY <1>1, <2>1, <2>2 DEF Latest
<1> QED BY ZenonT(30), <1>3, <1>4

\* The highest applied version is the last change the memtable covers.
LEMMA LatestMax ==
    ASSUME NEW a \in 0..MaxVersion, NEW n \in 0..MaxVersion, a <= n,
           NEW c \in {a, n}
    PROVE  Max(Latest(a + 1 .. n) \cup {c}) = n
<1> USE SourceAssumption
<1> DEFINE S == Latest(a + 1 .. n) \cup {c}
<1>1. S \in SUBSET Nat /\ S # {} /\ \A x \in S : x <= n
  BY DEF Latest
<1>2. n \in S
  <2>1. CASE a = n
    BY <2>1
  <2>2. CASE a # n
    <3>1. n \in a + 1 .. n
      BY <2>2
    <3> QED BY <3>1 DEF Latest
  <2> QED BY <2>1, <2>2
<1>3. n \in Nat
  OBVIOUS
<1> HIDE DEF S
<1>4. Max(S) = n
  BY <1>1, <1>2, <1>3, MaxIs
<1> QED BY <1>4 DEF S

\* The Max of one number.
LEMMA MaxOfOne ==
    ASSUME NEW c \in Nat
    PROVE  Max({} \cup {c}) = c
<1>1. {c} \in SUBSET Nat /\ c \in {c} /\ \A x \in {c} : x <= c
  OBVIOUS
<1>2. Max({c}) = c
  BY <1>1, MaxIs
<1>3. {} \cup {c} = {c}
  OBVIOUS
<1> QED BY <1>2, <1>3

\* Winners are rows of the set, and a nonempty set has one.
LEMMA LatestRows ==
    ASSUME NEW R \in SUBSET Versions
    PROVE  Latest(R) \in SUBSET Versions /\ (R # {} => Latest(R) # {})
BY LatestCovers DEF Latest

\* The rows of well-typed segments are changes of the source.
LEMMA RowsType ==
    ASSUME NEW S \in SUBSET Segment
    PROVE  Rows(S) \in SUBSET Versions
BY DEF Rows, Segment

LEMMA RowsUnion ==
    ASSUME NEW S, NEW T
    PROVE  Rows(S \cup T) = Rows(S) \cup Rows(T)
BY DEF Rows

\* The highest version of some rows and a committed version is a version, at
\* least each of them, and one of them.
LEMMA MaxVersionOf ==
    ASSUME NEW R \in SUBSET Versions, NEW c \in 0..MaxVersion
    PROVE  /\ Max(R \cup {c}) \in 0..MaxVersion
           /\ Max(R \cup {c}) \in R \cup {c}
           /\ \A v \in R \cup {c} : v <= Max(R \cup {c})
<1> DEFINE S == R \cup {c}
<1>1. S \in SUBSET (0..MaxVersion)
  BY DEF Versions
<1>2. S \in SUBSET Nat /\ S # {} /\ MaxVersion \in Nat /\ \A x \in S : x <= MaxVersion
  BY <1>1, SourceAssumption
<1> HIDE DEF S
<1>3. Max(S) \in S /\ \A x \in S : x <= Max(S)
  BY ZenonT(30), <1>2, MaxIsLargest
<1> QED BY <1>1, <1>3 DEF S

\* The applied version covers the memtable and the committed version.
LEMMA AppliedType ==
    ASSUME TypeOK
    PROVE  /\ Applied \in 0..MaxVersion
           /\ Applied \in memtable \cup {commit_version}
           /\ \A v \in memtable \cup {commit_version} : v <= Applied
BY MaxVersionOf DEF TypeOK, Applied

\* The chunks of a merge hold its rows between them, under ids of their own.
LEMMA ChunksOf ==
    ASSUME NEW R \in SUBSET Versions, NEW base \in Nat, NEW cut \in Keys
    PROVE  /\ Chunks(R, base, cut) \in SUBSET Segment
           /\ Rows(Chunks(R, base, cut)) = R
           /\ UniqueIds(Chunks(R, base, cut))
           /\ \A s \in Chunks(R, base, cut) : s.id \in {base, base + 1}
<1> USE SourceAssumption
<1> DEFINE low == {v \in R : KeyOf[v] < cut}
           high == {v \in R : KeyOf[v] >= cut}
           a == [id |-> base, rows |-> low]
           b == [id |-> base + 1, rows |-> high]
           C == Chunks(R, base, cut)
<1>1. C = {s \in {a, b} : s.rows # {}}
  BY DEF Chunks
<1>2. a \in Segment /\ b \in Segment /\ a.id # b.id
      /\ a.id = base /\ b.id = base + 1 /\ a.rows = low /\ b.rows = high
  BY DEF Segment
<1>3. low \cup high = R
  <2>1. \A v \in R : KeyOf[v] \in Int
    OBVIOUS
  <2>2. cut \in Int
    BY DEF Keys
  <2> QED BY <2>1, <2>2
<1> HIDE DEF a, b, low, high, C
<1>4. Rows(C) = R
  <2>1. ASSUME NEW v \in R PROVE v \in Rows(C)
    BY <1>1, <1>2, <1>3, <2>1 DEF Rows
  <2>2. ASSUME NEW v \in Rows(C) PROVE v \in R
    BY <1>1, <1>2, <1>3, <2>2 DEF Rows
  <2> QED BY <2>1, <2>2
<1>5. C \in SUBSET Segment /\ UniqueIds(C) /\ \A s \in C : s.id \in {base, base + 1}
  BY <1>1, <1>2 DEF UniqueIds
<1> QED BY <1>4, <1>5 DEF C
=============================================================================
