-------------------------- MODULE SaidBytes_proofs --------------------------
(***************************************************************************)
(* What the bytes of a .said file promise, for any number of documents and *)
(* frames and any size of a block.                                         *)
(*                                                                         *)
(* SaidFile lists frames and blocks by counting what comes before them.    *)
(* The first part proves that such a list has every member once, and with  *)
(* it that compact() and save() give each payload the place that its       *)
(* offset, or its slot in a block, names.  The second part is the type     *)
(* invariant, of the memory, of the file and of what is about to be        *)
(* renamed (Typed), whatever fails.  The third says where each payload is  *)
(* at every step of a save (Safe): this is what makes it read back.        *)
(***************************************************************************)
EXTENDS SaidFile_proofs, SequenceTheorems

-----------------------------------------------------------------------------
(***************************************************************************)
(* Lists made by ranking.                                                  *)
(***************************************************************************)
Below(R, S, x) == {y \in S : <<y, x>> \in R}

StrictOrder(R, S) ==
  /\ \A x \in S : <<x, x>> \notin R
  /\ \A x, y \in S : x # y => <<x, y>> \in R \/ <<y, x>> \in R
  /\ \A x, y, z \in S : <<x, y>> \in R /\ <<y, z>> \in R => <<x, z>> \in R

\* The members of a finite, ordered set have the ranks 0, 1, 2, ...
LEMMA Ranking ==
  ASSUME NEW S, IsFiniteSet(S), NEW R, StrictOrder(R, S)
  PROVE  /\ Cardinality(S) \in Nat
         /\ \A x \in S : Cardinality(Below(R, S, x)) \in 0 .. Cardinality(S) - 1
         /\ \A x, y \in S : Cardinality(Below(R, S, x)) = Cardinality(Below(R, S, y))
                              => x = y
         /\ \A n \in 0 .. Cardinality(S) - 1 :
              \E x \in S : Cardinality(Below(R, S, x)) = n
<1> DEFINE rank == [x \in S |-> Cardinality(Below(R, S, x))]
           ranks == 0 .. Cardinality(S) - 1
<1>1. Cardinality(S) \in Nat
  BY FS_CardinalityType
<1>2. ASSUME NEW x \in S
      PROVE  /\ IsFiniteSet(Below(R, S, x))
             /\ Cardinality(Below(R, S, x)) \in Nat
  BY FS_Subset, FS_CardinalityType DEF Below
<1>3. ASSUME NEW x \in S, NEW A \in SUBSET S, Below(R, S, x) \subseteq A, x \in A
      PROVE  Cardinality(Below(R, S, x)) < Cardinality(A)
  <2>1. IsFiniteSet(A) /\ Cardinality(A) \in Nat
    BY FS_Subset, FS_CardinalityType
  <2>2. x \notin Below(R, S, x)
    BY DEF Below, StrictOrder
  <2>3. /\ Cardinality(Below(R, S, x)) <= Cardinality(A)
        /\ Cardinality(A) = Cardinality(Below(R, S, x)) => A = Below(R, S, x)
    BY <1>3, <2>1, FS_Subset
  <2> QED
    BY <1>2, <1>3, <2>1, <2>2, <2>3
<1>4. ASSUME NEW x \in S, NEW y \in S, <<x, y>> \in R
      PROVE  Cardinality(Below(R, S, x)) < Cardinality(Below(R, S, y))
  <2>1. Below(R, S, x) \subseteq Below(R, S, y) /\ x \in Below(R, S, y)
    BY <1>4 DEF Below, StrictOrder
  <2> QED
    BY <1>3, <2>1 DEF Below
<1>5. ASSUME NEW x \in S
      PROVE  Cardinality(Below(R, S, x)) \in ranks
  <2>1. Below(R, S, x) \subseteq S
    BY DEF Below
  <2>2. Cardinality(Below(R, S, x)) < Cardinality(S)
    BY <1>3, <2>1
  <2> QED
    BY <1>1, <1>2, <2>2
<1>6. ASSUME NEW x \in S, NEW y \in S, rank[x] = rank[y]
      PROVE  x = y
  <2>1. /\ <<x, y>> \in R => rank[x] < rank[y]
        /\ <<y, x>> \in R => rank[y] < rank[x]
    BY <1>4
  <2>2. rank[x] \in Nat /\ rank[y] \in Nat
    BY <1>2
  <2>3. x # y => <<x, y>> \in R \/ <<y, x>> \in R
    BY DEF StrictOrder
  <2> QED
    BY <1>6, <2>1, <2>2, <2>3
<1>7. \A n \in ranks : \E x \in S : rank[x] = n
  <2>1. rank \in Injection(S, ranks)
    BY <1>5, <1>6 DEF Injection, IsInjective
  <2>2. IsFiniteSet(ranks) /\ Cardinality(ranks) = Cardinality(S)
    <3>1. \A n \in Nat : IsFiniteSet(0 .. n - 1) /\ Cardinality(0 .. n - 1) = n
      BY FS_Interval
    <3> QED
      BY <1>1, <3>1
  <2>3. rank \in Surjection(S, ranks)
    BY <2>1, <2>2, FS_Injection
  <2> QED
    BY <2>3 DEF Surjection
<1> QED
  BY <1>1, <1>5, <1>6, <1>7

\* s has every member of S once.
Lists(s, S) == /\ s \in Seq(S)
               /\ \A x \in S : \E n \in DOMAIN s : s[n] = x
               /\ \A m, n \in DOMAIN s : s[m] = s[n] => m = n

LEMMA RankLists ==
  ASSUME NEW S, IsFiniteSet(S), NEW R, StrictOrder(R, S), NEW s,
         DOMAIN s = 1 .. Cardinality(S), s = [n \in DOMAIN s |-> s[n]],
         \A n \in DOMAIN s :
           (\E x \in S : Cardinality(Below(R, S, x)) = n - 1)
             => s[n] \in S /\ Cardinality(Below(R, S, s[n])) = n - 1
  PROVE  Lists(s, S) /\ Len(s) = Cardinality(S) /\ Cardinality(S) \in Nat
<1>1. /\ Cardinality(S) \in Nat
      /\ \A x \in S : Cardinality(Below(R, S, x)) \in 0 .. Cardinality(S) - 1
      /\ \A x, y \in S : Cardinality(Below(R, S, x)) = Cardinality(Below(R, S, y))
                           => x = y
      /\ \A n \in 0 .. Cardinality(S) - 1 :
           \E x \in S : Cardinality(Below(R, S, x)) = n
  BY Ranking
<1>2. ASSUME NEW n \in 1 .. Cardinality(S)
      PROVE  s[n] \in S /\ Cardinality(Below(R, S, s[n])) = n - 1
  <2>1. n - 1 \in 0 .. Cardinality(S) - 1
    BY <1>1
  <2>2. \E x \in S : Cardinality(Below(R, S, x)) = n - 1
    BY <1>1, <2>1
  <2> QED
    BY <2>2
<1>3. s \in Seq(S) /\ DOMAIN s = 1 .. Cardinality(S) /\ Len(s) = Cardinality(S)
  BY <1>1, <1>2
<1>4. ASSUME NEW x \in S
      PROVE  \E n \in DOMAIN s : s[n] = x
  <2>1. PICK r \in 0 .. Cardinality(S) - 1 : Cardinality(Below(R, S, x)) = r
    BY <1>1
  <2>2. r + 1 \in 1 .. Cardinality(S) /\ (r + 1) - 1 = r
    BY <1>1
  <2>3. s[r + 1] \in S /\ Cardinality(Below(R, S, s[r + 1])) = r
    BY <1>2, <2>2
  <2> QED
    BY <1>1, <1>3, <2>1, <2>2, <2>3
<1>5. ASSUME NEW m \in DOMAIN s, NEW n \in DOMAIN s, s[m] = s[n]
      PROVE  m = n
  BY <1>1, <1>2, <1>3, <1>5
<1> QED
  BY <1>1, <1>3, <1>4, <1>5 DEF Lists

Placed(f, S) == /\ \A i \in S : f[i].pos \in Nat
                /\ \A i, j \in S : f[i].pos = f[j].pos => i = j

LEMMA InOrderLists ==
  ASSUME NEW S, IsFiniteSet(S), NEW f, Placed(f, S)
  PROVE  Lists(InOrder(S, f), S)
<1> DEFINE R == {p \in S \X S : f[p[1]].pos < f[p[2]].pos}
<1>1. StrictOrder(R, S)
  BY DEF StrictOrder, Placed
<1>2. \A i \in S : Below(R, S, i) = {j \in S : f[j].pos < f[i].pos}
  BY DEF Below
<1> DEFINE s == InOrder(S, f)
<1>3. DOMAIN s = 1 .. Cardinality(S) /\ s = [n \in DOMAIN s |-> s[n]]
  <2> DEFINE nth(n) == CHOOSE i \in S : Cardinality({j \in S : f[j].pos < f[i].pos}) = n - 1
  <2>1. s = [n \in 1 .. Cardinality(S) |-> nth(n)]
    BY DEF InOrder
  <2> HIDE DEF nth, s
  <2> QED
    BY <2>1
<1>4. ASSUME NEW n \in DOMAIN s, \E x \in S : Cardinality(Below(R, S, x)) = n - 1
      PROVE  s[n] \in S /\ Cardinality(Below(R, S, s[n])) = n - 1
  <2>1. s[n] = CHOOSE i \in S : Cardinality({j \in S : f[j].pos < f[i].pos}) = n - 1
    BY <1>3 DEF InOrder
  <2>2. \E i \in S : Cardinality({j \in S : f[j].pos < f[i].pos}) = n - 1
    BY <1>2, <1>4
  <2>3. s[n] \in S /\ Cardinality({j \in S : f[j].pos < f[s[n]].pos}) = n - 1
    BY <2>1, <2>2, Zenon
  <2> QED
    BY <1>2, <2>3
<1> HIDE DEF R, s
<1>5. Lists(s, S)
  BY <1>1, <1>3, <1>4, RankLists
<1> QED
  BY <1>5 DEF s

\* Two lists of disjoint sets, one behind the other.
LEMMA ListsConcat ==
  ASSUME NEW S, NEW U, NEW s, NEW t, Lists(s, S), Lists(t, U), S \cap U = {}
  PROVE  Lists(s \o t, S \cup U)
<1>1. s \in Seq(S \cup U) /\ t \in Seq(S \cup U)
  BY SeqMonotonic DEF Lists
<1>2. /\ s \o t \in Seq(S \cup U)
      /\ Len(s) \in Nat /\ Len(t) \in Nat
      /\ DOMAIN s = 1 .. Len(s) /\ DOMAIN t = 1 .. Len(t)
      /\ DOMAIN (s \o t) = 1 .. Len(s) + Len(t)
      /\ \A n \in DOMAIN s : (s \o t)[n] = s[n] /\ s[n] \in S
      /\ \A n \in DOMAIN t : (s \o t)[n + Len(s)] = t[n] /\ t[n] \in U
  BY <1>1, ConcatProperties, LenProperties, ElementOfSeq DEF Lists
<1>3. ASSUME NEW x \in S \cup U
      PROVE  \E n \in DOMAIN (s \o t) : (s \o t)[n] = x
  <2>1. CASE x \in S
    <3>1. PICK n \in DOMAIN s : s[n] = x
      BY <2>1 DEF Lists
    <3> QED
      BY <1>2, <3>1
  <2>2. CASE x \in U
    <3>1. PICK n \in DOMAIN t : t[n] = x
      BY <2>2 DEF Lists
    <3>2. n + Len(s) \in DOMAIN (s \o t)
      BY <1>2
    <3> QED
      BY <1>2, <3>1, <3>2
  <2> QED
    BY <2>1, <2>2
<1>4. \A n \in DOMAIN (s \o t) :
        \/ n \in DOMAIN s /\ (s \o t)[n] \in S
        \/ n - Len(s) \in DOMAIN t /\ (s \o t)[n] = t[n - Len(s)] /\ t[n - Len(s)] \in U
  <2> TAKE n \in DOMAIN (s \o t)
  <2>1. CASE n <= Len(s)
    BY <1>2, <2>1
  <2>2. CASE n > Len(s)
    <3>1. n - Len(s) \in DOMAIN t /\ (n - Len(s)) + Len(s) = n
      BY <1>2, <2>2
    <3> QED
      BY <1>2, <3>1
  <2> QED
    BY <1>2, <2>1, <2>2
<1>5. ASSUME NEW m \in DOMAIN (s \o t), NEW n \in DOMAIN (s \o t), (s \o t)[m] = (s \o t)[n]
      PROVE  m = n
  <2>1. CASE m \in DOMAIN s /\ n \in DOMAIN s
    BY <1>2, <1>5, <2>1 DEF Lists
  <2>2. CASE m - Len(s) \in DOMAIN t /\ n - Len(s) \in DOMAIN t
    <3>1. /\ (m - Len(s)) + Len(s) = m /\ (n - Len(s)) + Len(s) = n
      BY <1>2
    <3>2. t[m - Len(s)] = t[n - Len(s)]
      BY <1>2, <1>5, <2>2, <3>1
    <3>3. m - Len(s) = n - Len(s)
      BY <2>2, <3>2 DEF Lists
    <3> QED
      BY <3>1, <3>3
  <2>3. CASE m \in DOMAIN s /\ n - Len(s) \in DOMAIN t
    <3>1. (n - Len(s)) + Len(s) = n
      BY <1>2
    <3>2. (s \o t)[m] \in S /\ (s \o t)[n] \in U
      BY <1>2, <2>3, <3>1
    <3> QED
      BY <1>5, <3>2
  <2>4. CASE n \in DOMAIN s /\ m - Len(s) \in DOMAIN t
    <3>1. (m - Len(s)) + Len(s) = m
      BY <1>2
    <3>2. (s \o t)[n] \in S /\ (s \o t)[m] \in U
      BY <1>2, <2>4, <3>1
    <3> QED
      BY <1>5, <3>2
  <2> QED
    BY <1>4, <2>1, <2>2, <2>3, <2>4
<1> QED
  BY <1>2, <1>3, <1>5 DEF Lists

-----------------------------------------------------------------------------
(***************************************************************************)
(* Blocks are filled one after the other.                                  *)
(***************************************************************************)
LEMMA Division ==
  ASSUME NEW a \in Int, NEW B \in Int, B > 0
  PROVE  /\ a = B * (a \div B) + (a % B)
         /\ a \div B \in Int /\ a % B \in 0 .. B - 1
         /\ a >= 0 => a \div B >= 0
  OBVIOUS

\* The n-th frame of len has a place in one of the blocks, and the block has
\* a first place.
LEMMA Places ==
  ASSUME NEW len \in Nat, NEW n \in 1 .. len
  PROVE  LET k == Place(n)[1]
             r == Place(n)[2]
             last == IF k * BlockSize < len THEN k * BlockSize ELSE len
         IN  /\ k \in 1 .. (len + BlockSize - 1) \div BlockSize
             /\ r \in 1 .. BlockSize
             /\ n = (k - 1) * BlockSize + r
             /\ n <= last
             /\ (k - 1) * BlockSize + 1 \in 1 .. len
             /\ Place((k - 1) * BlockSize + 1) = <<k, 1>>
<1> DEFINE q == (n - 1) \div BlockSize
           r == (n - 1) % BlockSize
<1>1. BlockSize \in Int /\ BlockSize > 0
  BY SizeAssumption
<1>2. /\ n - 1 = BlockSize * q + r
      /\ q \in Int /\ q >= 0 /\ r \in 0 .. BlockSize - 1
  BY <1>1, Division
<1>3. Place(n) = <<q + 1, r + 1>>
  BY DEF Place
<1>4. Place(q * BlockSize + 1) = <<q + 1, 1>>
  <2>1. (q * BlockSize) \div BlockSize = q /\ (q * BlockSize) % BlockSize = 0
    BY <1>1, <1>2
  <2> QED
    BY <1>1, <1>2, <2>1 DEF Place
<1>5. q * BlockSize + 1 \in 1 .. len
  BY <1>1, <1>2
<1>6. q + 1 \in 1 .. (len + BlockSize - 1) \div BlockSize
  <2>1. (n - 1) \div BlockSize <= (len - 1) \div BlockSize
    BY <1>1
  <2>2. ((len - 1) + BlockSize) \div BlockSize = (len - 1) \div BlockSize + 1
    BY <1>1
  <2>3. (len - 1) + BlockSize = len + BlockSize - 1
    BY <1>1
  <2>4. (len - 1) \div BlockSize \in Int
    BY <1>1
  <2> HIDE DEF q
  <2>5. q <= (len - 1) \div BlockSize
    BY <2>1 DEF q
  <2> QED
    BY <1>2, <2>2, <2>3, <2>4, <2>5
<1>7. n <= (q + 1) * BlockSize
  BY <1>1, <1>2
<1> HIDE DEF q, r
<1>8. (q + 1) - 1 = q /\ n = q * BlockSize + (r + 1)
  BY <1>1, <1>2
<1> QED
  BY <1>1, <1>2, <1>3, <1>4, <1>5, <1>6, <1>7, <1>8

-----------------------------------------------------------------------------
(***************************************************************************)
(* The order of the frames.                                                *)
(***************************************************************************)
Ordered == /\ flushed <= nextId
           /\ \A i, j \in Ids : frame[i].pos = frame[j].pos => i = j

LEMMA TheTable ==
  ASSUME T!Inv
  PROVE  /\ nextId \in Nat /\ flushed \in Nat
         /\ Ids = 0 .. nextId - 1 /\ Ids = T!Ids /\ IsFiniteSet(Ids)
         /\ frame \in [Ids -> T!Frame] /\ DOMAIN frame = Ids
         /\ \A i \in Ids : frame[i].pos \in Ids
         /\ Pending = {i \in Ids : flushed <= frame[i].pos}
         /\ Live = {i \in Ids : frame[i].status # "Deleted"}
<1>1. /\ nextId \in Nat /\ flushed \in Nat /\ frame \in [T!Ids -> T!Frame]
      /\ Ids = 0 .. nextId - 1 /\ Ids = T!Ids
  BY DEF T!Inv, T!TypeOK, Ids, Table!Ids, T!Ids
<1>2. \A i \in Ids : frame[i] \in T!Frame /\ frame[i].pos \in Ids
  BY <1>1 DEF T!Frame
<1>3. Pending = {i \in Ids : flushed <= frame[i].pos}
  BY <1>1, <1>2 DEF Pending, Table!Committed
<1>4. Live = {i \in Ids : frame[i].status # "Deleted"}
  BY DEF Live, Table!Undeleted, Ids
<1>5. IsFiniteSet(0 .. nextId - 1)
  BY <1>1, FS_Interval
<1> QED
  BY <1>1, <1>2, <1>3, <1>4, <1>5

LEMMA FramesPlaced ==
  ASSUME T!Inv, Ordered
  PROVE  Placed(frame, Ids)
  BY TheTable DEF Placed, Ordered

LEMMA PlacedSubset ==
  ASSUME NEW S, NEW U \in SUBSET S, NEW f, Placed(f, S)
  PROVE  Placed(f, U)
  BY DEF Placed

\* compact() keeps a linear order, in which the frames that stay committed
\* come first.
LEMMA Reordering ==
  ASSUME T!Inv, Ordered, NEW moved \in SUBSET Ids, NEW f, NEW c,
         f = Table!Reordered(moved),
         c = Table!Cardinality({i \in Table!Ids \ moved : Table!Committed(i)})
  PROVE  /\ Placed(f, Ids) /\ DOMAIN f = Ids /\ c \in Nat /\ c <= nextId
         /\ \A i \in Ids : /\ f[i].pos \in Ids
                           /\ f[i].status = frame[i].status
                           /\ f[i].pos < c <=> i \notin moved \cup Pending
<1> DEFINE R == {p \in Ids \X Ids :
                   IF p[1] \in moved
                   THEN p[2] \in moved /\ frame[p[2]].pos < frame[p[1]].pos
                   ELSE p[2] \in moved \/ frame[p[1]].pos < frame[p[2]].pos}
           first == {i \in Ids \ moved : Table!Committed(i)}
<1>1. /\ nextId \in Nat /\ flushed \in Nat
      /\ Ids = 0 .. nextId - 1 /\ IsFiniteSet(Ids) /\ Cardinality(Ids) = nextId
      /\ frame \in [Ids -> T!Frame]
      /\ \A i \in Ids : frame[i].pos \in Ids
      /\ Pending = {i \in Ids : flushed <= frame[i].pos}
  <2>1. /\ nextId \in Nat /\ flushed \in Nat
        /\ Ids = 0 .. nextId - 1 /\ IsFiniteSet(Ids)
        /\ frame \in [Ids -> T!Frame]
        /\ \A i \in Ids : frame[i].pos \in Ids
        /\ Pending = {i \in Ids : flushed <= frame[i].pos}
    BY TheTable
  <2>2. Cardinality(0 .. nextId - 1) = nextId
    BY <2>1, FS_Interval
  <2> QED
    BY <2>1, <2>2
<1>2. Placed(frame, Ids)
  BY FramesPlaced
<1>3. StrictOrder(R, Ids)
  <2>1. \A x \in Ids : <<x, x>> \notin R
    BY <1>1
  <2>2. \A x, y \in Ids : x # y => <<x, y>> \in R \/ <<y, x>> \in R
    BY <1>1, <1>2 DEF Placed
  <2>3. \A x, y, z \in Ids : <<x, y>> \in R /\ <<y, z>> \in R => <<x, z>> \in R
    BY <1>1
  <2> QED
    BY <2>1, <2>2, <2>3 DEF StrictOrder
<1>4. ASSUME NEW i \in Ids
      PROVE  /\ f[i] = [frame[i] EXCEPT !.pos = Cardinality(Below(R, Ids, i))]
             /\ (i \notin moved => Below(R, Ids, i) =
                   {j \in Ids \ moved : frame[j].pos < frame[i].pos})
             /\ (i \in moved => Ids \ moved \subseteq Below(R, Ids, i))
  <2> DEFINE Before(j) == IF j \in moved
                          THEN i \in moved /\ frame[i].pos < frame[j].pos
                          ELSE i \in moved \/ frame[j].pos < frame[i].pos
  <2>1. f[i] = [frame[i] EXCEPT !.pos = Table!Cardinality({j \in Ids : Before(j)})]
    BY DEF Table!Reordered, Ids
  <2>2. Below(R, Ids, i) = {j \in Ids : Before(j)}
    BY DEF Below
  <2>3. f[i] = [frame[i] EXCEPT !.pos = Cardinality(Below(R, Ids, i))]
    BY <2>1, <2>2, SameCardinality
  <2>4. i \notin moved => Below(R, Ids, i) =
                   {j \in Ids \ moved : frame[j].pos < frame[i].pos}
    BY DEF Below
  <2>5. i \in moved => Ids \ moved \subseteq Below(R, Ids, i)
    BY DEF Below
  <2> QED
    BY <2>3, <2>4, <2>5
<1> HIDE DEF R
<1>5. DOMAIN f = Ids
  BY DEF Table!Reordered, Ids
<1>6. ASSUME NEW i \in Ids
      PROVE  /\ f[i].pos = Cardinality(Below(R, Ids, i))
             /\ f[i].status = frame[i].status
  <2>1. frame[i] \in T!Frame
    BY <1>1
  <2> QED
    BY <1>4, <2>1 DEF T!Frame
<1>7. /\ \A i \in Ids : f[i].pos \in Ids
      /\ Placed(f, Ids)
  <2>1. /\ \A i \in Ids : Cardinality(Below(R, Ids, i)) \in Ids
        /\ \A i, j \in Ids : Cardinality(Below(R, Ids, i)) = Cardinality(Below(R, Ids, j))
                              => i = j
    <3>1. Cardinality(Ids) = nextId /\ IsFiniteSet(Ids) /\ StrictOrder(R, Ids)
      BY <1>1, <1>3
    <3>2. 0 .. Cardinality(Ids) - 1 = Ids
      BY <1>1
    <3> QED
      BY <3>1, <3>2, Ranking
  <2>2. Ids \subseteq Nat
    BY <1>1
  <2> HIDE DEF first
  <2>3. ASSUME NEW i \in Ids
        PROVE  f[i].pos \in Ids
    BY <1>6, <2>1
  <2>4. ASSUME NEW i \in Ids, NEW j \in Ids, f[i].pos = f[j].pos
        PROVE  i = j
    <3>1. Cardinality(Below(R, Ids, i)) = Cardinality(Below(R, Ids, j))
      BY <1>6, <2>4
    <3> QED
      BY <2>1, <3>1
  <2> QED
    BY <2>2, <2>3, <2>4 DEF Placed
<1>8. c = Cardinality(first)
  BY SameCardinality DEF Ids
<1>9. first = {i \in Ids : i \notin moved \cup Pending} /\ first \subseteq Ids
  BY <1>1 DEF Pending
<1>12. first = {i \in Ids \ moved : frame[i].pos < flushed}
  BY <1>1 DEF Table!Committed
<1>10. IsFiniteSet(first) /\ c \in Nat /\ c <= nextId
  BY <1>1, <1>8, <1>9, FS_Subset, FS_CardinalityType
<1> HIDE DEF first
<1>11. ASSUME NEW i \in Ids
       PROVE  f[i].pos < c <=> i \in first
  <2> DEFINE below == Below(R, Ids, i)
  <2>1. below \in SUBSET Ids /\ f[i].pos = Cardinality(below)
    BY <1>6 DEF Below
  <2>2. IsFiniteSet(below) /\ Cardinality(below) \in Nat
    BY <1>1, <2>1, FS_Subset, FS_CardinalityType
  <2>3. CASE i \in first
    <3>1. below \in SUBSET first
      <4>1. frame[i].pos < flushed /\ frame[i].pos \in Int /\ flushed \in Int
        BY <1>1, <1>12, <2>3
      <4>2. below = {j \in Ids \ moved : frame[j].pos < frame[i].pos}
        BY <1>4, <1>12, <2>3
      <4>3. \A j \in Ids : frame[j].pos \in Int
        BY <1>1
      <4> HIDE DEF below
      <4> QED
        BY <1>12, <4>1, <4>2, <4>3
    <3>2. i \notin below
      BY <1>3 DEF Below, StrictOrder
    <3>3. below # first
      BY <2>3, <3>2
    <3> HIDE DEF below
    <3>4. Cardinality(below) <= c /\ (c = Cardinality(below) => first = below)
      BY <1>8, <1>10, <3>1, FS_Subset
    <3> QED
      BY <1>10, <2>1, <2>2, <2>3, <3>3, <3>4
  <2>4. CASE i \notin first
    <3>1. first \in SUBSET below
      <4>1. CASE i \in moved
        BY <1>4, <1>12, <4>1
      <4>2. CASE i \notin moved
        <5>1. flushed <= frame[i].pos /\ frame[i].pos \in Int /\ flushed \in Int
          BY <1>1, <1>12, <2>4, <4>2
        <5>2. below = {j \in Ids \ moved : frame[j].pos < frame[i].pos}
          BY <1>4, <4>2
        <5>3. \A j \in Ids : frame[j].pos \in Int
          BY <1>1
        <5> HIDE DEF below
        <5> QED
          BY <1>12, <5>1, <5>2, <5>3
      <4> QED
        BY <4>1, <4>2
    <3> HIDE DEF below
    <3>2. c <= Cardinality(below)
      BY <1>8, <2>2, <3>1, FS_Subset
    <3> QED
      BY <1>10, <2>1, <2>2, <2>4, <3>2
  <2> QED
    BY <2>3, <2>4
<1> QED
  BY <1>5, <1>6, <1>7, <1>9, <1>10, <1>11

-----------------------------------------------------------------------------
(***************************************************************************)
(* Cells.                                                                  *)
(***************************************************************************)
LEMMA Cells ==
  /\ \A c \in Cell : Body(c) \in Content
  /\ \A x \in Content : Raw(x) \in Cell /\ Body(Raw(x)) = x
  /\ Nothing \in Cell
  /\ \A s \in Seq(Content) : Packed(s) \in Cell
<1>1. ASSUME NEW c \in Cell
      PROVE  Body(c) \in Content
  <2>1. CASE c.of = <<>>
    BY <2>1 DEF Body, Content
  <2>2. CASE c.of # <<>>
    <3>1. c.of \in Seq(Content)
      BY DEF Cell
    <3>2. c.of[1] \in Content
      BY <2>2, <3>1, EmptySeq, ElementOfSeq
    <3> QED
      BY <3>2 DEF Body, Content
  <2> QED
    BY <2>1, <2>2
<1>2. ASSUME NEW x \in Content
      PROVE  Raw(x) \in Cell /\ Body(Raw(x)) = x
  <2>1. <<x>> \in Seq(Content) /\ <<x>> # <<>> /\ <<x>>[1] = x
    OBVIOUS
  <2> QED
    BY <2>1 DEF Raw, Cell, Body
<1>3. Nothing \in Cell
  BY EmptySeq DEF Nothing, Cell
<1>4. \A s \in Seq(Content) : Packed(s) \in Cell
  BY DEF Packed, Cell
<1> QED
  BY <1>1, <1>2, <1>3, <1>4

\* What is read, from wherever, is a payload or what stands for none.
LEMMA ReadsTyped ==
  ASSUME NEW cells \in Seq(Cell), NEW o
  PROVE  /\ PlainAt(cells, o) \in Content
         /\ \A offs, place : PackedAt(cells, offs, place) \in Content
<1>1. \A n \in DOMAIN cells : cells[n] \in Cell
  BY LenProperties, ElementOfSeq
<1>2. PlainAt(cells, o) \in Content
  BY <1>1, Cells DEF PlainAt, Content
<1>3. ASSUME NEW offs, NEW place
      PROVE  PackedAt(cells, offs, place) \in Content
  <2>1. CASE /\ offs[place[1]] \in DOMAIN cells
             /\ cells[offs[place[1]]].packed
             /\ place[2] \in DOMAIN cells[offs[place[1]]].of
    <3>1. cells[offs[place[1]]].of \in Seq(Content)
      BY <1>1, <2>1 DEF Cell
    <3>2. cells[offs[place[1]]].of[place[2]] \in Content
      BY <2>1, <3>1, LenProperties, ElementOfSeq
    <3> QED
      BY <2>1, <3>2 DEF PackedAt
  <2> QED
    BY <2>1 DEF PackedAt, Content
<1> QED
  BY <1>2, <1>3

-----------------------------------------------------------------------------
(***************************************************************************)
(* The lists by which frames and blocks are written.                       *)
(***************************************************************************)
LEMMA DrainedLists ==
  ASSUME T!Inv, Ordered
  PROVE  Lists(Drained, Pending)
<1>1. Pending \in SUBSET Ids /\ IsFiniteSet(Ids)
  BY TheTable DEF Pending
<1>2. IsFiniteSet(Pending) /\ Placed(frame, Pending)
  BY <1>1, FramesPlaced, PlacedSubset, FS_Subset
<1> QED
  BY <1>2, InOrderLists DEF Drained

LEMMA EligibleIds == Moved \subseteq Ids \ Pending /\ Eligible \subseteq Live /\ Live \subseteq Ids
  BY TableOperators DEF Moved, Eligible, Live, Table!Undeleted, Ids

LEMMA PackingLists ==
  ASSUME T!Inv, Ordered
  PROVE  Lists(Packing, Eligible)
<1>1. Moved \in SUBSET Ids /\ Eligible \in SUBSET Ids
  BY EligibleIds
<1>2. Placed(Table!Reordered(Moved), Ids)
  <2>1. PICK c : c = Table!Cardinality({i \in Table!Ids \ Moved : Table!Committed(i)})
    OBVIOUS
  <2> QED
    BY <1>1, <2>1, Reordering
<1>3. IsFiniteSet(Eligible) /\ Placed(Table!Reordered(Moved), Eligible)
  BY <1>1, <1>2, TheTable, PlacedSubset, FS_Subset
<1> QED
  BY <1>3, InOrderLists DEF Packing

LEMMA RawOrderLists ==
  ASSUME T!Inv, Ordered
  PROVE  Lists(RawOrder, RawPending \cup KeptCommitted)
<1>1. /\ RawPending \in SUBSET Ids /\ KeptCommitted \in SUBSET Ids
      /\ RawPending \cap KeptCommitted = {}
  BY EligibleIds DEF RawPending, KeptCommitted, Pending
<1>2. /\ IsFiniteSet(RawPending) /\ Placed(frame, RawPending)
      /\ IsFiniteSet(KeptCommitted) /\ Placed(frame, KeptCommitted)
  BY <1>1, TheTable, FramesPlaced, PlacedSubset, FS_Subset
<1>3. /\ Lists(InOrder(RawPending, frame), RawPending)
      /\ Lists(InOrder(KeptCommitted, frame), KeptCommitted)
  BY <1>2, InOrderLists
<1>4. CASE blocks = <<>>
  <2>1. Lists(InOrder(KeptCommitted, frame) \o InOrder(RawPending, frame),
              KeptCommitted \cup RawPending)
    BY <1>1, <1>3, ListsConcat
  <2>2. KeptCommitted \cup RawPending = RawPending \cup KeptCommitted
    OBVIOUS
  <2> QED
    BY <1>4, <2>1, <2>2 DEF RawOrder
<1>5. CASE blocks # <<>>
  <2>1. Lists(InOrder(RawPending, frame) \o InOrder(KeptCommitted, frame),
              RawPending \cup KeptCommitted)
    BY <1>1, <1>3, ListsConcat
  <2> QED
    BY <1>5, <2>1 DEF RawOrder
<1> QED
  BY <1>4, <1>5

LEMMA BlockOrderLists ==
  ASSUME blocks \in Seq(Nat)
  PROVE  Lists(BlockOrder, KeptBlocks)
<1> DEFINE R == {p \in KeptBlocks \X KeptBlocks : p[1] < p[2]}
<1>1. KeptBlocks \in SUBSET (1 .. Len(blocks)) /\ Len(blocks) \in Nat
  BY LenProperties DEF KeptBlocks
<1>2. IsFiniteSet(KeptBlocks)
  <2>1. IsFiniteSet(1 .. Len(blocks))
    BY <1>1, FS_Interval
  <2> QED
    BY <1>1, <2>1, FS_Subset
<1>3. StrictOrder(R, KeptBlocks)
  BY <1>1 DEF StrictOrder
<1>4. \A k \in KeptBlocks : Below(R, KeptBlocks, k) = {j \in KeptBlocks : j < k}
  BY DEF Below
<1> DEFINE s == BlockOrder
<1>5. DOMAIN s = 1 .. Cardinality(KeptBlocks) /\ s = [n \in DOMAIN s |-> s[n]]
  <2> DEFINE nth(n) == CHOOSE k \in KeptBlocks : Cardinality({j \in KeptBlocks : j < k}) = n - 1
  <2>1. s = [n \in 1 .. Cardinality(KeptBlocks) |-> nth(n)]
    BY DEF BlockOrder
  <2> HIDE DEF nth, s
  <2> QED
    BY <2>1
<1>6. ASSUME NEW n \in DOMAIN s,
             \E k \in KeptBlocks : Cardinality(Below(R, KeptBlocks, k)) = n - 1
      PROVE  s[n] \in KeptBlocks /\ Cardinality(Below(R, KeptBlocks, s[n])) = n - 1
  <2>1. s[n] = CHOOSE k \in KeptBlocks : Cardinality({j \in KeptBlocks : j < k}) = n - 1
    BY <1>5 DEF BlockOrder
  <2>2. \E k \in KeptBlocks : Cardinality({j \in KeptBlocks : j < k}) = n - 1
    BY <1>4, <1>6
  <2>3. s[n] \in KeptBlocks /\ Cardinality({j \in KeptBlocks : j < s[n]}) = n - 1
    BY <2>1, <2>2, Zenon
  <2> QED
    BY <1>4, <2>3
<1> HIDE DEF R, s
<1>7. Lists(s, KeptBlocks)
  BY <1>2, <1>3, <1>5, <1>6, RankLists
<1> QED
  BY <1>7 DEF s

\* Every packed frame has a place in a block that has a leader, and the block
\* has the frame's payload there.
LEMMA PackedBlocks ==
  ASSUME Lists(Packing, Eligible),
         \A i \in Eligible : Body(Unpacked(i).buf) \in Content,
         NEW i \in Eligible
  PROVE  LET place == PlaceOf(i)
             block == BlockOf(place[1])
         IN  /\ place \in (1 .. BlockCount) \X (1 .. BlockSize)
             /\ block \in Cell /\ block.packed
             /\ place[2] \in DOMAIN block.of
             /\ block.of[place[2]] = Body(Unpacked(i).buf)
             /\ \E j \in Eligible : PlaceOf(j) = <<place[1], 1>>
<1> DEFINE len == Len(Packing)
<1>1. len \in Nat /\ DOMAIN Packing = 1 .. len /\ Packing \in Seq(Eligible)
  BY LenProperties DEF Lists
<1>2. ASSUME NEW j \in Eligible
      PROVE  \E n \in 1 .. len : Packing[n] = j /\ PlaceOf(j) = Place(n)
  <2>1. PICK n \in 1 .. len : Packing[n] = j
    BY <1>1 DEF Lists
  <2>2. (CHOOSE m \in DOMAIN Packing : Packing[m] = j) = n
    BY <1>1, <2>1 DEF Lists
  <2> QED
    BY <2>1, <2>2 DEF PlaceOf
<1>3. PICK n \in 1 .. len : Packing[n] = i /\ PlaceOf(i) = Place(n)
  BY <1>2
<1> DEFINE k == Place(n)[1]
           r == Place(n)[2]
           first == (k - 1) * BlockSize + 1
           last == IF k * BlockSize < len THEN k * BlockSize ELSE len
           chunk == SubSeq(Packing, first, last)
<1>4. /\ k \in 1 .. BlockCount /\ r \in 1 .. BlockSize
      /\ n = (k - 1) * BlockSize + r /\ n <= last
      /\ first \in 1 .. len
      /\ Place(first) = <<k, 1>>
  BY <1>1, Places DEF BlockCount
<1>5. Place(n) = <<k, r>>
  BY DEF Place
<1>6. last \in Int /\ last <= len /\ BlockSize \in Nat
  BY <1>1, <1>4, SizeAssumption
<1>7. /\ chunk \in Seq(Eligible)
      /\ r \in DOMAIN chunk /\ chunk[r] = i
  <2> HIDE DEF k, r, last
  <2>1. first \in Int /\ \A m \in first .. last : Packing[m] \in Eligible
    BY <1>1, <1>4, <1>6, ElementOfSeq
  <2> HIDE DEF first
  <2>2. /\ chunk \in Seq(Eligible)
        /\ Len(chunk) = IF first <= last THEN last - first + 1 ELSE 0
        /\ \A m \in 1 .. last - first + 1 : chunk[m] = Packing[first + m - 1]
    BY <1>6, <2>1, SubSeqProperties
  <2>3. n = first + r - 1 /\ r \in 1 .. last - first + 1
    BY <1>4, <1>6, <2>1 DEF first
  <2>4. DOMAIN chunk = 1 .. Len(chunk)
    BY <2>2, LenProperties
  <2> HIDE DEF chunk
  <2> QED
    BY <1>3, <1>6, <2>1, <2>2, <2>3, <2>4
<1> DEFINE of == [m \in DOMAIN chunk |-> Body(Unpacked(chunk[m]).buf)]
<1>8. BlockOf(k) = Packed(of)
  BY DEF BlockOf
<1>9. of \in Seq(Content)
  <2>1. \A m \in DOMAIN chunk : chunk[m] \in Eligible
    BY <1>7, LenProperties, ElementOfSeq
  <2>2. DOMAIN chunk = 1 .. Len(chunk) /\ Len(chunk) \in Nat
    BY <1>7, LenProperties
  <2> HIDE DEF chunk
  <2> QED
    BY <2>1, <2>2
<1>10. /\ BlockOf(k) \in Cell /\ BlockOf(k).packed
       /\ r \in DOMAIN BlockOf(k).of
       /\ BlockOf(k).of[r] = Body(Unpacked(i).buf)
  <2> HIDE DEF chunk, k, r
  <2>1. DOMAIN of = DOMAIN chunk /\ of[r] = Body(Unpacked(i).buf)
    BY <1>7
  <2> HIDE DEF of
  <2>2. /\ BlockOf(k) \in Cell /\ BlockOf(k).packed /\ BlockOf(k).of = of
    BY <1>8, <1>9, Cells DEF Packed
  <2> QED
    BY <1>7, <2>1, <2>2
<1>11. \E j \in Eligible : PlaceOf(j) = <<k, 1>>
  <2> DEFINE j == Packing[first]
  <2>1. j \in Eligible
    BY <1>1, <1>4, ElementOfSeq
  <2>2. PICK m \in 1 .. len : Packing[m] = j /\ PlaceOf(j) = Place(m)
    BY <1>2, <2>1
  <2>3. m = first
    BY <1>1, <1>4, <2>2 DEF Lists
  <2> QED
    BY <1>4, <2>1, <2>2, <2>3
<1> HIDE DEF k, r
<1> QED
  BY <1>3, <1>4, <1>5, <1>10, <1>11

-----------------------------------------------------------------------------
(***************************************************************************)
(* Type correctness.                                                       *)
(***************************************************************************)
BytesTyped ==
  /\ nextId <= MaxFrames
  /\ pay \in [Ids -> Pay]
  /\ blocks \in Seq(Nat)
  /\ DOMAIN slot \subseteq Ids
  /\ \A i \in DOMAIN slot : slot[i] \in (DOMAIN blocks) \X (1 .. BlockSize)
  /\ \A k \in DOMAIN cache : cache[k] \in Seq(Content)
  /\ data \in Seq(Cell) /\ end \in 0 .. Len(data)
  /\ out \in Seq(Cell)
  /\ vts \in BOOLEAN
  /\ \/ spill = NoFile /\ end = 0
     \/ spill \in Seq(Cell) /\ end <= Len(spill)

\* A file that open() can go on with: see KeptTable for its table.
TypedImage(image) ==
  LET ids == 0 .. image.nextId - 1
  IN  /\ image.nextId <= MaxFrames
      /\ \A i, j \in ids : image.frame[i].pos = image.frame[j].pos => i = j
      /\ image.pay \in [ids -> Pay]
      /\ image.blocks \in Seq(Nat)
      /\ DOMAIN image.slot \subseteq ids
      /\ \A i \in DOMAIN image.slot :
           image.slot[i] \in (DOMAIN image.blocks) \X (1 .. BlockSize)
      /\ image.cells \in Seq(Cell)
      /\ image.vts \in BOOLEAN

FilesTyped ==
  /\ TypedImage(disk)
  /\ pc \in {"idle", "flushed", "written", "brain", "spilling", "down"}
  /\ pc = "written" => tmp = Image
  /\ pc = "brain" => tmp = [disk EXCEPT !.vts = FALSE]

Typed == Kept /\ Ordered /\ BytesTyped /\ FilesTyped

LEMMA MemoryImage ==
  ASSUME T!Inv, Ordered, BytesTyped
  PROVE  TypedImage(Image)
  BY TheTable DEF Ordered, BytesTyped, TypedImage, Image

\* Nothing that Retag does moves a frame.
LEMMA RetagKeepsPlaces ==
  ASSUME T!Inv, Retag
  PROVE  /\ nextId' = nextId /\ flushed' = flushed /\ phase' = phase
         /\ \A i \in Ids : frame'[i].pos = frame[i].pos
<1>1. /\ frame \in [Ids -> T!Frame] /\ Ids = Table!Ids
      /\ \A i \in Ids : frame[i] \in T!Frame
  BY TheTable DEF Ids
<1>2. ASSUME NEW d \in Docs, Table!Delete(d) \/ Table!Tombstone(d)
      PROVE  /\ nextId' = nextId /\ flushed' = flushed /\ phase' = phase
             /\ \A i \in Ids : frame'[i].pos = frame[i].pos
  BY <1>1, <1>2 DEF Table!Delete, Table!Tombstone, T!Frame
<1>3. ASSUME NEW d \in Docs, Table!Restore(d)
      PROVE  /\ nextId' = nextId /\ flushed' = flushed /\ phase' = phase
             /\ \A i \in Ids : frame'[i].pos = frame[i].pos
  BY <1>1, <1>3 DEF Table!Restore, Table!Superseded, T!Frame
<1>4. ASSUME NEW d \in Docs, NEW c \in Cases,
             Table!AddHold(d, c) \/ Table!ReleaseHold(d, c)
      PROVE  /\ nextId' = nextId /\ flushed' = flushed /\ phase' = phase
             /\ \A i \in Ids : frame'[i].pos = frame[i].pos
  BY <1>1, <1>4 DEF Table!AddHold, Table!ReleaseHold, T!Frame
<1>5. ASSUME NEW S, Table!Reclaim(S)
      PROVE  /\ nextId' = nextId /\ flushed' = flushed /\ phase' = phase
             /\ \A i \in Ids : frame'[i].pos = frame[i].pos
  BY <1>1, <1>5 DEF Table!Reclaim, T!Frame
<1> QED
  BY <1>2, <1>3, <1>4, <1>5
     DEF Retag, Table!DropTombstones, Table!DropTombstonesKeep, Table!MarkFrameDeleted

LEMMA PutPlaces ==
  ASSUME T!Inv, NEW d \in Docs, Table!Put(d)
  PROVE  /\ nextId' = nextId + 1 /\ nextId < MaxFrames
         /\ flushed' = flushed /\ phase = "ready" /\ phase' = phase
         /\ Ids' = 0 .. nextId /\ Ids \subseteq Ids' /\ nextId \notin Ids
         /\ frame'[nextId].pos = nextId
         /\ \A i \in Ids : /\ frame'[i].pos = frame[i].pos
                           /\ frame'[i].status = "Deleted" <=> frame[i].status = "Deleted"
<1>1. /\ nextId \in Nat /\ Ids = 0 .. nextId - 1
      /\ frame \in [Ids -> T!Frame]
      /\ \A i \in Ids : frame[i] \in T!Frame
  BY TheTable
<1>2. /\ nextId' = nextId + 1 /\ nextId < MaxFrames
      /\ flushed' = flushed /\ phase = "ready" /\ phase' = phase
      /\ frame' = [i \in 0 .. nextId |->
                 IF i = nextId THEN Table!NewFrame(d)
                 ELSE IF i = docMap[d] THEN Table!Superseded(frame[i])
                 ELSE frame[i]]
  BY DEF Table!Put
<1>3. Ids' = 0 .. nextId
  BY <1>1, <1>2 DEF Ids, Table!Ids
<1>4. frame'[nextId].pos = nextId
  BY <1>1, <1>2 DEF Table!NewFrame
<1>5. \A i \in Ids : /\ frame'[i].pos = frame[i].pos
                     /\ frame'[i].status = "Deleted" <=> frame[i].status = "Deleted"
  BY <1>1, <1>2 DEF Table!Superseded, T!Frame
<1> QED
  BY <1>1, <1>2, <1>3, <1>4, <1>5

\* Where the frames are in what save() lays out.
LEMMA LaidOut ==
  ASSUME T!Inv, Ordered, BytesTyped
  PROVE  /\ Layout \in Seq(Cell)
         /\ \A k \in DOMAIN blocks : BlockOffset(k) \in Nat
         /\ \A k \in KeptBlocks : /\ BlockCell(k) \in Cell
                                  /\ BlockOffset(k) \in DOMAIN Layout
                                  /\ Layout[BlockOffset(k)] = BlockCell(k)
         /\ \A i \in Ids : RawOffset(i) \in Nat
         /\ \A i \in RawPending \cup KeptCommitted :
              /\ RawOffset(i) \in DOMAIN Layout
              /\ Layout[RawOffset(i)] = RawCell(i)
<1> DEFINE raw == RawPending \cup KeptCommitted
           one == [n \in DOMAIN BlockOrder |-> BlockCell(BlockOrder[n])]
           two == [n \in DOMAIN RawOrder |-> RawCell(RawOrder[n])]
<1>1. /\ pay \in [Ids -> Pay] /\ blocks \in Seq(Nat) /\ data \in Seq(Cell)
      /\ \A n \in DOMAIN data : data[n] \in Cell
      /\ \A i \in Ids : pay[i].buf \in Cell /\ pay[i].off \in Nat
      /\ \A k \in DOMAIN blocks : blocks[k] \in Nat
  BY LenProperties, ElementOfSeq DEF BytesTyped, Pay
<1>2. Lists(BlockOrder, KeptBlocks) /\ Lists(RawOrder, raw)
  BY <1>1, BlockOrderLists, RawOrderLists
<1>3. /\ Len(BlockOrder) \in Nat /\ DOMAIN BlockOrder = 1 .. Len(BlockOrder)
      /\ Len(RawOrder) \in Nat /\ DOMAIN RawOrder = 1 .. Len(RawOrder)
      /\ \A n \in DOMAIN BlockOrder : BlockOrder[n] \in KeptBlocks
      /\ \A n \in DOMAIN RawOrder : RawOrder[n] \in raw
  BY <1>2, LenProperties, ElementOfSeq DEF Lists
<1>4. ASSUME NEW k \in KeptBlocks
      PROVE  BlockCell(k) \in Cell
  <2>1. CASE HasLeader(k)
    <3>1. Leader(k) \in Ids
      BY <2>1 DEF HasLeader, Leader
    <3> QED
      BY <1>1, <2>1, <3>1 DEF BlockCell
  <2>2. CASE ~HasLeader(k)
    BY <1>1, <2>2 DEF BlockCell, KeptBlocks, InFile
  <2> QED
    BY <2>1, <2>2
<1>5. ASSUME NEW i \in raw
      PROVE  RawCell(i) \in Cell
  BY <1>1 DEF RawCell, RawPending, KeptCommitted, InFile, Pending
<1>6. /\ one \in Seq(Cell) /\ Len(one) = Len(BlockOrder)
      /\ two \in Seq(Cell) /\ Len(two) = Len(RawOrder)
  <2>1. one \in [1 .. Len(BlockOrder) -> Cell]
    BY <1>3, <1>4
  <2>2. two \in [1 .. Len(RawOrder) -> Cell]
    BY <1>3, <1>5
  <2> HIDE DEF one, two
  <2> QED
    BY <1>3, <2>1, <2>2
<1>7. Layout = one \o two
  BY DEF Layout
<1>8. /\ Layout \in Seq(Cell)
      /\ DOMAIN Layout = 1 .. Len(BlockOrder) + Len(RawOrder)
      /\ \A n \in 1 .. Len(BlockOrder) : Layout[n] = one[n]
      /\ \A n \in 1 .. Len(RawOrder) : Layout[Len(BlockOrder) + n] = two[n]
  <2> HIDE DEF one, two
  <2>1. /\ Layout \in Seq(Cell)
        /\ Len(Layout) = Len(BlockOrder) + Len(RawOrder)
        /\ \A n \in 1 .. Len(BlockOrder) + Len(RawOrder) : Layout[n] =
             IF n <= Len(BlockOrder) THEN one[n] ELSE two[n - Len(BlockOrder)]
    <3>1. /\ one \o two \in Seq(Cell)
          /\ Len(one \o two) = Len(one) + Len(two)
          /\ \A n \in 1 .. Len(one) + Len(two) : (one \o two)[n] =
               IF n <= Len(one) THEN one[n] ELSE two[n - Len(one)]
      BY <1>6, ConcatProperties
    <3> QED
      BY <1>6, <1>7, <3>1
  <2>2. DOMAIN Layout = 1 .. Len(Layout)
    BY <2>1, LenProperties
  <2>3. ASSUME NEW n \in 1 .. Len(RawOrder)
        PROVE  Layout[Len(BlockOrder) + n] = two[n]
    <3>1. /\ Len(BlockOrder) + n \in 1 .. Len(BlockOrder) + Len(RawOrder)
          /\ ~(Len(BlockOrder) + n <= Len(BlockOrder))
          /\ (Len(BlockOrder) + n) - Len(BlockOrder) = n
      BY <1>3
    <3> QED
      BY <2>1, <3>1
  <2>4. \A n \in 1 .. Len(BlockOrder) : Layout[n] = one[n]
    BY <1>3, <2>1
  <2> QED
    BY <2>1, <2>2, <2>3, <2>4
<1>9. ASSUME NEW k \in KeptBlocks
      PROVE  /\ BlockOffset(k) \in DOMAIN Layout /\ BlockOffset(k) \in Nat
             /\ Layout[BlockOffset(k)] = BlockCell(k)
  <2>1. \E n \in DOMAIN BlockOrder : BlockOrder[n] = k
    BY <1>2 DEF Lists
  <2>2. BlockOffset(k) \in DOMAIN BlockOrder /\ BlockOrder[BlockOffset(k)] = k
    BY <2>1 DEF BlockOffset
  <2> QED
    BY <1>3, <1>8, <2>2
<1>10. ASSUME NEW i \in raw
       PROVE  /\ RawOffset(i) \in DOMAIN Layout /\ RawOffset(i) \in Nat
              /\ Layout[RawOffset(i)] = RawCell(i)
  <2> DEFINE m == CHOOSE n \in DOMAIN RawOrder : RawOrder[n] = i
  <2>1. \E n \in DOMAIN RawOrder : RawOrder[n] = i
    BY <1>2 DEF Lists
  <2>2. m \in DOMAIN RawOrder /\ RawOrder[m] = i
    BY <2>1
  <2>3. RawOffset(i) = Len(BlockOrder) + m
    BY DEF RawOffset
  <2> HIDE DEF m
  <2> QED
    BY <1>3, <1>8, <2>2, <2>3
<1>11. \A k \in DOMAIN blocks : BlockOffset(k) \in Nat
  BY <1>1, <1>9 DEF BlockOffset
<1>12. \A i \in Ids : RawOffset(i) \in Nat
  BY <1>1, <1>10 DEF RawOffset
<1> QED
  BY <1>4, <1>8, <1>9, <1>10, <1>11, <1>12

LEMMA SameIds == nextId' = nextId => Ids' = Ids
  BY DEF Ids, Table!Ids

LEMMA OrderedSame ==
  ASSUME T!Inv, Ordered, UNCHANGED table
  PROVE  Ordered' /\ Ids' = Ids /\ Pending' = Pending /\ Live' = Live
<1>1. Ids' = Ids
  BY SameIds DEF table
<1>2. Pending' = Pending
  BY <1>1 DEF table, Pending, Table!Committed
<1>3. Live' = Live
  BY <1>1 DEF table, Live, Table!Undeleted, Ids
<1> QED
  BY <1>1, <1>2, <1>3 DEF Ordered, table

LEMMA OrderedFlush ==
  ASSUME T!Inv, Ordered, Table!Flush
  PROVE  /\ Ordered' /\ Ids' = Ids /\ Pending' = {} /\ Live' = Live
         /\ nextId' = nextId /\ flushed' = nextId' /\ phase' = "ready" /\ frame' = frame
<1>1. /\ nextId' = nextId /\ flushed' = nextId /\ phase' = "ready" /\ frame' = frame
  BY DEF Table!Flush
<1>2. Ids' = Ids
  BY <1>1, SameIds
<1>3. Pending' = {}
  BY <1>1, <1>2, TheTable DEF Pending, Table!Committed
<1>4. Live' = Live
  BY <1>1, <1>2 DEF Live, Table!Undeleted, Ids
<1> QED
  BY <1>1, <1>2, <1>3, <1>4, TheTable DEF Ordered

LEMMA OrderedCompact ==
  ASSUME T!Inv, Ordered, NEW done \in BOOLEAN, Table!CompactTable(Moved, done)
  PROVE  /\ Ordered' /\ Ids' = Ids /\ Live' = Live
         /\ Pending' = Pending \cup Moved
         /\ nextId' = nextId /\ phase = "ready" /\ phase' = "mustSave"
<1>1. /\ frame' = Table!Reordered(Moved)
      /\ flushed' = Table!Cardinality({i \in Table!Ids \ Moved : Table!Committed(i)})
      /\ nextId' = nextId /\ phase = "ready" /\ phase' = "mustSave"
  BY DEF Table!CompactTable
<1>2. Moved \in SUBSET Ids
  BY EligibleIds
<1>3. /\ Placed(frame', Ids) /\ flushed' \in Nat /\ flushed' <= nextId
      /\ \A i \in Ids : /\ frame'[i].pos \in Ids
                        /\ frame'[i].status = frame[i].status
                        /\ frame'[i].pos < flushed' <=> i \notin Moved \cup Pending
  BY <1>1, <1>2, Reordering
<1>4. Ids' = Ids
  BY <1>1, SameIds
<1>5. Live' = Live
  BY <1>3, <1>4 DEF Live, Table!Undeleted, Ids
<1>6. Pending' = Pending \cup Moved
  <2>1. Pending' = {i \in Ids : ~(frame'[i].pos < flushed')}
    BY <1>4 DEF Pending, Table!Committed
  <2> QED
    BY <1>2, <1>3, <2>1 DEF Pending
<1> QED
  BY <1>1, <1>3, <1>4, <1>5, <1>6 DEF Ordered, Placed

LEMMA OrderedPut ==
  ASSUME T!Inv, Ordered, NEW d \in Docs, Table!Put(d)
  PROVE  Ordered' /\ Pending' = Pending \cup {nextId} /\ Live' = Live \cup {nextId}
<1>1. /\ nextId \in Nat /\ flushed \in Nat /\ Ids = 0 .. nextId - 1
      /\ \A i \in Ids : frame[i].pos \in Ids
      /\ Live = {i \in Ids : frame[i].status # "Deleted"}
  BY TheTable
<1>2. /\ nextId' = nextId + 1 /\ flushed' = flushed
      /\ Ids' = Ids \cup {nextId} /\ nextId \notin Ids
      /\ frame'[nextId].pos = nextId /\ frame'[nextId].status = "Active"
      /\ \A i \in Ids : /\ frame'[i].pos = frame[i].pos
                        /\ frame'[i].status = "Deleted" <=> frame[i].status = "Deleted"
  <2>1. frame'[nextId].status = "Active"
    BY <1>1 DEF Table!Put, Table!NewFrame
  <2> QED
    BY <1>1, <2>1, PutPlaces
<1>3. Ordered'
  BY <1>1, <1>2 DEF Ordered
<1>4. Pending' = Pending \cup {nextId}
  <2>1. flushed <= nextId
    BY DEF Ordered
  <2> QED
    BY <1>1, <1>2, <2>1 DEF Pending, Table!Committed
<1>5. Live' = Live \cup {nextId}
  <2>1. Live' = {i \in Ids' : frame'[i].status # "Deleted"}
    BY DEF Live, Table!Undeleted, Ids
  <2> QED
    BY <1>1, <1>2, <2>1
<1> QED
  BY <1>3, <1>4, <1>5

LEMMA OrderedRetag ==
  ASSUME T!Inv, Ordered, Retag
  PROVE  /\ Ordered' /\ Ids' = Ids /\ Pending' = Pending
         /\ nextId' = nextId /\ flushed' = flushed /\ phase' = phase
<1>1. /\ nextId' = nextId /\ flushed' = flushed /\ phase' = phase
      /\ \A i \in Ids : frame'[i].pos = frame[i].pos
  BY RetagKeepsPlaces
<1>2. Ids' = Ids
  BY <1>1, SameIds
<1>3. Pending' = Pending
  BY <1>1, <1>2 DEF Pending, Table!Committed
<1> QED
  BY <1>1, <1>2, <1>3 DEF Ordered

LEMMA OrderedCrash ==
  ASSUME Crash
  PROVE  Ordered' /\ Ids' = {}
  BY DEF Crash, Ordered, Ids, Table!Ids

LEMMA OrderedOpen ==
  ASSUME Kept, TypedImage(disk), Open
  PROVE  /\ Ordered' /\ Ids' = 0 .. disk.nextId - 1 /\ Pending' = {}
         /\ Live' = {i \in DOMAIN disk.frame : disk.frame[i].status # "Deleted"}
<1>1. /\ nextId' = disk.nextId /\ flushed' = disk.nextId /\ frame' = disk.frame
      /\ disk.nextId \in Nat
      /\ DOMAIN disk.frame = 0 .. disk.nextId - 1
      /\ \A i \in 0 .. disk.nextId - 1 : disk.frame[i].pos \in 0 .. disk.nextId - 1
  BY DEF Kept, KeptTable, Open, LastGood
<1>2. Ids' = 0 .. disk.nextId - 1
  BY <1>1 DEF Ids, Table!Ids
<1>3. Pending' = {}
  BY <1>1, <1>2 DEF Pending, Table!Committed
<1>4. Live' = {i \in DOMAIN disk.frame : disk.frame[i].status # "Deleted"}
  BY <1>1, <1>2 DEF Live, Table!Undeleted, Ids
<1> QED
  BY <1>1, <1>2, <1>3, <1>4 DEF Ordered, TypedImage

LEMMA BytesSame ==
  ASSUME BytesTyped, Ids' = Ids, nextId' = nextId, UNCHANGED <<bytes, vts>>,
         out' \in Seq(Cell), spill' = spill
  PROVE  BytesTyped'
  BY DEF BytesTyped, bytes

LEMMA TypedRemember ==
  ASSUME T!Inv, BytesTyped, NEW d \in Docs, Remember(d)
  PROVE  BytesTyped'
<1>1. /\ nextId \in Nat /\ nextId < MaxFrames /\ nextId' = nextId + 1
      /\ Ids' = 0 .. nextId /\ Ids \subseteq Ids'
      /\ \A i \in Ids' : i # nextId => i \in Ids
  BY PutPlaces, TheTable DEF Remember
<1>2. nextId' <= MaxFrames /\ nextId \in Content
  BY <1>1, TableAssumption DEF Content
<1>3. pay' \in [Ids' -> Pay]
  <2>1. [enc |-> "plain", off |-> 0, buf |-> Raw(nextId)] \in Pay
    BY <1>2, Cells DEF Pay
  <2> QED
    BY <1>1, <2>1 DEF Remember, BytesTyped
<1> QED
  BY <1>1, <1>2, <1>3 DEF Remember, files, BytesTyped

\* Where a spill puts the frames it commits.
LEMMA Committing ==
  ASSUME T!Inv, Ordered, BytesTyped, Commits
  PROVE  /\ Lists(Drained, Pending) /\ Base \in Nat
         /\ Seeded \in Seq(Cell) /\ Base <= Len(Seeded)
         /\ pay' \in [Ids -> Pay]
         /\ \A i \in Ids \ Pending : pay'[i] = pay[i]
         /\ \A i \in Pending : /\ pay'[i].enc = pay[i].enc
                               /\ \E n \in DOMAIN Drained : /\ Drained[n] = i
                                                            /\ pay'[i].off = Base + n
<1>1. Lists(Drained, Pending)
  BY DrainedLists
<1>2. /\ Base \in Nat /\ Seeded \in Seq(Cell) /\ Base <= Len(Seeded)
  <2>1. Len(data) \in Nat /\ data \in Seq(Cell) /\ end \in 0 .. Len(data)
    BY LenProperties DEF BytesTyped
  <2> QED
    BY <2>1, CellAssumption DEF BytesTyped, Base, Seeded
<1>3. /\ pay \in [Ids -> Pay] /\ DOMAIN pay' = Ids
      /\ Pending \subseteq Ids
      /\ \A i \in Ids \ Pending : pay'[i] = pay[i]
  BY DEF Commits, BytesTyped, Pending
<1>4. ASSUME NEW i \in Pending
      PROVE  /\ pay'[i] \in Pay /\ pay'[i].enc = pay[i].enc
             /\ \E n \in DOMAIN Drained : Drained[n] = i /\ pay'[i].off = Base + n
  <2> DEFINE n == CHOOSE m \in DOMAIN Drained : Drained[m] = i
  <2>1. n \in DOMAIN Drained /\ Drained[n] = i /\ n \in Nat
    <3>1. \E m \in DOMAIN Drained : Drained[m] = i
      BY <1>1 DEF Lists
    <3>2. DOMAIN Drained \subseteq Nat
      BY <1>1, LenProperties DEF Lists
    <3> QED
      BY <3>1, <3>2
  <2>2. pay'[i] = [pay[i] EXCEPT !.buf = Nothing, !.off = Base + n]
    BY <1>3 DEF Commits
  <2> HIDE DEF n
  <2>3. pay[i] \in Pay /\ Base + n \in Nat /\ Nothing \in Cell
    BY <1>2, <1>3, <2>1, Cells
  <2>4. pay'[i] = [enc |-> pay[i].enc, off |-> Base + n, buf |-> Nothing]
    BY <2>2, <2>3 DEF Pay
  <2>5. pay'[i] \in Pay /\ pay'[i].enc = pay[i].enc /\ pay'[i].off = Base + n
    BY <2>3, <2>4 DEF Pay
  <2> QED
    BY <2>1, <2>5
<1>5. pay' \in [Ids -> Pay]
  <2>1. \A i \in Ids : pay'[i] \in Pay
    BY <1>3, <1>4
  <2>2. pay' = [i \in Ids |-> pay'[i]]
    <3> DEFINE put(i) == IF i \notin Pending THEN pay[i]
          ELSE [pay[i] EXCEPT !.buf = Nothing,
                              !.off = Base + (CHOOSE n \in DOMAIN Drained : Drained[n] = i)]
    <3>1. pay' = [i \in Ids |-> put(i)]
      BY DEF Commits
    <3> HIDE DEF put
    <3> QED
      BY <3>1
  <2> QED
    BY <2>1, <2>2
<1> QED
  BY <1>1, <1>2, <1>3, <1>4, <1>5

\* The cells of a spill: those that are there, and one to every frame.
LEMMA Spilled ==
  ASSUME T!Inv, Ordered, BytesTyped, Commits
  PROVE  LET behind == [n \in DOMAIN Drained |-> pay[Drained[n]].buf]
         IN  /\ Seeded \o behind \in Seq(Cell)
             /\ Len(Seeded \o behind) = Len(Seeded) + Len(Drained)
             /\ \A n \in DOMAIN Seeded : /\ n \in DOMAIN (Seeded \o behind)
                                         /\ (Seeded \o behind)[n] = Seeded[n]
             /\ \A n \in DOMAIN Drained :
                  /\ Len(Seeded) + n \in DOMAIN (Seeded \o behind)
                  /\ (Seeded \o behind)[Len(Seeded) + n] = pay[Drained[n]].buf
<1> DEFINE behind == [n \in DOMAIN Drained |-> pay[Drained[n]].buf]
<1>1. Lists(Drained, Pending) /\ Seeded \in Seq(Cell) /\ Len(Seeded) \in Nat
  BY Committing, LenProperties
<1>2. /\ Len(Drained) \in Nat /\ DOMAIN Drained = 1 .. Len(Drained)
      /\ DOMAIN Seeded = 1 .. Len(Seeded)
      /\ \A n \in DOMAIN Drained : Drained[n] \in Pending
  BY <1>1, LenProperties, ElementOfSeq DEF Lists
<1>3. behind \in Seq(Cell) /\ Len(behind) = Len(Drained)
  <2>1. \A i \in Pending : pay[i].buf \in Cell
    BY DEF BytesTyped, Pay, Pending
  <2>2. behind \in [1 .. Len(Drained) -> Cell]
    BY <1>2, <2>1
  <2> HIDE DEF behind
  <2> QED
    BY <1>2, <2>2
<1>4. \A n \in DOMAIN Drained : behind[n] = pay[Drained[n]].buf
  OBVIOUS
<1> HIDE DEF behind
<1>5. /\ Seeded \o behind \in Seq(Cell)
      /\ Len(Seeded \o behind) = Len(Seeded) + Len(behind)
      /\ \A n \in 1 .. Len(Seeded) + Len(behind) : (Seeded \o behind)[n] =
           IF n <= Len(Seeded) THEN Seeded[n] ELSE behind[n - Len(Seeded)]
  BY <1>1, <1>3, ConcatProperties
<1>6. DOMAIN (Seeded \o behind) = 1 .. Len(Seeded) + Len(behind)
  BY <1>5, LenProperties
<1>7. ASSUME NEW n \in DOMAIN Drained
      PROVE  /\ Len(Seeded) + n \in DOMAIN (Seeded \o behind)
             /\ (Seeded \o behind)[Len(Seeded) + n] = behind[n]
  <2>1. /\ Len(Seeded) + n \in 1 .. Len(Seeded) + Len(behind)
        /\ ~(Len(Seeded) + n <= Len(Seeded))
        /\ (Len(Seeded) + n) - Len(Seeded) = n
    BY <1>1, <1>2, <1>3
  <2> QED
    BY <1>5, <1>6, <2>1
<1>8. \A n \in DOMAIN Seeded : /\ n \in DOMAIN (Seeded \o behind)
                               /\ (Seeded \o behind)[n] = Seeded[n]
  BY <1>1, <1>2, <1>3, <1>5, <1>6
<1> QED
  BY <1>3, <1>4, <1>5, <1>7, <1>8 DEF behind

LEMMA TypedSpills ==
  ASSUME T!Inv, Ordered, BytesTyped, Spills
  PROVE  BytesTyped'
<1>1. CASE Spill
  <2>1. Ids' = Ids /\ nextId' = nextId /\ Commits
    BY <1>1, OrderedFlush DEF Spill, Commits
  <2>2. /\ pay' \in [Ids -> Pay] /\ Base \in Nat /\ Base <= Len(Seeded)
        /\ Lists(Drained, Pending) /\ Seeded \in Seq(Cell)
    BY <2>1, Committing
  <2>3. /\ spill' \in Seq(Cell) /\ Len(spill') = Len(Seeded) + Len(Drained)
    BY <1>1, <2>1, Spilled DEF Spill
  <2>4. Len(Drained) \in Nat /\ Len(Seeded) \in Nat
    BY <2>2, LenProperties DEF Lists
  <2>5. /\ data' = spill' /\ end' = Base + Len(Drained)
        /\ UNCHANGED <<blocks, slot, cache, vts, out>>
    BY <1>1 DEF Spill
  <2>6. end' \in 0 .. Len(spill') /\ end' <= Len(spill')
    BY <2>2, <2>3, <2>4, <2>5
  <2> QED
    BY <2>1, <2>2, <2>3, <2>5, <2>6 DEF BytesTyped
<1>2. CASE SpillFails
  <2>1. UNCHANGED <<blocks, slot, cache, data, vts, out>>
    BY <1>2 DEF SpillFails
  <2>2. data \in Seq(Cell) /\ Len(data) \in Nat
    BY LenProperties DEF BytesTyped
  <2>3. CASE spill' \in HalfSeeded /\ UNCHANGED <<table, pay, end>>
    <3>1. Ids' = Ids /\ nextId' = nextId
      BY <2>3, SameIds DEF table
    <3>2. \/ spill' = NoFile /\ end' = 0
          \/ spill' \in Seq(Cell) /\ end' <= Len(spill')
      <4>1. CASE spill = NoFile
        <5>1. end' = 0 /\ spill' \in {NoFile, <<>>, data}
          BY <2>3, <4>1, CellAssumption DEF HalfSeeded, BytesTyped
        <5>2. CASE spill' = <<>>
          BY <5>1, <5>2, EmptySeq
        <5>3. CASE spill' = data
          BY <2>2, <5>1, <5>3
        <5> QED
          BY <5>1, <5>2, <5>3
      <4>2. CASE spill # NoFile
        BY <2>3, <4>2 DEF HalfSeeded, BytesTyped
      <4> QED
        BY <4>1, <4>2
    <3> QED
      BY <2>1, <2>3, <3>1, <3>2 DEF BytesTyped
  <2>4. CASE Commits /\ spill' = Seeded /\ end' = Base
    <3>1. Ids' = Ids /\ nextId' = nextId
      BY <2>4, OrderedFlush DEF Commits
    <3>2. /\ pay' \in [Ids -> Pay] /\ Base \in Nat /\ Base <= Len(Seeded)
          /\ Seeded \in Seq(Cell)
      BY <2>4, Committing
    <3>3. Base \in 0 .. Len(data)
      BY <2>2, <3>2 DEF Base, BytesTyped
    <3> QED
      BY <2>1, <2>4, <3>1, <3>2, <3>3 DEF BytesTyped
  <2> QED
    BY <1>2, <2>3, <2>4 DEF SpillFails
<1> QED
  BY <1>1, <1>2 DEF Spills

LEMMA TypedRecall ==
  ASSUME T!Inv, BytesTyped, NEW d \in Docs, Recall(d)
  PROVE  BytesTyped'
<1> DEFINE i == docMap[d]
           k == slot[i][1]
<1>1. /\ UNCHANGED <<table, pay, blocks, slot, data, end, vts, out, files>>
      /\ i \in DOMAIN slot /\ FromBlock(i) # Missing
      /\ cache' = [j \in DOMAIN cache \cup {k} |->
                     IF j = k THEN data[blocks[j]].of ELSE cache[j]]
  BY DEF Recall
<1>2. data[blocks[k]].of \in Seq(Content)
  <2>1. blocks[k] \in DOMAIN data
    BY <1>1 DEF FromBlock, PackedAt
  <2>2. data[blocks[k]] \in Cell
    BY <2>1, LenProperties, ElementOfSeq DEF BytesTyped
  <2> QED
    BY <2>2 DEF Cell
<1>3. \A j \in DOMAIN cache' : cache'[j] \in Seq(Content)
  <2> HIDE DEF k
  <2> QED
    BY <1>1, <1>2 DEF BytesTyped
<1>4. Ids' = Ids /\ nextId' = nextId
  BY <1>1, SameIds DEF table
<1> QED
  BY <1>1, <1>3, <1>4 DEF BytesTyped, files

\* Every payload that compact() packs is one.
LEMMA UnpackedTyped ==
  ASSUME BytesTyped, NEW i \in Ids
  PROVE  Unpacked(i) \in Pay /\ Body(Unpacked(i).buf) \in Content
<1>1. pay[i] \in Pay /\ pay[i].buf \in Cell
  BY DEF BytesTyped, Pay
<1>2. OldBytes(i) \in Content
  BY ReadsTyped, CellAssumption DEF OldBytes, FromBlock, BytesTyped, Content
<1>3. CASE i \in Moved
  <2>1. Unpacked(i) = [enc |-> "plain", off |-> 0, buf |-> Raw(OldBytes(i))]
    BY <1>3 DEF Unpacked
  <2>2. Raw(OldBytes(i)) \in Cell /\ Body(Raw(OldBytes(i))) = OldBytes(i)
    BY <1>2, Cells
  <2> QED
    BY <1>2, <2>1, <2>2 DEF Pay
<1>4. CASE i \notin Moved
  BY <1>1, <1>4, Cells DEF Unpacked
<1> QED
  BY <1>3, <1>4

\* What CompactPacks makes of the frames it packs.
LEMMA Packs ==
  ASSUME T!Inv, Ordered, BytesTyped, CompactPacks, NEW i \in Eligible
  PROVE  /\ i \in DOMAIN slot' /\ slot'[i] = PlaceOf(i)
         /\ PlaceOf(i) \in (1 .. BlockCount) \X (1 .. BlockSize)
         /\ BlockOf(PlaceOf(i)[1]) \in Cell /\ BlockOf(PlaceOf(i)[1]).packed
         /\ PlaceOf(i)[2] \in DOMAIN BlockOf(PlaceOf(i)[1]).of
         /\ BlockOf(PlaceOf(i)[1]).of[PlaceOf(i)[2]] = Body(Unpacked(i).buf)
         /\ \E j \in Eligible : PlaceOf(j) = <<PlaceOf(i)[1], 1>>
         /\ pay'[i] \in Pay /\ pay'[i].enc = "block"
         /\ PlaceOf(i)[2] = 1 => pay'[i].buf = BlockOf(PlaceOf(i)[1])
<1>1. Lists(Packing, Eligible) /\ Eligible \subseteq Ids
  BY PackingLists, EligibleIds
<1>2. \A j \in Eligible : Body(Unpacked(j).buf) \in Content
  BY <1>1, UnpackedTyped
<1>3. /\ PlaceOf(i) \in (1 .. BlockCount) \X (1 .. BlockSize)
      /\ BlockOf(PlaceOf(i)[1]) \in Cell /\ BlockOf(PlaceOf(i)[1]).packed
      /\ PlaceOf(i)[2] \in DOMAIN BlockOf(PlaceOf(i)[1]).of
      /\ BlockOf(PlaceOf(i)[1]).of[PlaceOf(i)[2]] = Body(Unpacked(i).buf)
      /\ \E j \in Eligible : PlaceOf(j) = <<PlaceOf(i)[1], 1>>
  BY <1>1, <1>2, PackedBlocks
<1>4. /\ slot' = [j \in Eligible |-> PlaceOf(j)]
      /\ pay' = [j \in Ids |->
           IF j \notin Eligible THEN pay[j]
           ELSE [enc |-> "block", off |-> 0,
                 buf |-> IF PlaceOf(j)[2] = 1 THEN BlockOf(PlaceOf(j)[1]) ELSE Nothing]]
  BY DEF CompactPacks
<1>5. pay'[i] = [enc |-> "block", off |-> 0,
                 buf |-> IF PlaceOf(i)[2] = 1 THEN BlockOf(PlaceOf(i)[1]) ELSE Nothing]
  BY <1>1, <1>4
<1>6. pay'[i] \in Pay
  BY <1>3, <1>5, Cells DEF Pay
<1> QED
  BY <1>3, <1>4, <1>5, <1>6

LEMMA TypedCompact ==
  ASSUME T!Inv, Ordered, BytesTyped, Compact
  PROVE  BytesTyped'
<1>1. UNCHANGED <<cache, data, end, vts, out, files>>
  BY DEF Compact, CompactSkips, TrainingFails, CompactPacks
<1>2. Ids' = Ids /\ nextId' = nextId
  BY OrderedCompact DEF Compact, CompactSkips, TrainingFails, CompactPacks
<1>3. ASSUME pay' \in [Ids -> Pay], UNCHANGED <<blocks, slot>>
      PROVE  BytesTyped'
  BY <1>1, <1>2, <1>3 DEF BytesTyped, files
<1>4. CASE CompactSkips
  <2>1. pay' \in [Ids -> Pay]
    BY <1>4, UnpackedTyped DEF CompactSkips
  <2> QED
    BY <1>3, <1>4, <2>1 DEF CompactSkips
<1>5. CASE TrainingFails
  <2>1. \A i \in Ids : [Unpacked(i) EXCEPT !.buf = Nothing] \in Pay
    BY UnpackedTyped, Cells DEF Pay
  <2>2. pay' \in [Ids -> Pay]
    BY <1>5, <2>1 DEF TrainingFails, BytesTyped
  <2> QED
    BY <1>3, <1>5, <2>2 DEF TrainingFails
<1>6. CASE CompactPacks
  <2>1. Eligible \subseteq Ids
    BY EligibleIds
  <2>2. \A i \in Ids : pay'[i] \in Pay
    BY <1>6, Packs DEF CompactPacks, BytesTyped
  <2>3. pay' \in [Ids -> Pay]
    <3> DEFINE put(i) == IF i \notin Eligible THEN pay[i]
           ELSE [enc |-> "block", off |-> 0,
                 buf |-> IF PlaceOf(i)[2] = 1 THEN BlockOf(PlaceOf(i)[1]) ELSE Nothing]
    <3>1. pay' = [i \in Ids |-> put(i)]
      BY <1>6 DEF CompactPacks
    <3> HIDE DEF put
    <3> QED
      BY <2>2, <3>1
  <2>4. BlockCount \in Nat
    <3>1. Lists(Packing, Eligible)
      BY PackingLists
    <3>2. Len(Packing) \in Nat
      BY <3>1, LenProperties DEF Lists
    <3>3. BlockSize \in Int /\ BlockSize > 0 /\ Len(Packing) + BlockSize - 1 >= 0
      BY <3>2, SizeAssumption
    <3>4. /\ (Len(Packing) + BlockSize - 1) \div BlockSize \in Int
          /\ (Len(Packing) + BlockSize - 1) \div BlockSize >= 0
      BY <3>2, <3>3, Division
    <3> QED
      BY <3>4 DEF BlockCount
  <2>5. blocks' \in Seq(Nat) /\ DOMAIN blocks' = 1 .. BlockCount
    <3>1. blocks' = [k \in 1 .. BlockCount |-> 0]
      BY <1>6 DEF CompactPacks
    <3> QED
      BY <2>4, <3>1
  <2>6. DOMAIN slot' = Eligible
    BY <1>6 DEF CompactPacks
  <2>7. \A i \in Eligible : slot'[i] \in (1 .. BlockCount) \X (1 .. BlockSize)
    BY <1>6, Packs
  <2> QED
    BY <1>1, <1>2, <2>1, <2>3, <2>5, <2>6, <2>7 DEF BytesTyped, files
<1> QED
  BY <1>4, <1>5, <1>6 DEF Compact

LEMMA TypedLayout ==
  ASSUME T!Inv, Ordered, BytesTyped, SaveLaysOut
  PROVE  BytesTyped'
<1>1. /\ Ids' = Ids /\ nextId' = nextId
  BY OrderedFlush DEF SaveLaysOut
<1>2. /\ out' = Layout /\ UNCHANGED <<slot, cache, data, end, vts, files>>
      /\ blocks' = [k \in DOMAIN blocks |-> BlockOffset(k)]
      /\ pay' = [i \in Ids |-> [pay[i] EXCEPT !.off = RawOffset(i), !.buf = Nothing]]
  BY DEF SaveLaysOut
<1>3. /\ out' \in Seq(Cell)
      /\ \A k \in DOMAIN blocks : BlockOffset(k) \in Nat
      /\ \A i \in Ids : RawOffset(i) \in Nat
  BY <1>2, LaidOut
<1>4. blocks' \in Seq(Nat) /\ DOMAIN blocks' = DOMAIN blocks
  <2>1. DOMAIN blocks = 1 .. Len(blocks) /\ Len(blocks) \in Nat
    BY LenProperties DEF BytesTyped
  <2>2. blocks' \in [1 .. Len(blocks) -> Nat]
    BY <1>2, <1>3, <2>1
  <2> QED
    BY <2>1, <2>2
<1>5. pay' \in [Ids -> Pay]
  <2>1. \A i \in Ids : [pay[i] EXCEPT !.off = RawOffset(i), !.buf = Nothing] \in Pay
    BY <1>3, Cells DEF BytesTyped, Pay
  <2> QED
    BY <1>2, <2>1
<1> QED
  BY <1>1, <1>2, <1>3, <1>4, <1>5 DEF BytesTyped, files

LEMMA TypedSaves ==
  ASSUME T!Inv, BytesTyped, SaveWritesTmp \/ SaveRenames \/ SaveFails \/ BrainSave
  PROVE  BytesTyped'
<1>1. Ids' = Ids /\ nextId' = nextId
  BY SameIds DEF SaveWritesTmp, SaveRenames, SaveFails, SaveWriteFails, SaveRenameFails,
                 BrainSaveFails, BrainSave, BrainSaveWritesTmp, BrainSaveRenames, table
<1>2. <<>> \in Seq(Cell)
  BY EmptySeq
<1>3. CASE SaveRenames
  <2>1. Len(out) \in Nat /\ out \in Seq(Cell)
    BY LenProperties DEF BytesTyped
  <2> QED
    BY <1>1, <1>2, <1>3, <2>1 DEF SaveRenames, BytesTyped
<1>4. CASE SaveWritesTmp \/ SaveFails \/ BrainSave
  <2>1. UNCHANGED <<bytes, vts>> /\ out' \in Seq(Cell) /\ spill' = spill
    BY <1>2, <1>4 DEF SaveWritesTmp, SaveFails, SaveWriteFails, SaveRenameFails,
         BrainSaveFails, BrainSave, BrainSaveWritesTmp, BrainSaveRenames, files, BytesTyped
  <2> QED
    BY <1>1, <2>1, BytesSame
<1> QED
  BY <1>3, <1>4

LEMMA TypedCrash ==
  ASSUME BytesTyped, Crash
  PROVE  BytesTyped'
<1>1. Ids' = {} /\ 0 <= MaxFrames
  BY OrderedCrash, TableAssumption
<1>2. /\ data' = <<>> /\ out' = <<>> /\ blocks' = <<>>
      /\ nextId' = 0 /\ end' = 0 /\ vts' = FALSE
      /\ pay' = [i \in {} |-> None] /\ slot' = [i \in {} |-> None]
      /\ cache' = [k \in {} |-> None]
  BY DEF Crash
<1>3. /\ data' \in Seq(Cell) /\ out' \in Seq(Cell) /\ blocks' \in Seq(Nat)
      /\ Len(data') = 0
  BY <1>2, EmptySeq
<1>4. spill' = NoFile \/ (spill' \in Seq(Cell) /\ Len(spill') \in Nat)
  <2>1. spill' \in {spill, NoFile, <<>>, data}
    BY DEF Crash, HalfSeeded
  <2>2. spill' = NoFile \/ spill' \in Seq(Cell)
    BY <2>1, EmptySeq DEF BytesTyped
  <2> QED
    BY <2>2, LenProperties
<1>5. pay' \in [Ids' -> Pay] /\ DOMAIN slot' = {} /\ DOMAIN cache' = {}
  BY <1>1, <1>2
<1>6. \/ spill' = NoFile /\ end' = 0
      \/ spill' \in Seq(Cell) /\ end' <= Len(spill')
  BY <1>2, <1>4
<1>7. nextId' <= MaxFrames /\ end' \in 0 .. Len(data')
  BY <1>1, <1>2, <1>3
<1>8. vts' \in BOOLEAN
  BY <1>2
<1> QED
  BY <1>3, <1>5, <1>6, <1>7, <1>8 DEF BytesTyped

LEMMA TypedOpen ==
  ASSUME Kept, BytesTyped, TypedImage(disk), Open
  PROVE  BytesTyped'
<1>1. Ids' = 0 .. disk.nextId - 1 /\ nextId' = disk.nextId
  BY OrderedOpen DEF Open, LastGood
<1>2. Len(data') \in Nat /\ data' = disk.cells /\ data' \in Seq(Cell)
  BY LenProperties DEF Open, LastGood, TypedImage
<1>3. spill' = NoFile \/ (spill' \in Seq(Cell) /\ Len(spill') \in Nat)
  BY LenProperties DEF Open, BytesTyped
<1>4. /\ pay' = disk.pay /\ blocks' = disk.blocks /\ slot' = disk.slot
      /\ DOMAIN cache' = {} /\ end' = 0 /\ vts' = disk.vts /\ out' = out
  BY DEF Open, LastGood
<1> QED
  BY <1>1, <1>2, <1>3, <1>4 DEF BytesTyped, TypedImage

LEMMA OrderedNext ==
  ASSUME Typed, [Next]_vars
  PROVE  Ordered'
<1>1. T!Inv /\ Ordered /\ Kept /\ TypedImage(disk)
  BY DEF Typed, Kept, FilesTyped
<1>2. UNCHANGED table => Ordered'
  BY <1>1, OrderedSame
<1>3. ASSUME NEW d \in Docs, Remember(d)
      PROVE  Ordered'
  BY <1>1, <1>3, OrderedPut DEF Remember
<1>4. ASSUME NEW d \in Docs, Recall(d)
      PROVE  Ordered'
  BY <1>2, <1>4 DEF Recall
<1>5. CASE Spills
  BY <1>1, <1>2, <1>5, OrderedFlush DEF Spills, Spill, SpillFails, Commits, table
<1>6. CASE Retag
  BY <1>1, <1>6, OrderedRetag
<1>7. CASE Compact
  BY <1>1, <1>7, OrderedCompact DEF Compact, CompactSkips, TrainingFails, CompactPacks
<1>8. CASE SaveLaysOut
  BY <1>1, <1>8, OrderedFlush DEF SaveLaysOut
<1>9. CASE \/ VaultPut \/ SaveWritesTmp \/ SaveRenames \/ SaveFails \/ BrainSave
           \/ UNCHANGED vars
  BY <1>2, <1>9 DEF VaultPut, SaveWritesTmp, SaveRenames, SaveFails, SaveWriteFails,
       SaveRenameFails, BrainSaveFails, BrainSave, BrainSaveWritesTmp, BrainSaveRenames, vars
<1>10. CASE Crash
  BY <1>10, OrderedCrash
<1>11. CASE Open
  BY <1>1, <1>11, OrderedOpen
<1> QED
  BY <1>3, <1>4, <1>5, <1>6, <1>7, <1>8, <1>9, <1>10, <1>11 DEF Next, Save

LEMMA BytesNext ==
  ASSUME Typed, [Next]_vars
  PROVE  BytesTyped'
<1>1. T!Inv /\ Ordered /\ Kept /\ BytesTyped /\ TypedImage(disk)
  BY DEF Typed, Kept, FilesTyped
<1>2. ASSUME NEW d \in Docs, Remember(d)
      PROVE  BytesTyped'
  BY <1>1, <1>2, TypedRemember
<1>3. ASSUME NEW d \in Docs, Recall(d)
      PROVE  BytesTyped'
  BY <1>1, <1>3, TypedRecall
<1>4. CASE Retag
  <2>1. Ids' = Ids /\ nextId' = nextId
    BY <1>1, <1>4, OrderedRetag
  <2>2. UNCHANGED <<bytes, vts>> /\ out' \in Seq(Cell) /\ spill' = spill
    BY <1>1, <1>4 DEF Retag, files, BytesTyped
  <2> QED
    BY <1>1, <2>1, <2>2, BytesSame
<1>5. CASE VaultPut
  BY <1>1, <1>5, SameIds DEF VaultPut, BytesTyped, bytes, table, files
<1>6. CASE UNCHANGED vars
  BY <1>1, <1>6, SameIds DEF vars, BytesTyped, bytes, table, files
<1> QED
  BY <1>1, <1>2, <1>3, <1>4, <1>5, <1>6, TypedSpills, TypedCompact, TypedLayout, TypedSaves,
     TypedCrash, TypedOpen DEF Next, Save

LEMMA FilesNext ==
  ASSUME Typed, [Next]_vars
  PROVE  FilesTyped'
<1>1. T!Inv /\ Ordered /\ BytesTyped /\ FilesTyped /\ Kept
  BY DEF Typed, Kept
<1>2. ASSUME disk' = disk,
             pc' \in {"idle", "flushed", "spilling", "down"}
      PROVE  FilesTyped'
  BY <1>1, <1>2 DEF FilesTyped, TypedImage
<1>3. CASE \/ \E d \in Docs : Remember(d) \/ Recall(d)
           \/ Spills \/ Retag \/ VaultPut \/ Compact \/ SaveLaysOut \/ SaveFails
           \/ Crash \/ Open
  <2>1. disk' = disk
    BY <1>3 DEF Remember, Recall, Spills, Spill, SpillFails, Retag, VaultPut, Compact,
         CompactSkips, TrainingFails, CompactPacks, SaveLaysOut, SaveFails, SaveWriteFails,
         SaveRenameFails, BrainSaveFails, Crash, Open, files
  <2>2. pc' \in {"idle", "flushed", "spilling", "down"}
    BY <1>3 DEF Remember, Recall, Spills, Spill, SpillFails, Retag, VaultPut, Compact,
         CompactSkips, TrainingFails, CompactPacks, SaveLaysOut, SaveFails, SaveWriteFails,
         SaveRenameFails, BrainSaveFails, Crash, Open, files
  <2> QED
    BY <1>2, <2>1, <2>2
<1>4. CASE SaveWritesTmp
  <2>1. tmp' = Image' /\ pc' = "written" /\ disk' = disk
    BY <1>4 DEF SaveWritesTmp, Image, table, bytes
  <2> QED
    BY <1>1, <2>1 DEF FilesTyped, TypedImage
<1>5. CASE SaveRenames
  <2>1. TypedImage(tmp)
    BY <1>1, <1>5, MemoryImage DEF SaveRenames, FilesTyped
  <2>2. disk' = tmp /\ pc' = "idle"
    BY <1>5 DEF SaveRenames
  <2> QED
    BY <2>1, <2>2 DEF FilesTyped, TypedImage
<1>6. CASE BrainSaveWritesTmp
  <2>1. tmp' = [disk EXCEPT !.vts = FALSE] /\ pc' = "brain" /\ disk' = disk
    BY <1>6 DEF BrainSaveWritesTmp
  <2> QED
    BY <1>1, <2>1 DEF FilesTyped, TypedImage
<1>7. CASE BrainSaveRenames
  <2>1. disk' = [disk EXCEPT !.vts = FALSE] /\ pc' = "idle"
    BY <1>1, <1>7 DEF BrainSaveRenames, FilesTyped
  <2>2. DOMAIN disk = Fields
    BY <1>1 DEF Kept, KeptTable
  <2>3. TypedImage(disk')
    BY <1>1, <2>1, <2>2 DEF FilesTyped, TypedImage, Fields
  <2> QED
    BY <2>1, <2>3 DEF FilesTyped, TypedImage
<1>8. CASE UNCHANGED vars
  BY <1>1, <1>8 DEF vars, files, table, bytes, FilesTyped, TypedImage, Image
<1> QED
  BY <1>3, <1>4, <1>5, <1>6, <1>7, <1>8 DEF Next, Save, BrainSave

LEMMA TypedInit == Init => Typed
<1> SUFFICES ASSUME Init PROVE Typed
  OBVIOUS
<1>1. /\ nextId = 0 /\ flushed = 0 /\ end = 0 /\ vts = FALSE /\ pc = "idle"
      /\ blocks = <<>> /\ data = <<>> /\ out = <<>> /\ spill = NoFile
      /\ pay = [i \in {} |-> None] /\ slot = [i \in {} |-> None]
      /\ cache = [k \in {} |-> None]
  BY DEF Init, Table!Init
<1>2. Ids = {} /\ 0 <= MaxFrames
  BY <1>1, TableAssumption DEF Ids, Table!Ids
<1>3. /\ blocks \in Seq(Nat) /\ data \in Seq(Cell) /\ out \in Seq(Cell) /\ Len(data) = 0
  BY <1>1, EmptySeq
<1>4. Ordered
  BY <1>1, <1>2 DEF Ordered
<1>5. BytesTyped
  <2>1. pay \in [Ids -> Pay] /\ DOMAIN slot = {} /\ DOMAIN cache = {}
    BY <1>1, <1>2
  <2>2. nextId <= MaxFrames /\ end \in 0 .. Len(data)
    BY <1>1, <1>2, <1>3
  <2>3. vts \in BOOLEAN
    BY <1>1
  <2> QED
    BY <1>1, <1>3, <2>1, <2>2, <2>3 DEF BytesTyped
<1>6. TypedImage(disk)
  <2>1. /\ disk.nextId = 0 /\ disk.cells = <<>> /\ disk.blocks = <<>>
        /\ disk.pay = [i \in {} |-> None] /\ DOMAIN disk.slot = {} /\ disk.vts = FALSE
    BY DEF Init, EmptyImage
  <2>2. 0 .. disk.nextId - 1 = {}
    BY <2>1
  <2>3. disk.pay \in [0 .. disk.nextId - 1 -> Pay]
    BY <2>1, <2>2
  <2>4. disk.cells \in Seq(Cell) /\ disk.blocks \in Seq(Nat)
    BY <2>1, EmptySeq
  <2> QED
    BY <1>2, <2>1, <2>2, <2>3, <2>4 DEF TypedImage
<1> QED
  BY <1>1, <1>4, <1>5, <1>6, InitKeeps DEF Typed, FilesTyped

LEMMA TypedNext ==
  ASSUME AdminOnSaved, Typed, [Next]_vars
  PROVE  Typed'
<1>1. Kept'
  BY NextKeeps DEF Typed
<1> QED
  BY <1>1, OrderedNext, BytesNext, FilesNext DEF Typed

LEMMA TypedIsTypeOK == Typed => TypeOK
<1> SUFFICES ASSUME Typed PROVE TypeOK
  OBVIOUS
<1>1. Table!TypeOK
  <2>1. T!TypeOK
    BY DEF Typed, Kept, T!Inv
  <2> QED
    BY <2>1 DEF T!TypeOK, Table!TypeOK, T!Ids, Table!Ids, T!Frame, Table!Frame,
                T!Status, Table!Status
<1> QED
  BY <1>1, CellAssumption DEF Typed, BytesTyped, FilesTyped, TypeOK

\* Whatever the process does, and whatever of it fails, every payload has a
\* place in memory, in a block or in a file, every block a frame is in is in
\* the block table, and what open() reads is such a state again.
THEOREM FileWellFormed == ASSUME AdminOnSaved PROVE Spec => []TypeOK
<1>1. Init => Typed
  BY TypedInit
<1>2. Typed /\ [Next]_vars => Typed'
  BY AdminOnSaved, TypedNext
<1>3. Typed => TypeOK
  BY TypedIsTypeOK
<1> QED
  BY <1>1, <1>2, <1>3, PTL DEF Spec

-----------------------------------------------------------------------------
(***************************************************************************)
(* Every version reads back, when no call fails and no .spill is left over *)
(* by an `init` that was killed, or none ever spills (Quiet).  A process   *)
(* that reads between compactions (LongLived) may be answered by its cache *)
(* with the text of an older block; what it saves is right all the same.   *)
(***************************************************************************)
Quiet == AdminOnSaved /\ (Swept \/ ~Spilling) /\ Faults = {}

BlockHas(cell, n, i) == cell.packed /\ n \in DOMAIN cell.of /\ cell.of[n] = i

\* There is a copy of the payload that the next save() finds: in the block
\* that a leader carries or the file has, in the pending buffer, in the file.
InBlock(i) ==
  LET k == slot[i][1]
      n == slot[i][2]
  IN  /\ i \in DOMAIN slot /\ k \in DOMAIN blocks
      /\ \A j \in Ids : IsLeader(j, k) => BlockHas(pay[j].buf, n, i)
      /\ ~HasLeader(k) => InFile(blocks[k]) /\ BlockHas(data[blocks[k]], n, i)

Sourced(i) == IF pay[i].enc = "block" THEN InBlock(i)
              ELSE IF i \in Pending THEN Body(pay[i].buf) = i
              ELSE PlainAt(data, pay[i].off) = i

\* The same with no block but those in the file.
ReadBack(i) == IF pay[i].enc = "block" THEN FromBlock(i)
               ELSE IF i \in Pending THEN Body(pay[i].buf)
               ELSE PlainAt(data, pay[i].off)

Settled == phase = "ready" /\ pc \in {"idle", "spilling", "brain"}
NoLeaders == Pending \cap DOMAIN slot = {}

Safe ==
  /\ Settled => NoLeaders /\ \A i \in Live : ReadBack(i) = i
  /\ pc = "idle" => \A i \in Live : Sourced(i)
  /\ pc \in {"spilling", "brain", "flushed", "written"} => phase = "ready"
  /\ pc \in {"flushed", "written"} => /\ Pending = {}
                                     /\ \A i \in Live : ReadIn(Image, i) = i
  /\ SaveRoundTrips

\* The .spill is the mapped file or there is none, and only a server caches.
NoLeftovers ==
  /\ pc # "down" => spill = NoFile \/ (spill = data /\ end = Len(data))
  /\ Spilling \/ (spill = NoFile /\ pc # "spilling")
  /\ LongLived \/ DOMAIN cache = {}

LEMMA LivePayloads ==
  ASSUME T!Inv, BytesTyped
  PROVE  \A i \in Live : i \in Ids /\ i \in Content /\ i # Junk /\ i # Missing
<1>1. nextId \in Nat /\ Ids = 0 .. nextId - 1 /\ Live \subseteq Ids
  BY TheTable, EligibleIds
<1> QED
  BY <1>1, TableAssumption, CellAssumption DEF BytesTyped, Content

\* A payload that is read is where it is read.
LEMMA PlainPlace ==
  ASSUME NEW i, i # Junk, NEW cells, NEW o
  PROVE  PlainAt(cells, o) = i => o \in DOMAIN cells /\ Body(cells[o]) = i
  BY DEF PlainAt

LEMMA BlockPlace ==
  ASSUME NEW i, i # Missing, NEW cells, NEW offs, NEW place
  PROVE  PackedAt(cells, offs, place) = i
           <=> /\ offs[place[1]] \in DOMAIN cells
               /\ BlockHas(cells[offs[place[1]]], place[2], i)
  BY DEF PackedAt, BlockHas

LEMMA ReadBackIsSourced ==
  ASSUME T!Inv, BytesTyped, NoLeaders, NEW i \in Live, ReadBack(i) = i
  PROVE  Sourced(i) /\ (i \in Pending => pay[i].enc = "plain")
<1>1. i \in Ids /\ i # Junk /\ i # Missing
  BY LivePayloads
<1>2. ASSUME NEW k, NEW j
      PROVE  ~IsLeader(j, k)
  BY DEF IsLeader, NoLeaders
<1>3. CASE pay[i].enc = "block"
  <2>1. FromBlock(i) = i
    BY <1>3 DEF ReadBack
  <2>2. i \in DOMAIN slot /\ PackedAt(data, blocks, slot[i]) = i
    BY <1>1, <2>1 DEF FromBlock
  <2>3. /\ blocks[slot[i][1]] \in DOMAIN data
        /\ BlockHas(data[blocks[slot[i][1]]], slot[i][2], i)
    BY <1>1, <2>2, BlockPlace
  <2>4. slot[i][1] \in DOMAIN blocks
    BY <2>2 DEF BytesTyped
  <2> QED
    BY <1>2, <1>3, <2>2, <2>3, <2>4 DEF Sourced, InBlock, InFile, NoLeaders
<1>4. CASE pay[i].enc # "block"
  <2>1. pay[i].enc = "plain"
    BY <1>1, <1>4 DEF BytesTyped, Pay
  <2> QED
    BY <1>4, <2>1 DEF Sourced, ReadBack
<1> QED
  BY <1>3, <1>4

LEMMA SafeReads ==
  ASSUME ~LongLived, Safe, NoLeftovers, pc = "idle", phase = "ready", NEW i \in Live
  PROVE  Read(i) = i
  BY DEF Safe, NoLeftovers, Settled, Read, ReadBack, FromBlockCached

LEMMA AllSourced ==
  T!Inv /\ BytesTyped /\ NoLeaders /\ (\A i \in Live : ReadBack(i) = i)
    => \A i \in Live : Sourced(i)
  BY ReadBackIsSourced

\* A table that serves reads is safe if what it reads is right.
LEMMA SettledIsSafe ==
  ASSUME T!Inv', BytesTyped', Settled', NoLeaders',
         \A i \in Live' : ReadBack(i)' = i,
         SaveRoundTrips'
  PROVE  Safe'
<1>1. (T!Inv /\ BytesTyped /\ NoLeaders /\ (\A i \in Live : ReadBack(i) = i))'
         => (\A i \in Live : Sourced(i))'
  BY AllSourced, PTL
<1> QED
  BY <1>1 DEF Settled, Safe

LEMMA RememberSafe ==
  ASSUME Typed, Typed', Safe, NEW d \in Docs, Remember(d)
  PROVE  Safe'
<1>1. /\ T!Inv /\ Ordered /\ BytesTyped /\ T!Inv' /\ BytesTyped'
      /\ NoLeaders /\ \A i \in Live : ReadBack(i) = i
  BY DEF Typed, Kept, Safe, Settled, Remember, Table!Put
<1>2. /\ Pending' = Pending \cup {nextId} /\ Live' = Live \cup {nextId}
      /\ nextId \notin Ids /\ Ids' = 0 .. nextId /\ Ids \subseteq Ids' /\ nextId \in Nat
      /\ phase' = "ready"
  BY <1>1, OrderedPut, PutPlaces, TheTable DEF Remember
<1>3. /\ UNCHANGED <<blocks, slot, cache, data, end, spill, disk>>
      /\ pc' \in {"idle", "spilling"}
      /\ pay' = [i \in 0 .. nextId |->
               IF i = nextId THEN [enc |-> "plain", off |-> 0, buf |-> Raw(i)]
                             ELSE pay[i]]
  BY DEF Remember, files
<1>4. NoLeaders'
  BY <1>1, <1>2, <1>3 DEF NoLeaders, BytesTyped
<1>5. ASSUME NEW i \in Live
      PROVE  ReadBack(i)' = i
  <2>1. i \in Ids /\ i \in Ids' /\ i # nextId
    BY <1>1, <1>2, LivePayloads
  <2>2. pay'[i] = pay[i] /\ (i \in Pending' <=> i \in Pending)
    BY <1>2, <1>3, <2>1
  <2> QED
    BY <1>1, <1>3, <2>2 DEF ReadBack, FromBlock
<1>6. ASSUME NEW i, i = nextId
      PROVE  ReadBack(i)' = i
  <2>1. pay'[nextId] = [enc |-> "plain", off |-> 0, buf |-> Raw(nextId)]
    BY <1>2, <1>3
  <2>2. Body(Raw(nextId)) = nextId
    BY DEF Body, Raw
  <2> QED
    BY <1>2, <1>6, <2>1, <2>2 DEF ReadBack
<1>7. SaveRoundTrips'
  BY <1>3 DEF Safe, SaveRoundTrips, ReadIn, Remember
<1>8. \A i \in Live' : ReadBack(i)' = i
  BY <1>2, <1>5, <1>6
<1> QED
  BY <1>1, <1>2, <1>3, <1>4, <1>7, <1>8, SettledIsSafe DEF Settled

LEMMA SpillSafe ==
  ASSUME Typed, Typed', Safe, NoLeftovers, Spill
  PROVE  Safe'
<1>1. /\ T!Inv /\ Ordered /\ BytesTyped /\ T!Inv' /\ BytesTyped' /\ Commits
      /\ NoLeaders /\ \A i \in Live : ReadBack(i) = i
  BY DEF Typed, Kept, Safe, Settled, Spill
<1>2. /\ Pending' = {} /\ Live' = Live /\ Ids' = Ids /\ phase' = "ready"
  BY <1>1, OrderedFlush DEF Commits
<1>3. /\ UNCHANGED <<blocks, slot, cache, disk>> /\ pc' = "idle"
      /\ data' = spill' /\ end' = Base + Len(Drained)
      /\ spill' = Seeded \o [n \in DOMAIN Drained |-> pay[Drained[n]].buf]
  BY DEF Spill
<1>4. Seeded = data /\ Base = Len(data)
  BY DEF NoLeftovers, Spill, Seeded, Base
<1>5. /\ Lists(Drained, Pending)
      /\ \A i \in Ids \ Pending : pay'[i] = pay[i]
      /\ \A i \in Pending : /\ pay'[i].enc = pay[i].enc
                            /\ \E n \in DOMAIN Drained : /\ Drained[n] = i
                                                         /\ pay'[i].off = Base + n
  BY <1>1, Committing
<1>6. /\ Len(data') = Len(data) + Len(Drained)
      /\ \A n \in DOMAIN data : n \in DOMAIN data' /\ data'[n] = data[n]
      /\ \A n \in DOMAIN Drained : /\ Len(data) + n \in DOMAIN data'
                                   /\ data'[Len(data) + n] = pay[Drained[n]].buf
  BY <1>1, <1>3, <1>4, Spilled
<1>7. NoLeaders'
  BY <1>2 DEF NoLeaders
<1>8. ASSUME NEW i \in Live
      PROVE  ReadBack(i)' = i
  <2>1. i \in Ids /\ i # Junk /\ i # Missing /\ ReadBack(i) = i
    BY <1>1, LivePayloads
  <2>2. CASE pay[i].enc = "block"
    <3>1. i \in DOMAIN slot /\ PackedAt(data, blocks, slot[i]) = i
      BY <2>1, <2>2 DEF ReadBack, FromBlock
    <3>2. /\ blocks[slot[i][1]] \in DOMAIN data
          /\ BlockHas(data[blocks[slot[i][1]]], slot[i][2], i)
      BY <2>1, <3>1, BlockPlace
    <3>3. PackedAt(data', blocks', slot'[i]) = i
      <4>1. blocks' = blocks /\ slot'[i] = slot[i]
        BY <1>3
      <4>2. /\ blocks'[slot'[i][1]] \in DOMAIN data'
            /\ BlockHas(data'[blocks'[slot'[i][1]]], slot'[i][2], i)
        BY <1>6, <3>2, <4>1
      <4> QED
        BY <4>2 DEF PackedAt, BlockHas
    <3>4. pay'[i].enc = "block"
      BY <1>5, <2>1, <2>2
    <3> QED
      BY <1>3, <3>1, <3>3, <3>4 DEF ReadBack, FromBlock
  <2>3. CASE pay[i].enc # "block" /\ i \in Pending
    <3>1. PICK n \in DOMAIN Drained : Drained[n] = i /\ pay'[i].off = Base + n
      BY <1>5, <2>3
    <3>2. Body(pay[i].buf) = i
      BY <2>1, <2>3 DEF ReadBack
    <3>3. PlainAt(data', pay'[i].off) = i
      BY <1>4, <1>6, <3>1, <3>2 DEF PlainAt
    <3>4. pay'[i].enc # "block"
      BY <1>5, <2>3
    <3> QED
      BY <1>2, <3>3, <3>4 DEF ReadBack
  <2>4. CASE pay[i].enc # "block" /\ i \notin Pending
    <3>1. PlainAt(data, pay[i].off) = i /\ pay'[i] = pay[i]
      BY <1>5, <2>1, <2>4 DEF ReadBack
    <3>2. PlainAt(data', pay'[i].off) = i
      BY <1>6, <2>1, <3>1, PlainPlace DEF PlainAt
    <3> QED
      BY <1>2, <2>4, <3>1, <3>2 DEF ReadBack
  <2> QED
    BY <2>2, <2>3, <2>4
<1>9. SaveRoundTrips'
  BY <1>3, <1>4, <1>6 DEF Safe, SaveRoundTrips, ReadIn
<1>10. \A i \in Live' : ReadBack(i)' = i
  BY <1>2, <1>8
<1> QED
  BY <1>1, <1>2, <1>3, <1>7, <1>9, <1>10, SettledIsSafe DEF Settled

\* A step from one such state to another that moves no bytes.
LEMMA UnmovedSafe ==
  ASSUME Safe, Settled, Settled', T!Inv', BytesTyped', SaveRoundTrips',
         UNCHANGED <<pay, blocks, slot, data>>, Pending' = Pending, Live' \subseteq Live
  PROVE  Safe'
<1>1. NoLeaders /\ \A i \in Live : ReadBack(i) = i
  BY DEF Safe, Settled
<1>2. pay' = pay /\ blocks' = blocks /\ slot' = slot /\ data' = data
  OBVIOUS
<1>3. \A i \in Live' : ReadBack(i)' = i
  BY <1>1, <1>2 DEF ReadBack, FromBlock
<1>4. NoLeaders'
  BY <1>1, <1>2 DEF NoLeaders
<1> QED
  BY <1>1, <1>2, <1>3, <1>4, SettledIsSafe

LEMMA SameDisk ==
  ASSUME SaveRoundTrips, disk' = disk
  PROVE  SaveRoundTrips'
  BY DEF SaveRoundTrips, ReadIn

LEMMA RetagSafe ==
  ASSUME AdminOnSaved, Typed, Typed', Safe, Retag
  PROVE  Safe'
<1>1. /\ T!Inv /\ Ordered /\ T!Inv' /\ BytesTyped' /\ SaveRoundTrips
  BY DEF Typed, Kept, Safe
<1>2. pc = "idle" /\ pc' = "idle" /\ UNCHANGED <<pay, blocks, slot, data>> /\ disk' = disk
  BY DEF Retag, bytes, files
<1>3. phase = "ready"
  BY DEF Retag, Table!Delete, Table!Tombstone, Table!Restore, Table!AdminReady,
         Table!AddHold, Table!ReleaseHold, Table!DropTombstones,
         Table!DropTombstonesKeep, Table!MarkFrameDeleted, Table!Reclaim
<1>4. Ids' = Ids /\ Pending' = Pending /\ phase' = phase
  BY <1>1, OrderedRetag
<1>5. Live' \subseteq Live
  <2>1. T!PurgedStays
    BY AdminOnSaved, <1>1, TableAssumptions, RetagSteps, T!NextPurged
  <2>2. \A i \in Ids : frame[i].status = "Deleted" => frame'[i].status = "Deleted"
    BY <1>1, <2>1, TheTable DEF T!PurgedStays
  <2> QED
    BY <1>4, <2>2 DEF Live, Table!Undeleted, Ids
<1> QED
  BY <1>1, <1>2, <1>3, <1>4, <1>5, SameDisk, UnmovedSafe DEF Settled

LEMMA RecallSafe ==
  ASSUME Typed, Typed', Safe, NEW d \in Docs, Recall(d)
  PROVE  Safe'
<1>1. /\ T!Inv /\ Ordered /\ T!Inv' /\ BytesTyped' /\ SaveRoundTrips
  BY DEF Typed, Kept, Safe
<1>2. /\ pc = "idle" /\ pc' = "idle" /\ UNCHANGED <<pay, blocks, slot, data>>
      /\ disk' = disk /\ UNCHANGED table /\ phase = "ready" /\ phase' = phase
  BY DEF Recall, files, table
<1> QED
  BY <1>1, <1>2, OrderedSame, SameDisk, UnmovedSafe DEF Settled

LEMMA VaultPutSafe ==
  ASSUME Typed, Typed', Safe, VaultPut
  PROVE  Safe'
<1>1. /\ T!Inv /\ Ordered /\ T!Inv' /\ BytesTyped' /\ SaveRoundTrips
  BY DEF Typed, Kept, Safe
<1>2. /\ pc = "idle" /\ pc' = "idle" /\ UNCHANGED <<pay, blocks, slot, data>> /\ disk' = disk
      /\ UNCHANGED table /\ phase = "ready" /\ phase' = phase
  BY DEF VaultPut, bytes, files, table
<1> QED
  BY <1>1, <1>2, OrderedSame, SameDisk, UnmovedSafe DEF Settled

LEMMA BrainSaveSafe ==
  ASSUME Typed, Typed', Safe, BrainSave
  PROVE  Safe'
<1>1. /\ T!Inv /\ Ordered /\ T!Inv' /\ BytesTyped' /\ SaveRoundTrips
      /\ DOMAIN disk = Fields
  BY DEF Typed, Kept, Safe, KeptTable
<1>2. /\ UNCHANGED <<pay, blocks, slot, data>> /\ UNCHANGED table /\ phase' = phase
      /\ phase = "ready"
      /\ pc \in {"idle", "brain"} /\ pc' \in {"idle", "brain"}
  BY DEF BrainSave, BrainSaveWritesTmp, BrainSaveRenames, table, bytes, Safe
<1>3. SaveRoundTrips'
  <2>1. CASE disk' = disk
    BY <1>1, <2>1, SameDisk
  <2>2. CASE disk' = [disk EXCEPT !.vts = FALSE]
    <3>1. /\ disk'.frame = disk.frame /\ disk'.pay = disk.pay /\ disk'.cells = disk.cells
          /\ disk'.blocks = disk.blocks /\ disk'.slot = disk.slot
      BY <1>1, <2>2 DEF Fields
    <3> QED
      BY <1>1, <3>1 DEF SaveRoundTrips, ReadIn
  <2> QED
    BY <2>1, <2>2 DEF BrainSave, BrainSaveWritesTmp, BrainSaveRenames, Typed, FilesTyped
<1> QED
  BY <1>1, <1>2, <1>3, OrderedSame, UnmovedSafe DEF Settled

LEMMA CompactSafe ==
  ASSUME Quiet, Typed, Typed', Safe, Compact
  PROVE  Safe'
<1>1. /\ T!Inv /\ Ordered /\ BytesTyped /\ SaveRoundTrips
      /\ CompactSkips \/ CompactPacks
  BY DEF Typed, Kept, Safe, Quiet, Compact, CompactSkips, CompactPacks, TrainingFails
<1>2. /\ pc = "idle" /\ pc' = "idle" /\ \E done \in BOOLEAN : Table!CompactTable(Moved, done)
      /\ UNCHANGED <<cache, data, end, files>>
  BY <1>1 DEF CompactSkips, CompactPacks
<1>3. /\ Ids' = Ids /\ Live' = Live /\ Pending' = Pending \cup Moved
      /\ phase = "ready" /\ phase' = "mustSave"
  BY <1>1, <1>2, OrderedCompact
<1>4. NoLeaders /\ \A i \in Live : ReadBack(i) = i
  BY <1>2, <1>3 DEF Safe, Settled
<1>5. ASSUME NEW i \in Live
      PROVE  /\ i \in Ids /\ i \in Pending' /\ i \in Eligible
             /\ Body(Unpacked(i).buf) = i /\ Unpacked(i).enc = "plain"
  <2>1. i \in Ids /\ i \in Content /\ i # Junk /\ i # Missing /\ ReadBack(i) = i
    BY <1>1, <1>4, LivePayloads
  <2>2. CASE i \in Pending
    <3>1. pay[i].enc = "plain"
      BY <1>1, <1>4, <2>2, ReadBackIsSourced
    <3>2. i \notin Moved
      BY <2>2 DEF Moved
    <3> QED
      BY <1>3, <2>1, <2>2, <3>1, <3>2 DEF ReadBack, Eligible, Unpacked
  <2>3. CASE i \notin Pending
    <3>1. OldBytes(i) = i
      BY <2>1, <2>3 DEF ReadBack, OldBytes
    <3>2. i \in Moved
      BY <2>1, <2>3, <3>1 DEF Moved
    <3>3. Unpacked(i) = [enc |-> "plain", off |-> 0, buf |-> Raw(i)]
      BY <3>1, <3>2 DEF Unpacked
    <3> QED
      BY <1>3, <2>1, <3>2, <3>3, Cells DEF Eligible
  <2> QED
    BY <2>2, <2>3
<1>6. ASSUME \A i \in Live : Sourced(i)'
      PROVE  Safe'
  BY <1>1, <1>2, <1>3, <1>6, SameDisk DEF Safe, Settled, files
<1>7. CASE CompactSkips
  <2>1. pay' = [i \in Ids |-> Unpacked(i)]
    BY <1>7 DEF CompactSkips
  <2>2. ASSUME NEW i \in Live
        PROVE  Sourced(i)'
    BY <1>5, <2>1 DEF Sourced
  <2> QED
    BY <1>6, <2>2
<1>8. CASE CompactPacks
  <2>1. ASSUME NEW i \in Live
        PROVE  Sourced(i)'
    <3>0. PICK k, n : k = PlaceOf(i)[1] /\ n = PlaceOf(i)[2]
      OBVIOUS
    <3>1. /\ i \in DOMAIN slot' /\ slot'[i] = PlaceOf(i)
          /\ PlaceOf(i) \in (1 .. BlockCount) \X (1 .. BlockSize)
          /\ BlockOf(k).packed /\ n \in DOMAIN BlockOf(k).of
          /\ BlockOf(k).of[n] = Body(Unpacked(i).buf)
          /\ \E j \in Eligible : PlaceOf(j) = <<k, 1>>
          /\ pay'[i].enc = "block"
      BY <1>1, <1>5, <1>8, <3>0, Packs
    <3>2. /\ DOMAIN slot' = Eligible /\ DOMAIN blocks' = 1 .. BlockCount
          /\ Eligible \subseteq Live
      BY <1>8, EligibleIds DEF CompactPacks
    <3>3. BlockHas(BlockOf(k), n, i)
      BY <1>5, <3>1 DEF BlockHas
    <3>4. ASSUME NEW j \in Ids, IsLeader(j, k)'
          PROVE  BlockHas(pay'[j].buf, n, i)
      <4>1. j \in Eligible /\ slot'[j] = <<k, 1>>
        BY <3>2, <3>4 DEF IsLeader
      <4>2. PlaceOf(j) = <<k, 1>> /\ (PlaceOf(j)[2] = 1 => pay'[j].buf = BlockOf(PlaceOf(j)[1]))
        BY <1>1, <1>8, <4>1, Packs
      <4>3. pay'[j].buf = BlockOf(k)
        BY <4>2
      <4> QED
        BY <3>3, <4>3
    <3>5. HasLeader(k)'
      <4>1. PICK j \in Eligible : PlaceOf(j) = <<k, 1>>
        BY <3>1
      <4>2. slot'[j] = <<k, 1>> /\ j \in DOMAIN slot' /\ j \in Pending' /\ j \in Ids
        BY <1>1, <1>5, <1>8, <3>2, <4>1, Packs
      <4> QED
        BY <1>3, <4>2 DEF HasLeader, IsLeader
    <3>6. slot'[i][1] = k /\ slot'[i][2] = n /\ k \in DOMAIN blocks'
      BY <3>0, <3>1, <3>2
    <3> QED
      BY <1>3, <3>1, <3>4, <3>5, <3>6 DEF Sourced, InBlock
  <2> QED
    BY <1>6, <2>1
<1> QED
  BY <1>1, <1>7, <1>8

\* What save() lays out reads back where the new offsets say.
LEMMA LayoutReads ==
  ASSUME T!Inv, Ordered, BytesTyped, SaveLaysOut, NEW i \in Live, Sourced(i)
  PROVE  ReadIn(Image, i)' = i
<1>1. i \in Ids /\ i # Junk /\ i # Missing /\ Ids' = Ids
  BY LivePayloads, OrderedFlush DEF SaveLaysOut
<1>2. /\ out' = Layout /\ slot' = slot
      /\ blocks' = [k \in DOMAIN blocks |-> BlockOffset(k)]
      /\ pay' = [j \in Ids |-> [pay[j] EXCEPT !.off = RawOffset(j), !.buf = Nothing]]
  BY DEF SaveLaysOut
<1>3. /\ pay[i] \in Pay
      /\ pay'[i].enc = pay[i].enc /\ pay'[i].off = RawOffset(i)
  BY <1>1, <1>2 DEF BytesTyped, Pay
<1>4. ReadIn(Image, i)' = IF pay'[i].enc # "block" THEN PlainAt(out', pay'[i].off)
                          ELSE IF i \in DOMAIN slot' THEN PackedAt(out', blocks', slot'[i])
                          ELSE Missing
  BY DEF ReadIn, Image
<1>5. CASE pay[i].enc # "block"
  <2>1. pay[i].enc = "plain"
    BY <1>3, <1>5 DEF Pay
  <2>2. i \in RawPending \cup KeptCommitted /\ Body(RawCell(i)) = i
    <3>1. CASE i \in Pending
      BY <1>5, <2>1, <3>1 DEF Sourced, RawPending, RawCell
    <3>2. CASE i \notin Pending
      <4>1. PlainAt(data, pay[i].off) = i
        BY <1>5, <3>2 DEF Sourced
      <4> QED
        BY <1>1, <2>1, <3>2, <4>1, PlainPlace DEF KeptCommitted, InFile, RawCell
    <3> QED
      BY <3>1, <3>2
  <2>3. RawOffset(i) \in DOMAIN Layout /\ Layout[RawOffset(i)] = RawCell(i)
    BY <2>2, LaidOut
  <2>4. PlainAt(Layout, RawOffset(i)) = i
    BY <2>2, <2>3 DEF PlainAt
  <2> QED
    BY <1>2, <1>3, <1>4, <1>5, <2>4
<1>6. CASE pay[i].enc = "block"
  <2>0. PICK k, n : k = slot[i][1] /\ n = slot[i][2]
    OBVIOUS
  <2>1. /\ i \in DOMAIN slot /\ k \in DOMAIN blocks
        /\ \A j \in Ids : IsLeader(j, k) => BlockHas(pay[j].buf, n, i)
        /\ ~HasLeader(k) => InFile(blocks[k]) /\ BlockHas(data[blocks[k]], n, i)
    BY <1>6, <2>0 DEF Sourced, InBlock
  <2>2. k \in KeptBlocks
    BY <2>1 DEF KeptBlocks
  <2>3. BlockHas(BlockCell(k), n, i)
    <3>1. CASE HasLeader(k)
      <4>1. Leader(k) \in Ids /\ IsLeader(Leader(k), k)
        BY <3>1 DEF HasLeader, Leader
      <4> QED
        BY <2>1, <3>1, <4>1 DEF BlockCell
    <3>2. CASE ~HasLeader(k)
      BY <2>1, <3>2 DEF BlockCell
    <3> QED
      BY <3>1, <3>2
  <2>4. BlockOffset(k) \in DOMAIN Layout /\ BlockHas(Layout[BlockOffset(k)], n, i)
    BY <2>2, <2>3, LaidOut
  <2>5. blocks'[slot[i][1]] = BlockOffset(k)
    BY <1>2, <2>0, <2>1
  <2>6. PackedAt(Layout, blocks', slot[i]) = i
    BY <1>1, <2>0, <2>4, <2>5, BlockPlace
  <2> QED
    BY <1>2, <1>3, <1>4, <1>6, <2>1, <2>6
<1> QED
  BY <1>5, <1>6

LEMMA LayoutSafe ==
  ASSUME Typed, Typed', Safe, SaveLaysOut
  PROVE  Safe'
<1>1. /\ T!Inv /\ Ordered /\ BytesTyped /\ SaveRoundTrips
      /\ \A i \in Live : Sourced(i)
  BY DEF Typed, Kept, Safe, SaveLaysOut
<1>2. Live' = Live /\ Pending' = {} /\ phase' = "ready"
  BY <1>1, OrderedFlush DEF SaveLaysOut
<1>3. /\ pc' = "flushed" /\ disk' = disk
  BY DEF SaveLaysOut, files
<1>4. \A i \in Live : ReadIn(Image, i)' = i
  BY <1>1, LayoutReads
<1> QED
  BY <1>1, <1>2, <1>3, <1>4, SameDisk DEF Safe, Settled

LEMMA WritesTmpSafe ==
  ASSUME Typed, Typed', Safe, SaveWritesTmp
  PROVE  Safe'
<1>1. /\ T!Inv /\ Ordered /\ SaveRoundTrips
      /\ pc = "flushed" /\ pc' = "written" /\ disk' = disk
      /\ UNCHANGED table /\ UNCHANGED <<bytes, out, vts, spill>>
  BY DEF Typed, Kept, Safe, SaveWritesTmp
<1>2. Pending' = Pending /\ Live' = Live
  BY <1>1, OrderedSame
<1>3. Image' = Image /\ phase' = phase
  BY <1>1 DEF Image, table, bytes
<1>4. \A i \in Live : ReadIn(Image, i)' = ReadIn(Image, i)
  BY <1>3 DEF ReadIn
<1>5. data' = data /\ end' = end /\ cache' = cache /\ spill' = spill
  BY <1>1 DEF bytes
<1> QED
  BY <1>1, <1>2, <1>3, <1>4, <1>5, SameDisk DEF Safe, Settled

LEMMA RenamesSafe ==
  ASSUME Typed, Typed', Safe, SaveRenames
  PROVE  Safe'
<1>1. /\ T!Inv /\ Ordered /\ T!Inv' /\ BytesTyped'
      /\ phase = "ready" /\ Pending = {} /\ \A i \in Live : ReadIn(Image, i) = i
      /\ tmp = Image
  BY DEF Typed, Kept, FilesTyped, Safe, SaveRenames
<1>2. /\ UNCHANGED table /\ phase' = phase /\ pc' = "idle"
      /\ disk' = Image /\ data' = out /\ spill' = NoFile
      /\ UNCHANGED <<pay, blocks, slot, cache>>
  BY <1>1 DEF SaveRenames, table
<1>3. Pending' = {} /\ Live' = Live /\ Ids' = Ids
  BY <1>1, <1>2, OrderedSame
<1>4. /\ disk'.frame = frame /\ disk'.pay = pay /\ disk'.cells = out
      /\ disk'.blocks = blocks /\ disk'.slot = slot
  BY <1>2 DEF Image
<1>5. ASSUME NEW i
      PROVE  ReadIn(disk', i) = ReadIn(Image, i)
  BY <1>2
<1>6. SaveRoundTrips'
  <2>1. ASSUME NEW i \in DOMAIN disk'.frame, disk'.frame[i].status # "Deleted"
        PROVE  ReadIn(disk', i) = i
    <3>1. i \in Live
      BY <1>1, <1>4, <2>1, TheTable
    <3> QED
      BY <1>1, <1>5, <3>1
  <2> QED
    BY <2>1 DEF SaveRoundTrips, ReadIn
<1>7. ASSUME NEW i \in Live
      PROVE  ReadBack(i)' = i
  <2>1. ReadIn(Image, i) = i
    BY <1>1
  <2> QED
    BY <1>2, <1>3, <2>1 DEF ReadIn, Image, ReadBack, FromBlock
<1>8. \A i \in Live' : ReadBack(i)' = i
  BY <1>3, <1>7
<1>9. NoLeaders'
  BY <1>3 DEF NoLeaders
<1> QED
  BY <1>1, <1>2, <1>6, <1>8, <1>9, SettledIsSafe DEF Settled

LEMMA CrashSafe ==
  ASSUME Safe, Crash
  PROVE  Safe'
  BY SameDisk DEF Safe, Settled, Crash

LEMMA OpenSafe ==
  ASSUME Typed, Typed', Safe, Open
  PROVE  Safe'
<1>1. /\ Kept /\ TypedImage(disk) /\ T!Inv' /\ BytesTyped' /\ SaveRoundTrips
  BY DEF Typed, Kept, FilesTyped, Safe
<1>2. /\ Pending' = {}
      /\ Live' = {i \in DOMAIN disk.frame : disk.frame[i].status # "Deleted"}
  BY <1>1, OrderedOpen
<1>3. /\ pc' = "idle" /\ phase' = "ready" /\ disk' = disk
      /\ pay' = disk.pay /\ blocks' = disk.blocks /\ slot' = disk.slot
      /\ data' = disk.cells
  BY DEF Open, LastGood
<1>4. ASSUME NEW i \in Live'
      PROVE  ReadBack(i)' = i
  <2>1. ReadIn(disk, i) = i
    BY <1>1, <1>2 DEF SaveRoundTrips
  <2> QED
    BY <1>2, <1>3, <2>1 DEF ReadIn, ReadBack, FromBlock
<1>5. NoLeaders'
  BY <1>2 DEF NoLeaders
<1> QED
  BY <1>1, <1>3, <1>4, <1>5, SameDisk, SettledIsSafe DEF Settled

LEMMA StutterSafe ==
  ASSUME Typed, Safe, UNCHANGED vars
  PROVE  Safe'
<1>1. /\ UNCHANGED table /\ phase' = phase /\ UNCHANGED <<pc, disk, data>>
      /\ pay' = pay /\ blocks' = blocks /\ slot' = slot /\ Image' = Image
  BY DEF vars, table, bytes, files, Image
<1>2. Ids' = Ids /\ Pending' = Pending /\ Live' = Live
  BY OrderedSame, <1>1 DEF Typed, Kept
<1>3. ASSUME NEW i
      PROVE  /\ ReadIn(Image, i)' = ReadIn(Image, i)
             /\ ReadBack(i)' = ReadBack(i)
  BY <1>1, <1>2 DEF ReadIn, ReadBack, FromBlock
<1>4. ASSUME NEW i
      PROVE  Sourced(i)' = Sourced(i)
  BY <1>1, <1>2 DEF Sourced, InBlock, IsLeader, HasLeader, InFile
<1> QED
  BY <1>1, <1>2, <1>3, <1>4, SameDisk DEF Safe, Settled, NoLeaders

LEMMA SafeInit == Init => Safe
<1> SUFFICES ASSUME Init PROVE Safe
  OBVIOUS
<1>1. /\ nextId = 0 /\ phase = "ready" /\ pc = "idle"
      /\ DOMAIN disk.frame = {} /\ DOMAIN slot = {}
  BY DEF Init, Table!Init, EmptyImage
<1>2. Live = {}
  BY <1>1 DEF Live, Table!Undeleted, Table!Ids
<1>3. SaveRoundTrips
  BY <1>1 DEF SaveRoundTrips
<1> QED
  BY <1>1, <1>2, <1>3 DEF Safe, Settled, NoLeaders

LEMMA SafeNext ==
  ASSUME Quiet, Typed, Typed', Safe, NoLeftovers, [Next]_vars
  PROVE  Safe'
<1>1. ASSUME NEW d \in Docs, Remember(d)
      PROVE  Safe'
  BY <1>1, RememberSafe
<1>2. ASSUME NEW d \in Docs, Recall(d)
      PROVE  Safe'
  BY <1>2, RecallSafe
<1>3. ~SpillFails /\ ~SaveFails
  <2>1. Faults = {}
    BY DEF Quiet
  <2> QED
    BY <2>1 DEF SpillFails, SaveFails, SaveWriteFails, SaveRenameFails, BrainSaveFails
<1>4. Spill \/ Retag \/ VaultPut \/ Compact => Safe'
  BY SpillSafe, RetagSafe, VaultPutSafe, CompactSafe DEF Quiet
<1>5. Save \/ BrainSave => Safe'
  BY LayoutSafe, WritesTmpSafe, RenamesSafe, BrainSaveSafe DEF Save
<1>6. Crash \/ Open \/ UNCHANGED vars => Safe'
  BY CrashSafe, OpenSafe, StutterSafe
<1> QED
  BY <1>1, <1>2, <1>3, <1>4, <1>5, <1>6 DEF Next, Spills

LEMMA NoLeftoversNext ==
  ASSUME Quiet, Typed, NoLeftovers, [Next]_vars
  PROVE  NoLeftovers'
<1>1. CASE UNCHANGED <<pc, spill, data, end, cache>>
  BY <1>1 DEF NoLeftovers
<1>2. ASSUME NEW d \in Docs, Remember(d)
      PROVE  NoLeftovers'
  BY <1>2 DEF NoLeftovers, Remember, files
<1>3. ASSUME NEW d \in Docs, Recall(d)
      PROVE  NoLeftovers'
  BY <1>3 DEF NoLeftovers, Recall, files
<1>4. CASE Spill
  <2>1. T!Inv /\ Ordered /\ BytesTyped /\ Commits
    BY <1>4 DEF Typed, Kept, Spill
  <2>2. Seeded = data /\ Base = Len(data) /\ Spilling
    BY <1>4 DEF NoLeftovers, Spill, Seeded, Base
  <2>3. /\ spill' = Seeded \o [n \in DOMAIN Drained |-> pay[Drained[n]].buf]
        /\ data' = spill' /\ end' = Base + Len(Drained) /\ cache' = cache /\ pc' = "idle"
    BY <1>4 DEF Spill
  <2>4. Len(data') = Len(data) + Len(Drained)
    BY <2>1, <2>2, <2>3, Spilled
  <2> QED
    BY <2>2, <2>3, <2>4 DEF NoLeftovers
<1>5. CASE Retag \/ VaultPut \/ Compact
  BY <1>1, <1>5 DEF Retag, VaultPut, Compact, CompactSkips, TrainingFails, CompactPacks,
       bytes, files
<1>6. CASE Save \/ BrainSave
  BY <1>6 DEF NoLeftovers, Save, SaveLaysOut, SaveWritesTmp, SaveRenames, BrainSave,
       BrainSaveWritesTmp, BrainSaveRenames, bytes, files
<1>7. ~SpillFails /\ ~SaveFails
  <2>1. Faults = {}
    BY DEF Quiet
  <2> QED
    BY <2>1 DEF SpillFails, SaveFails, SaveWriteFails, SaveRenameFails, BrainSaveFails
<1>8. CASE Crash
  BY <1>8 DEF NoLeftovers, Crash
<1>9. CASE Open
  BY <1>9 DEF NoLeftovers, Open, Quiet
<1>10. CASE UNCHANGED vars
  BY <1>1, <1>10 DEF vars, bytes, files
<1> QED
  BY <1>2, <1>3, <1>4, <1>5, <1>6, <1>7, <1>8, <1>9, <1>10 DEF Next, Spills

LEMMA SafeAlways == ASSUME Quiet PROVE Spec => [](Typed /\ Safe /\ NoLeftovers)
<1>1. Init => Typed /\ Safe
  BY TypedInit, SafeInit
<1>2. Init => NoLeftovers
  BY DEF Init, NoLeftovers
<1>3. Typed /\ Safe /\ NoLeftovers /\ [Next]_vars => (Typed /\ Safe /\ NoLeftovers)'
  BY TypedNext, SafeNext, NoLeftoversNext DEF Quiet
<1> QED
  BY <1>1, <1>2, <1>3, PTL DEF Spec

\* Every version that has not been purged, current or history, reads back as
\* the bytes that were put, whatever sequence of puts, spills, compactions,
\* saves, crashes and reopenings came before.
THEOREM VersionsReadable == ASSUME Quiet, ~LongLived PROVE Spec => []AllReadable
<1>1. Safe /\ NoLeftovers => AllReadable
  BY SafeReads DEF AllReadable
<1> QED
  BY <1>1, SafeAlways, PTL

\* What a save() wrote reads back from the file, also if a server with a stale
\* cache wrote it.
THEOREM SavesRoundTrip == ASSUME Quiet PROVE Spec => []SaveRoundTrips
<1>1. Safe => SaveRoundTrips
  BY DEF Safe
<1> QED
  BY <1>1, SafeAlways, PTL
=============================================================================
