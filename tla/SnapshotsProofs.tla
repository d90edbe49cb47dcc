---------------------------- MODULE SnapshotsProofs ----------------------------
(***************************************************************************)
(* Proofs about Snapshots.  The server names as the base of a difference   *)
(* only a snapshot that the client still has, whichever messages and       *)
(* packets are lost (Bases); that a ring no longer holds the base can only *)
(* make the difference be dropped.  If the rings have room enough, all     *)
(* that cgame gets is as the server built it (Built): a frame refers to    *)
(* the records of its world until the ring has come round, on the server   *)
(* and on the client, and a merge keeps ahead of what it overwrites.       *)
(***************************************************************************)
EXTENDS Snapshots, SharedLemmas

-------------------------------------------------------------------------------
(* Sets of numbers in order *)

\* The place of n among the members of S.
Rank(S, n) == Cardinality({m \in S : m < n})

LEMMA RankFacts ==
  ASSUME NEW S \in SUBSET Nat, IsFiniteSet(S)
  PROVE  /\ Cardinality(S) \in Nat
         /\ \A n \in Nat : Rank(S, n) \in Nat
         /\ \A n \in S : Rank(S, n) \in 0 .. Cardinality(S) - 1
         /\ \A m \in S : \A n \in Nat : m < n => Rank(S, m) < Rank(S, n)
         /\ \A c \in 0 .. Cardinality(S) - 1 : \E n \in S : Rank(S, n) = c
<1> DEFINE Below(n) == {m \in S : m < n}
<1>1. Cardinality(S) \in Nat
  BY FS_CardinalityType
<1>2. ASSUME NEW n
      PROVE  /\ IsFiniteSet(Below(n)) /\ Cardinality(Below(n)) \in Nat
             /\ Cardinality(Below(n)) <= Cardinality(S)
  BY FS_Subset, FS_CardinalityType
<1>3. ASSUME NEW n \in S
      PROVE  Cardinality(Below(n)) < Cardinality(S)
  <2>1. Below(n) # S
    OBVIOUS
  <2>2. Cardinality(Below(n)) # Cardinality(S)
    BY <2>1, FS_Subset
  <2>3. QED
    BY <1>1, <1>2, <2>2
<1>4. ASSUME NEW m \in S, NEW n \in Nat, m < n
      PROVE  Cardinality(Below(m)) < Cardinality(Below(n))
  <2>1. Below(m) \in SUBSET Below(n)
    <3>1. \A k \in Nat : k < m => k < n
      BY <1>4
    <3>2. QED
      BY <3>1
  <2>2. m \in Below(n) /\ m \notin Below(m)
    BY <1>4
  <2>3. Below(m) # Below(n)
    BY <2>2
  <2> HIDE DEF Below
  <2>4. /\ Cardinality(Below(m)) <= Cardinality(Below(n))
        /\ Cardinality(Below(m)) # Cardinality(Below(n))
    BY <1>2, <2>1, <2>3, FS_Subset
  <2>5. QED
    BY <1>2, <2>4
<1>5. ASSUME NEW c \in 0 .. Cardinality(S) - 1
      PROVE  \E n \in S : Cardinality(Below(n)) = c
  <2> DEFINE T == 0 .. Cardinality(S) - 1
             f == [n \in S |-> Cardinality(Below(n))]
  <2>1. IsFiniteSet(T) /\ Cardinality(T) = Cardinality(S)
    <3>1. Cardinality(S) - 1 \in Int /\ 0 \in Int
      BY <1>1
    <3>2. /\ IsFiniteSet(T)
          /\ Cardinality(T) = IF 0 > Cardinality(S) - 1 THEN 0
                              ELSE Cardinality(S) - 1 - 0 + 1
      BY <3>1, FS_Interval
    <3>3. QED
      BY <1>1, <3>2
  <2> HIDE DEF Below
  <2>2. \A n \in S : Cardinality(Below(n)) \in T
    BY <1>1, <1>2, <1>3
  <2>3. f \in [S -> T]
    BY <2>2
  <2>4. ASSUME NEW m \in S, NEW n \in S, m # n
        PROVE  f[m] # f[n]
    <3>1. m < n \/ n < m
      BY <2>4
    <3>2. QED
      BY <1>2, <1>4, <3>1
  <2>5. f \in Injection(S, T)
    BY <2>3, <2>4 DEF Injection, IsInjective
  <2>6. f \in Surjection(S, T)
    BY <2>1, <2>5, FS_Injection
  <2>7. QED
    BY <2>6 DEF Surjection
<1>6. \A n : Rank(S, n) = Cardinality(Below(n))
  BY DEF Rank
<1> HIDE DEF Below
<1>7. \A n \in S : Rank(S, n) \in 0 .. Cardinality(S) - 1
  BY <1>1, <1>2, <1>3, <1>6
<1>8. QED
  BY <1>1, <1>2, <1>4, <1>5, <1>6, <1>7

\* A set of numbers in order: each is preceded by as many as are less.
LEMMA SortedFacts ==
  ASSUME NEW S \in SUBSET Nat, IsFiniteSet(S)
  PROVE  /\ Sorted(S) \in [1 .. Cardinality(S) -> S]
         /\ \A n \in S : Sorted(S)[Rank(S, n) + 1] = n
         /\ \A i \in 1 .. Cardinality(S) : Rank(S, Sorted(S)[i]) = i - 1
<1> DEFINE N == Cardinality(S)
           Good(q) == \A i, j \in DOMAIN q : i < j => q[i] < q[j]
           p == [i \in 1 .. N |-> CHOOSE n \in S : Rank(S, n) = i - 1]
<1>1. /\ N \in Nat
      /\ \A n \in S : Rank(S, n) \in 0 .. N - 1
      /\ \A m, n \in S : m < n => Rank(S, m) < Rank(S, n)
      /\ \A c \in 0 .. N - 1 : \E n \in S : Rank(S, n) = c
  BY RankFacts
<1>2. ASSUME NEW i \in 1 .. N
      PROVE  p[i] \in S /\ Rank(S, p[i]) = i - 1
  <2>1. i - 1 \in 0 .. N - 1
    BY <1>1
  <2>2. \E n \in S : Rank(S, n) = i - 1
    <3> HIDE DEF N
    <3>1. QED
      BY <1>1, <2>1
  <2>3. QED
    BY <2>2
<1>3. p \in [1 .. N -> S]
  BY <1>2
<1>4. ASSUME NEW i \in 1 .. N, NEW j \in 1 .. N, i < j
      PROVE  p[i] < p[j]
  <2>1. p[i] \in S /\ p[j] \in S /\ Rank(S, p[i]) = i - 1 /\ Rank(S, p[j]) = j - 1
    BY <1>2
  <2> HIDE DEF p, N
  <2>2. p[i] \in Nat /\ p[j] \in Nat /\ i \in Nat /\ j \in Nat
    <3>1. \A n \in S : n \in Nat
      OBVIOUS
    <3>2. p[i] \in Nat /\ p[j] \in Nat
      BY <2>1, <3>1
    <3>3. N \in Nat
      BY <1>1
    <3>4. QED
      BY ONLY <3>2, <3>3, i \in 1 .. N, j \in 1 .. N
  <2>3. p[i] # p[j]
    BY <1>4, <2>1, <2>2
  <2>4. ~(p[j] < p[i])
    <3>1. ASSUME p[j] < p[i] PROVE FALSE
      <4>1. Rank(S, p[j]) < Rank(S, p[i])
        BY <1>1, <2>1, <3>1
      <4>2. QED
        BY <1>4, <2>1, <2>2, <4>1
    <3>2. QED
      BY <3>1
  <2>5. QED
    BY <2>2, <2>3, <2>4
<1>5. Good(p)
  <2>1. DOMAIN p = 1 .. N
    OBVIOUS
  <2> HIDE DEF p, N
  <2>2. QED
    BY <1>4, <2>1
<1>6. Sorted(S) = CHOOSE q \in [1 .. N -> S] : Good(q)
  BY DEF Sorted
<1>7. PICK q \in [1 .. N -> S] : q = Sorted(S) /\ Good(q)
  <2> HIDE DEF p, Good, N
  <2>1. QED
    BY <1>3, <1>5, <1>6
<1> HIDE DEF N
\* q and p agree, from the first place on.
<1>8. \A i \in 1 .. N : Rank(S, q[i]) = i - 1
  <2> DEFINE Bad == {i \in 1 .. N : Rank(S, q[i]) # i - 1}
  <2>1. SUFFICES ASSUME Bad # {} PROVE FALSE
    OBVIOUS
  <2>2. \A i \in 1 .. N : q[i] \in S /\ Rank(S, q[i]) \in 0 .. N - 1
    BY <1>1, <1>7
  <2>3. ASSUME NEW i \in 1 .. N, NEW j \in 1 .. N, i < j
        PROVE  Rank(S, q[i]) < Rank(S, q[j])
    <3>1. q[i] < q[j]
      BY <1>7, <2>3
    <3>2. QED
      BY <1>1, <2>2, <3>1
  <2>4. Bad \in SUBSET Nat
    BY <1>1
  <2>5. PICK i \in Bad : \A j \in Bad : i <= j
    BY <2>1, <2>4, LeastNumber
  <2>6. i \in 1 .. N /\ Rank(S, q[i]) # i - 1
    BY <2>5
  \* The rank is at least i - 1, since the one before has i - 2.
  <2>7. Rank(S, q[i]) >= i - 1
    <3>1. CASE i = 1
      BY <2>2, <2>6, <3>1
    <3>2. CASE i # 1
      <4>1. i - 1 \in 1 .. N /\ i - 1 < i
        BY <1>1, <2>6, <3>2
      <4>2. i - 1 \notin Bad
        BY <1>1, <2>4, <2>5, <4>1
      <4>3. Rank(S, q[i - 1]) = i - 1 - 1
        BY <4>1, <4>2
      <4>4. Rank(S, q[i - 1]) < Rank(S, q[i])
        BY <2>3, <2>6, <4>1
      <4>5. QED
        BY <1>1, <2>2, <2>6, <4>3, <4>4
    <3>3. QED
      BY <3>1, <3>2
  <2>8. q \in Surjection(1 .. N, S)
    <3>1. IsFiniteSet(1 .. N) /\ Cardinality(1 .. N) = N
      <4>1. 1 \in Int /\ N \in Int
        BY <1>1
      <4>2. /\ IsFiniteSet(1 .. N)
            /\ Cardinality(1 .. N) = IF 1 > N THEN 0 ELSE N - 1 + 1
        BY <4>1, FS_Interval
      <4>3. QED
        BY <1>1, <4>2
    <3>2. ASSUME NEW k \in 1 .. N, NEW j \in 1 .. N, k # j
          PROVE  q[k] # q[j]
      <4>1. k < j \/ j < k
        BY <3>2
      <4>2. QED
        BY <2>2, <2>3, <4>1
    <3>3. q \in Injection(1 .. N, S)
      BY <1>7, <3>2 DEF Injection, IsInjective
    <3>4. QED
      BY <3>1, <3>3, FS_Injection DEF N
  <2>9. PICK n \in S : Rank(S, n) = i - 1
    <3>1. i - 1 \in 0 .. N - 1
      BY <1>1, <2>6
    <3>2. QED
      BY <1>1, <3>1
  <2>10. PICK j \in 1 .. N : q[j] = n
    BY <2>8 DEF Surjection
  <2>11. i \in Nat /\ j \in Nat /\ Rank(S, q[i]) \in Nat
    BY <1>1, <2>2, <2>6
  <2>12. CASE j < i
    <3>1. j \notin Bad
      BY <2>5, <2>11, <2>12
    <3>2. Rank(S, q[j]) = j - 1
      BY <3>1
    <3>3. QED
      BY <2>9, <2>10, <2>11, <2>12, <3>2
  <2>13. CASE j = i
    BY <2>6, <2>9, <2>10, <2>13
  <2>14. CASE i < j
    <3>1. Rank(S, q[i]) < Rank(S, q[j])
      BY <2>3, <2>6, <2>14
    <3>2. QED
      BY <2>7, <2>9, <2>10, <2>11, <3>1
  <2>15. QED
    BY <2>11, <2>12, <2>13, <2>14
\* So the member of rank c is in place c + 1.
<1>9. ASSUME NEW n \in S
      PROVE  q[Rank(S, n) + 1] = n
  <2>1. PICK i : i = Rank(S, n) + 1
    OBVIOUS
  <2>2. i \in 1 .. N /\ i - 1 = Rank(S, n)
    BY <1>1, <2>1
  <2>3. q[i] \in S /\ Rank(S, q[i]) = Rank(S, n)
    BY <1>7, <1>8, <2>2
  <2>4. q[i] \in Nat /\ n \in Nat
    BY <2>3
  <2>5. ~(q[i] < n) /\ ~(n < q[i])
    <3>1. PICK m : m = q[i]
      OBVIOUS
    <3>2. m \in S /\ Rank(S, m) = Rank(S, n) /\ Rank(S, n) \in Nat
      BY <1>1, <2>3, <3>1
    <3>3. /\ m < n => Rank(S, m) < Rank(S, n)
          /\ n < m => Rank(S, n) < Rank(S, m)
      BY <1>1, <3>2
    <3>4. QED
      BY <3>1, <3>2, <3>3
  <2>6. QED
    BY <2>1, <2>4, <2>5
<1>10. QED
  BY <1>7, <1>8, <1>9 DEF N

\* A sequence of records is of what o says, and each number is in it once.
Represents(entries, o) ==
    /\ Numbers(entries) = DOMAIN o
    /\ \A n \in DOMAIN o : ValueOf(entries, n) = o[n]

\* Records by number, as in a world.
IsRecords(records) ==
    DOMAIN records \in SUBSET Number /\ records \in [DOMAIN records -> Value]

LEMMA RecordsFacts ==
  ASSUME NEW records, IsRecords(records)
  PROVE  /\ DOMAIN records \in SUBSET Nat
         /\ IsFiniteSet(DOMAIN records)
         /\ Cardinality(DOMAIN records) \in Nat
BY SnapshotsAssumption, FS_Subset, FS_CardinalityType DEF IsRecords

LEMMA WorldFacts ==
  ASSUME NEW world \in World \cup OtherWorld, NEW k \in Kind
  PROVE  IsRecords(world[k])
BY SnapshotsAssumption DEF IsRecords

LEMMA ListedFacts ==
  ASSUME NEW records, IsRecords(records)
  PROVE  LET S == DOMAIN records
             l == Listed(records)
         IN  /\ l \in [1 .. Cardinality(S) -> Entry]
             /\ \A i \in 1 .. Cardinality(S) :
                   l[i] = [number |-> Sorted(S)[i], value |-> records[Sorted(S)[i]]]
             /\ Represents(l, records)
             /\ Contents(l) = records
<1> DEFINE S == DOMAIN records
           N == Cardinality(S)
<1>1. /\ S \in SUBSET Nat /\ S \in SUBSET Number /\ IsFiniteSet(S) /\ N \in Nat
      /\ records \in [S -> Value]
  BY RecordsFacts DEF IsRecords
<1>2. PICK w : w = records
  OBVIOUS
<1>3. PICK l : l = Listed(records)
  OBVIOUS
<1> DEFINE q == Sorted(S)
<1>4. /\ q \in [1 .. N -> S]
      /\ \A n \in S : q[Rank(S, n) + 1] = n
      /\ \A i \in 1 .. N : Rank(S, q[i]) = i - 1
      /\ \A n \in S : Rank(S, n) \in 0 .. N - 1
  BY <1>1, SortedFacts, RankFacts
<1>5. l = [i \in 1 .. N |-> [number |-> q[i], value |-> w[q[i]]]]
  BY <1>2, <1>3 DEF Listed
<1> HIDE DEF N, q
<1>6. w \in [S -> Value]
  BY <1>1, <1>2
<1> HIDE DEF S
<1>7. ASSUME NEW i \in 1 .. N
      PROVE  /\ l[i] = [number |-> q[i], value |-> w[q[i]]] /\ q[i] \in S
             /\ l[i].number = q[i] /\ l[i].value = w[q[i]] /\ l[i] \in Entry
  <2>1. q[i] \in S /\ q[i] \in Number /\ w[q[i]] \in Value
    BY <1>1, <1>4, <1>6
  <2>2. l[i] = [number |-> q[i], value |-> w[q[i]]]
    BY <1>5
  <2>3. QED
    BY <2>1, <2>2 DEF Entry
<1>8. l \in [1 .. N -> Entry]
  BY <1>5, <1>7
<1>9. ASSUME NEW n \in S
      PROVE  Rank(S, n) + 1 \in 1 .. N /\ q[Rank(S, n) + 1] = n
  BY <1>1, <1>4
<1>10. Numbers(l) = S
  <2>1. Numbers(l) = {l[i].number : i \in 1 .. N}
    BY <1>8 DEF Numbers
  <2>2. ASSUME NEW n \in S PROVE \E i \in 1 .. N : l[i].number = n
    <3>1. PICK i : i = Rank(S, n) + 1
      OBVIOUS
    <3>2. i \in 1 .. N /\ q[i] = n
      BY <1>9, <3>1
    <3>3. QED
      BY <1>7, <3>2
  <2>3. \A i \in 1 .. N : l[i].number \in S
    BY <1>7
  <2>4. QED
    BY <2>1, <2>2, <2>3
<1>11. ASSUME NEW n \in S
       PROVE  ValueOf(l, n) = w[n]
  <2> DEFINE i == CHOOSE i \in DOMAIN l : l[i].number = n
  <2>1. DOMAIN l = 1 .. N
    BY <1>8
  <2>2. \E j \in 1 .. N : l[j].number = n
    <3>1. PICK j : j = Rank(S, n) + 1
      OBVIOUS
    <3>2. j \in 1 .. N /\ q[j] = n
      BY <1>9, <3>1
    <3>3. QED
      BY <1>7, <3>2
  <2>3. i \in 1 .. N /\ l[i].number = n
    BY <2>1, <2>2
  <2>4. ValueOf(l, n) = l[i].value
    BY DEF ValueOf
  <2> HIDE DEF i
  <2>5. QED
    BY <1>7, <2>3, <2>4
<1>12. Contents(l) = w
  <2>1. Contents(l) = [n \in S |-> ValueOf(l, n)]
    BY <1>10 DEF Contents
  <2>2. Contents(l) = [n \in S |-> w[n]]
    BY <1>11, <2>1
  <2>3. QED
    BY <1>6, <2>2
<1>13. Represents(l, w)
  <2>1. DOMAIN w = S
    BY <1>6
  <2>2. QED
    BY <1>10, <1>11, <2>1 DEF Represents
<1>14. QED
  BY <1>2, <1>3, <1>7, <1>8, <1>12, <1>13 DEF S, N, q

-------------------------------------------------------------------------------
(* Records in rings *)

IsRing(r, size) == r \in [ring : [0 .. size - 1 -> Entry], next : Nat]

\* What was put into a ring since: the records of before are in their places,
\* as far as the ring has not come round.
Grown(r, new, size) ==
    /\ r.next <= new.next
    /\ \A p \in Nat : p < r.next /\ new.next - size <= p =>
          new.ring[Slot(p, size)] = r.ring[Slot(p, size)]

LEMMA GrownTransitive ==
  ASSUME NEW size \in Nat \ {0}, NEW r, NEW s, NEW t,
         IsRing(r, size), IsRing(s, size), IsRing(t, size),
         Grown(r, s, size), Grown(s, t, size)
  PROVE  Grown(r, t, size)
<1>1. r.next \in Nat /\ s.next \in Nat /\ t.next \in Nat
  BY DEF IsRing
<1>2. r.next <= s.next /\ s.next <= t.next
  BY DEF Grown
<1>3. ASSUME NEW p \in Nat, p < r.next, t.next - size <= p
      PROVE  t.ring[Slot(p, size)] = r.ring[Slot(p, size)]
  <2>1. p < s.next /\ s.next - size <= p
    BY <1>1, <1>2, <1>3
  <2>2. QED
    BY <1>3, <2>1 DEF Grown
<1>4. QED
  BY <1>1, <1>2, <1>3 DEF Grown

LEMMA PutFacts ==
  ASSUME NEW size \in Nat \ {0}, NEW r, IsRing(r, size), NEW e \in Entry
  PROVE  LET new == Put(r, size, e)
         IN  /\ IsRing(new, size) /\ new.next = r.next + 1 /\ Grown(r, new, size)
             /\ new.ring[Slot(r.next, size)] = e
<1>1. PICK new : new = Put(r, size, e)
  OBVIOUS
<1>2. r.next \in Nat /\ r.ring \in [0 .. size - 1 -> Entry]
  BY DEF IsRing
<1>3. Slot(r.next, size) \in 0 .. size - 1
  BY <1>2, SlotInRing DEF Slot
<1>4. PICK ring : ring = [r.ring EXCEPT ![Slot(r.next, size)] = e]
  OBVIOUS
<1>5. /\ ring \in [0 .. size - 1 -> Entry] /\ ring[Slot(r.next, size)] = e
      /\ \A s \in 0 .. size - 1 : s # Slot(r.next, size) => ring[s] = r.ring[s]
  BY <1>2, <1>3, <1>4
<1>6. new = [ring |-> ring, next |-> r.next + 1]
  BY <1>1, <1>4 DEF Put
<1>7. new.ring = ring /\ new.next = r.next + 1 /\ IsRing(new, size)
  BY <1>2, <1>5, <1>6 DEF IsRing
<1>8. ASSUME NEW p \in Nat, p < r.next, new.next - size <= p
      PROVE  ring[Slot(p, size)] = r.ring[Slot(p, size)]
  <2>1. p < r.next /\ r.next - p < size
    BY <1>2, <1>7, <1>8
  <2>2. Slot(p, size) # Slot(r.next, size)
    BY <1>2, <2>1, SlotsDiffer DEF Slot
  <2>3. Slot(p, size) \in 0 .. size - 1
    BY SlotInRing DEF Slot
  <2>4. QED
    BY <1>5, <2>2, <2>3
<1>9. r.next <= new.next
  BY <1>2, <1>7
<1>10. QED
  BY <1>1, <1>5, <1>7, <1>8, <1>9 DEF Grown

\* SV_BuildClientSnapshot: the records of a world are in the ring, one after
\* the other, if it has room for them.
LEMMA PutAllFacts ==
  ASSUME NEW size \in Nat \ {0}, NEW r, IsRing(r, size),
         NEW N \in Nat, NEW l \in [1 .. N -> Entry]
  PROVE  LET new == PutAll(r, size, l)
         IN  /\ IsRing(new, size) /\ new.next = r.next + N /\ Grown(r, new, size)
             /\ N <= size => \A i \in 1 .. N :
                               new.ring[Slot(r.next + i - 1, size)] = l[i]
<1> DEFINE Into(s) == {i \in DOMAIN l : Slot(r.next + i - 1, size) = s}
<1>1. PICK new : new = PutAll(r, size, l)
  OBVIOUS
<1>2. r.next \in Nat /\ r.ring \in [0 .. size - 1 -> Entry]
  BY DEF IsRing
<1>3. Len(l) = N /\ DOMAIN l = 1 .. N
  <2>1. l \in Seq(Entry)
    BY SeqDef
  <2>2. QED
    BY <2>1, LenProperties
<1>4. PICK ring : ring = [s \in 0 .. size - 1 |->
                     IF Into(s) = {} THEN r.ring[s] ELSE l[Max(Into(s))]]
  OBVIOUS
<1>5. new = [ring |-> ring, next |-> r.next + N]
  BY <1>1, <1>3, <1>4 DEF PutAll
<1>6. ASSUME NEW s, Into(s) # {}
      PROVE  Max(Into(s)) \in Into(s) /\ Max(Into(s)) \in 1 .. N
  <2>1. Into(s) \in SUBSET (0 .. N)
    BY <1>3
  <2>2. \E x \in Into(s) : \A y \in Into(s) : x >= y
    BY <1>6, <2>1, GreatestNumber
  <2>3. Max(Into(s)) \in Into(s)
    BY <2>2 DEF Max
  <2>4. QED
    BY <1>3, <2>3
<1>7. ring \in [0 .. size - 1 -> Entry]
  <2> SUFFICES ASSUME NEW s \in 0 .. size - 1
               PROVE  ring[s] \in Entry /\ DOMAIN ring = 0 .. size - 1
    BY <1>4
  <2>1. CASE Into(s) = {}
    BY <1>2, <1>4, <2>1
  <2>2. CASE Into(s) # {}
    BY <1>4, <1>6, <2>2
  <2>3. QED
    BY <2>1, <2>2
<1>8. new.ring = ring /\ new.next = r.next + N /\ IsRing(new, size)
  BY <1>2, <1>5, <1>7 DEF IsRing
<1>9. ASSUME NEW p \in Nat, p < r.next, new.next - size <= p
      PROVE  ring[Slot(p, size)] = r.ring[Slot(p, size)]
  <2>1. ASSUME NEW i \in 1 .. N
        PROVE  Slot(r.next + i - 1, size) # Slot(p, size)
    <3>1. PICK t : t = r.next + i - 1
      OBVIOUS
    <3>2. t \in Nat /\ p < t /\ t - p < size
      BY <1>2, <1>8, <1>9, <3>1
    <3>3. p % size # t % size
      BY <3>2, SlotsDiffer
    <3>4. QED
      BY <3>1, <3>3 DEF Slot
  <2>2. Slot(p, size) \in 0 .. size - 1
    BY SlotInRing DEF Slot
  <2>3. Into(Slot(p, size)) = {}
    BY <1>3, <2>1
  <2>4. QED
    BY <1>4, <2>2, <2>3
<1>10. ASSUME N <= size, NEW i \in 1 .. N
       PROVE  ring[Slot(r.next + i - 1, size)] = l[i]
  <2>1. PICK s : s = Slot(r.next + i - 1, size)
    OBVIOUS
  <2>2. s \in 0 .. size - 1
    <3>1. r.next + i - 1 \in Nat
      BY <1>2
    <3>2. QED
      BY <2>1, <3>1, SlotInRing DEF Slot
  <2>3. i \in Into(s)
    BY <1>3, <2>1
  <2>4. PICK j : j = Max(Into(s))
    OBVIOUS
  <2>5. j \in 1 .. N /\ Slot(r.next + j - 1, size) = Slot(r.next + i - 1, size)
    BY <1>6, <2>1, <2>3, <2>4
  <2>6. j = i
    <3>1. r.next + j - 1 \in Nat /\ r.next + i - 1 \in Nat
      BY <1>2, <2>5
    <3>2. ~(i < j)
      <4>1. ASSUME i < j PROVE FALSE
        <5>1. r.next + i - 1 < r.next + j - 1
              /\ (r.next + j - 1) - (r.next + i - 1) < size
          BY <1>2, <1>10, <2>5, <4>1
        <5>2. QED
          BY <2>5, <3>1, <5>1, SlotsDiffer DEF Slot
      <4>2. QED
        BY <4>1
    <3>3. ~(j < i)
      <4>1. ASSUME j < i PROVE FALSE
        <5>1. r.next + j - 1 < r.next + i - 1
              /\ (r.next + i - 1) - (r.next + j - 1) < size
          BY <1>2, <1>10, <2>5, <4>1
        <5>2. QED
          BY <2>5, <3>1, <5>1, SlotsDiffer DEF Slot
      <4>2. QED
        BY <4>1
    <3>4. QED
      BY <2>5, <3>2, <3>3
  <2>7. QED
    BY <1>4, <2>1, <2>2, <2>3, <2>4, <2>6
<1>11. r.next <= new.next
  BY <1>2, <1>8
<1>12. QED
  BY <1>1, <1>8, <1>9, <1>10, <1>11 DEF Grown

-------------------------------------------------------------------------------
(* CL_ParsePacketEntities, CL_ParsePacketClients *)

\* Records by number, some of them removed.
IsDifference(d) ==
    DOMAIN d \in SUBSET Number /\ d \in [DOMAIN d -> Value \cup {Removed}]

\* What Merged goes through, where it finds an old record, and one step of it.
Present(r, f, d) == Numbers(At(r, ParseRing, f)) \cup DOMAIN d
Place(r, f, n) ==
    CHOOSE i \in DOMAIN At(r, ParseRing, f) : At(r, ParseRing, f)[i].number = n
MergeStep(r, f, d, s, n) ==
    IF n \in DOMAIN d
      THEN IF d[n] = Removed
             THEN s
             ELSE Put(s, ParseRing, [number |-> n, value |-> d[n]])
      ELSE Put(s, ParseRing, s.ring[Slot(f.first + Place(r, f, n) - 1, ParseRing)])

LEMMA ParseRingFact == ParseRing \in Nat \ {0} /\ Margin \in 0 .. ParseRing
BY SnapshotsAssumption

LEMMA AtFacts ==
  ASSUME NEW size \in Nat \ {0}, NEW r, IsRing(r, size),
         NEW f \in [first : Nat, count : Nat]
  PROVE  /\ At(r, size, f) \in [1 .. f.count -> Entry]
         /\ \A i \in 1 .. f.count :
               At(r, size, f)[i] = r.ring[Slot(f.first + i - 1, size)]
<1>1. ASSUME NEW i \in 1 .. f.count
      PROVE  r.ring[Slot(f.first + i - 1, size)] \in Entry
  <2>1. f.first + i - 1 \in Nat
    OBVIOUS
  <2>2. Slot(f.first + i - 1, size) \in 0 .. size - 1
    BY <2>1, SlotInRing DEF Slot
  <2>3. QED
    BY <2>2 DEF IsRing
<1>2. QED
  BY <1>1 DEF At

LEMMA PresentFacts ==
  ASSUME NEW r, IsRing(r, ParseRing), NEW f \in [first : Nat, count : Nat],
         NEW d, IsDifference(d)
  PROVE  /\ Present(r, f, d) \in SUBSET Number
         /\ Present(r, f, d) \in SUBSET Nat /\ IsFiniteSet(Present(r, f, d))
         /\ \A n \in Present(r, f, d) \ DOMAIN d :
               /\ Place(r, f, n) \in 1 .. f.count
               /\ At(r, ParseRing, f)[Place(r, f, n)].number = n
<1> DEFINE a == At(r, ParseRing, f)
<1>1. a \in [1 .. f.count -> Entry]
  BY AtFacts, ParseRingFact
<1> HIDE DEF a
<1>2. Numbers(a) \in SUBSET Number
  <2>1. \A i \in 1 .. f.count : a[i].number \in Number
    BY <1>1 DEF Entry
  <2>2. QED
    BY <1>1, <2>1 DEF Numbers
<1>3. Present(r, f, d) \in SUBSET Number
  BY <1>2 DEF Present, IsDifference, a
<1>4. Present(r, f, d) \in SUBSET Nat /\ IsFiniteSet(Present(r, f, d))
  BY <1>3, SnapshotsAssumption, FS_Subset
<1>5. ASSUME NEW n \in Numbers(a)
      PROVE  Place(r, f, n) \in 1 .. f.count /\ a[Place(r, f, n)].number = n
  <2>1. DOMAIN a = 1 .. f.count
    BY <1>1
  <2>2. \E i \in 1 .. f.count : a[i].number = n
    BY <2>1 DEF Numbers
  <2>3. Place(r, f, n) = CHOOSE i \in 1 .. f.count : a[i].number = n
    BY <2>1 DEF Place, a
  <2>4. QED
    BY <2>2, <2>3
<1>6. QED
  BY <1>3, <1>4, <1>5 DEF Present, a

LEMMA MergeStepFacts ==
  ASSUME NEW r, IsRing(r, ParseRing), NEW f \in [first : Nat, count : Nat],
         NEW d, IsDifference(d), NEW n \in Present(r, f, d),
         NEW s, IsRing(s, ParseRing)
  PROVE  LET new == MergeStep(r, f, d, s, n)
         IN  IsRing(new, ParseRing) /\ Grown(s, new, ParseRing)
<1>1. PICK new : new = MergeStep(r, f, d, s, n)
  OBVIOUS
<1>2. n \in Number
  BY PresentFacts
<1>3. CASE n \in DOMAIN d /\ d[n] = Removed
  <2>1. new = s
    BY <1>1, <1>3 DEF MergeStep
  <2>2. s.next <= s.next
    BY DEF IsRing
  <2>3. QED
    BY <1>1, <2>1, <2>2 DEF Grown
<1>4. CASE n \in DOMAIN d /\ d[n] # Removed
  <2>1. PICK e : e = [number |-> n, value |-> d[n]]
    OBVIOUS
  <2>2. e \in Entry
    BY <1>2, <1>4, <2>1 DEF Entry, IsDifference
  <2>3. new = Put(s, ParseRing, e)
    BY <1>1, <1>4, <2>1 DEF MergeStep
  <2>4. QED
    BY <1>1, <2>2, <2>3, ParseRingFact, PutFacts
<1>5. CASE n \notin DOMAIN d
  <2>1. Place(r, f, n) \in 1 .. f.count
    BY <1>5, PresentFacts
  <2>2. PICK p \in Nat : p = f.first + Place(r, f, n) - 1
    BY <2>1
  <2>3. PICK e : e = s.ring[Slot(p, ParseRing)]
    OBVIOUS
  <2>4. e \in Entry
    <3>1. Slot(p, ParseRing) \in 0 .. ParseRing - 1
      BY ParseRingFact, SlotInRing DEF Slot
    <3>2. QED
      BY <2>3, <3>1 DEF IsRing
  <2>5. new = Put(s, ParseRing, e)
    BY <1>1, <1>5, <2>2, <2>3 DEF MergeStep
  <2>6. QED
    BY <1>1, <2>4, <2>5, ParseRingFact, PutFacts
<1>6. QED
  BY <1>3, <1>4, <1>5

\* The rings that Merged comes through, one record after the other.
LEMMA MergeRun ==
  ASSUME NEW r, IsRing(r, ParseRing), NEW f \in [first : Nat, count : Nat],
         NEW d, IsDifference(d)
  PROVE  LET P == Present(r, f, d)
             N == Cardinality(P)
         IN  \E g : /\ g[0] = r /\ g[N] = Merged(r, f, d)
                    /\ \A i \in 0 .. N :
                          IsRing(g[i], ParseRing) /\ Grown(r, g[i], ParseRing)
                    /\ \A i \in 1 .. N :
                          g[i] = MergeStep(r, f, d, g[i - 1], Sorted(P)[i])
<1> DEFINE P == Present(r, f, d)
           N == Cardinality(P)
           q == Sorted(P)
           Ring == [ring : [0 .. ParseRing - 1 -> Entry], next : Nat]
           Run(n, g) == /\ g \in [0 .. n -> Ring] /\ g[0] = r
                        /\ \A i \in 1 .. n : g[i] = MergeStep(r, f, d, g[i - 1], q[i])
           Chosen(g) == g = [i \in 0 .. N |->
                               IF i = 0 THEN r
                               ELSE MergeStep(r, f, d, g[i - 1], q[i])]
<1>1. N \in Nat /\ q \in [1 .. N -> P]
  BY PresentFacts, RankFacts, SortedFacts
<1>2. ASSUME NEW i \in 1 .. N, NEW s \in Ring
      PROVE  /\ MergeStep(r, f, d, s, q[i]) \in Ring
             /\ Grown(s, MergeStep(r, f, d, s, q[i]), ParseRing)
  <2>1. q[i] \in P
    BY <1>1
  <2>2. IsRing(s, ParseRing)
    BY DEF IsRing
  <2>3. PICK n : n = q[i]
    OBVIOUS
  <2> HIDE DEF q
  <2>4. IsRing(MergeStep(r, f, d, s, n), ParseRing)
        /\ Grown(s, MergeStep(r, f, d, s, n), ParseRing)
    BY <2>1, <2>2, <2>3, MergeStepFacts
  <2>5. QED
    BY <2>3, <2>4 DEF IsRing
<1>3. r \in Ring
  BY DEF IsRing
<1>4. Merged(r, f, d) = (CHOOSE g : Chosen(g))[N]
  BY DEF Merged, Present, Place, MergeStep
<1> HIDE DEF P, N, q, Ring
<1>5. \A n \in 0 .. N : \E g : Run(n, g)
  <2> DEFINE Bad == {n \in 0 .. N : ~(\E g : Run(n, g))}
  <2>1. SUFFICES ASSUME Bad # {} PROVE FALSE
    OBVIOUS
  <2>2. Bad \in SUBSET Nat
    BY <1>1
  <2>3. PICK n \in Bad : \A m \in Bad : n <= m
    BY <2>1, <2>2, LeastNumber
  <2>4. n \in 0 .. N /\ n \in Nat /\ ~(\E g : Run(n, g))
    BY <2>2, <2>3
  <2>5. CASE n = 0
    <3>1. PICK g : g = [i \in 0 .. n |-> r]
      OBVIOUS
    <3>2. Run(n, g)
      BY <1>3, <2>5, <3>1
    <3>3. QED
      BY <2>4, <3>2
  <2>6. CASE n # 0
    <3>1. n - 1 \in 0 .. N /\ n - 1 \in Nat /\ n \in 1 .. N
      BY <1>1, <2>4, <2>6
    <3>2. n - 1 \notin Bad
      BY <2>3, <2>4, <3>1
    <3>3. PICK g : Run(n - 1, g)
      BY <3>1, <3>2
    <3>4. g \in [0 .. n - 1 -> Ring] /\ g[0] = r
          /\ \A i \in 1 .. n - 1 : g[i] = MergeStep(r, f, d, g[i - 1], q[i])
      BY <3>3
    <3>5. PICK last : last = MergeStep(r, f, d, g[n - 1], q[n])
      OBVIOUS
    <3>6. last \in Ring
      BY <1>2, <3>1, <3>4, <3>5
    <3>7. PICK h : h = [i \in 0 .. n |-> IF i = n THEN last ELSE g[i]]
      OBVIOUS
    <3>8. /\ \A i \in 0 .. n - 1 : h[i] = g[i] /\ h[i] \in Ring
          /\ h[n] = last
      BY <2>4, <3>4, <3>7
    <3>9. h \in [0 .. n -> Ring]
      <4>1. \A i \in 0 .. n : i = n \/ i \in 0 .. n - 1
        BY <2>4
      <4>2. \A i \in 0 .. n : h[i] \in Ring
        BY <3>6, <3>8, <4>1
      <4>3. QED
        BY <3>7, <4>2
    <3>10. h[0] = r
      BY <3>1, <3>4, <3>8
    <3>11. ASSUME NEW i \in 1 .. n
           PROVE  h[i] = MergeStep(r, f, d, h[i - 1], q[i])
      <4>1. i - 1 \in 0 .. n - 1
        BY <2>4
      <4>2. h[i - 1] = g[i - 1]
        BY <3>8, <4>1
      <4>3. CASE i = n
        BY <3>5, <3>8, <4>2, <4>3
      <4>4. CASE i # n
        <5>1. i \in 1 .. n - 1 /\ i \in 0 .. n - 1
          BY <2>4, <4>4
        <5>2. QED
          BY <3>4, <3>8, <4>2, <5>1
      <4>5. QED
        BY <4>3, <4>4
    <3>12. Run(n, h)
      BY <3>9, <3>10, <3>11
    <3>13. QED
      BY <2>4, <3>12
  <2>7. QED
    BY <2>5, <2>6
<1>6. \E g : Chosen(g)
  <2>1. N \in 0 .. N
    BY <1>1
  <2>2. PICK g : Run(N, g)
    BY <1>5, <2>1
  <2>3. g \in [0 .. N -> Ring] /\ g[0] = r
        /\ \A i \in 1 .. N : g[i] = MergeStep(r, f, d, g[i - 1], q[i])
    BY <2>2
  <2>4. \A i \in 0 .. N : i # 0 => i \in 1 .. N
    BY <1>1
  <2>5. Chosen(g)
    BY <2>3, <2>4
  <2>6. QED
    BY <2>5
<1>7. PICK g : Chosen(g) /\ g[N] = Merged(r, f, d)
  <2>1. PICK h : h = CHOOSE g : Chosen(g)
    OBVIOUS
  <2>2. Chosen(h)
    BY <1>6, <2>1
  <2> HIDE DEF Chosen
  <2>3. QED
    BY <1>4, <2>1, <2>2
<1>8. \A i \in 0 .. N : g[i] = IF i = 0 THEN r ELSE MergeStep(r, f, d, g[i - 1], q[i])
  BY <1>7
<1>9. g[0] = r
  BY <1>1, <1>8
<1>10. \A i \in 1 .. N : g[i] = MergeStep(r, f, d, g[i - 1], q[i])
  BY <1>1, <1>8
<1>11. \A i \in 0 .. N : IsRing(g[i], ParseRing) /\ Grown(r, g[i], ParseRing)
  <2> DEFINE Bad == {i \in 0 .. N :
                       ~(IsRing(g[i], ParseRing) /\ Grown(r, g[i], ParseRing))}
  <2>1. SUFFICES ASSUME Bad # {} PROVE FALSE
    OBVIOUS
  <2>2. Bad \in SUBSET Nat
    BY <1>1
  <2>3. PICK n \in Bad : \A m \in Bad : n <= m
    BY <2>1, <2>2, LeastNumber
  <2>4. /\ n \in 0 .. N /\ n \in Nat
        /\ ~(IsRing(g[n], ParseRing) /\ Grown(r, g[n], ParseRing))
    BY <2>2, <2>3
  <2>5. CASE n = 0
    <3>1. r.next <= r.next
      BY DEF IsRing
    <3>2. QED
      BY <1>9, <2>4, <2>5, <3>1 DEF Grown
  <2>6. CASE n # 0
    <3>1. n - 1 \in 0 .. N /\ n - 1 \in Nat /\ n \in 1 .. N
      BY <1>1, <2>4, <2>6
    <3>2. n - 1 \notin Bad
      BY <2>3, <2>4, <3>1
    <3>3. PICK s : s = g[n - 1]
      OBVIOUS
    <3>4. IsRing(s, ParseRing) /\ Grown(r, s, ParseRing)
      BY <3>1, <3>2, <3>3
    <3>5. s \in Ring
      BY <3>4 DEF IsRing, Ring
    <3>6. PICK t : t = MergeStep(r, f, d, s, q[n])
      OBVIOUS
    <3>7. t = g[n]
      BY <1>10, <3>1, <3>3, <3>6
    <3>8. IsRing(t, ParseRing) /\ Grown(s, t, ParseRing)
      BY <1>2, <3>1, <3>5, <3>6 DEF IsRing, Ring
    <3>9. Grown(r, t, ParseRing)
      BY <3>4, <3>8, GrownTransitive, ParseRingFact
    <3>10. QED
      BY <2>4, <3>7, <3>8, <3>9
  <2>7. QED
    BY <2>5, <2>6
<1>12. QED
  BY <1>7, <1>9, <1>10, <1>11 DEF P, N, q

LEMMA MergedFacts ==
  ASSUME NEW r, IsRing(r, ParseRing), NEW f \in [first : Nat, count : Nat],
         NEW d, IsDifference(d)
  PROVE  /\ IsRing(Merged(r, f, d), ParseRing)
         /\ Grown(r, Merged(r, f, d), ParseRing)
<1> DEFINE N == Cardinality(Present(r, f, d))
<1>1. N \in Nat
  BY PresentFacts, FS_CardinalityType
<1>2. PICK g : g[N] = Merged(r, f, d)
               /\ \A i \in 0 .. N :
                     IsRing(g[i], ParseRing) /\ Grown(r, g[i], ParseRing)
  BY MergeRun
<1> HIDE DEF N
<1>3. N \in 0 .. N
  BY <1>1
<1>4. QED
  BY <1>2, <1>3

LEMMA RemovedFact == Removed \notin Value
BY SnapshotsAssumption

\* SV_EmitPacketEntities: what is written for each number.
LEMMA DifferenceFacts ==
  ASSUME NEW o, IsRecords(o), NEW w, IsRecords(w)
  PROVE  LET d == Difference(Listed(o), Listed(w))
         IN  /\ IsDifference(d)
             /\ \A n \in Number :
                   n \in DOMAIN d <=>
                      /\ n \in DOMAIN o \cup DOMAIN w
                      /\ \/ n \notin DOMAIN o \/ n \notin DOMAIN w \/ o[n] # w[n]
             /\ \A n \in DOMAIN d :
                   d[n] = IF n \in DOMAIN w THEN w[n] ELSE Removed
<1>1. PICK old : old = Listed(o)
  OBVIOUS
<1>2. PICK new : new = Listed(w)
  OBVIOUS
<1>3. Represents(old, o) /\ Represents(new, w)
  BY <1>1, <1>2, ListedFacts
<1>4. PICK d : d = Difference(old, new)
  OBVIOUS
<1> DEFINE D == {n \in DOMAIN o \cup DOMAIN w :
                   n \notin DOMAIN o \/ n \notin DOMAIN w \/ o[n] # w[n]}
<1>5. Numbers(old) = DOMAIN o /\ Numbers(new) = DOMAIN w
  BY <1>3 DEF Represents
<1>6. D = {n \in Numbers(old) \cup Numbers(new) :
             \/ n \notin Numbers(old) \/ n \notin Numbers(new)
             \/ ValueOf(old, n) # ValueOf(new, n)}
  BY <1>3, <1>5 DEF Represents
<1>7. d = [n \in D |-> IF n \in Numbers(new) THEN ValueOf(new, n) ELSE Removed]
  BY <1>4, <1>6 DEF Difference
<1>8. DOMAIN d = D
  BY <1>7
<1>9. ASSUME NEW n \in D
      PROVE  /\ d[n] = IF n \in DOMAIN w THEN w[n] ELSE Removed
             /\ n \in Number /\ d[n] \in Value \cup {Removed}
  <2>1. d[n] = IF n \in Numbers(new) THEN ValueOf(new, n) ELSE Removed
    BY <1>7
  <2>2. d[n] = IF n \in DOMAIN w THEN w[n] ELSE Removed
    BY <1>3, <1>5, <2>1 DEF Represents
  <2>3. QED
    BY <2>2 DEF IsRecords
<1>10. d \in [D -> Value \cup {Removed}]
  BY <1>7, <1>9
<1>11. IsDifference(d)
  BY <1>8, <1>9, <1>10 DEF IsDifference
<1>12. ASSUME NEW n \in Number
       PROVE  n \in D <=>
                      /\ n \in DOMAIN o \cup DOMAIN w
                      /\ \/ n \notin DOMAIN o \/ n \notin DOMAIN w \/ o[n] # w[n]
  OBVIOUS
<1>13. QED
  BY <1>1, <1>2, <1>4, <1>8, <1>9, <1>11, <1>12

\* A frame refers to the records w, as long as the ring has not come round.
Shows(r, size, f, w) ==
    /\ f \in [first : Nat, count : Nat]
    /\ f.count = Cardinality(DOMAIN w)
    /\ f.first + f.count <= r.next
    /\ r.next - f.first <= size => At(r, size, f) = Listed(w)

LEMMA ShowsKept ==
  ASSUME NEW size \in Nat \ {0}, NEW r, IsRing(r, size), NEW new, IsRing(new, size),
         Grown(r, new, size), NEW f, NEW w, Shows(r, size, f, w)
  PROVE  Shows(new, size, f, w)
<1>1. /\ f \in [first : Nat, count : Nat] /\ f.first \in Nat /\ f.count \in Nat
      /\ f.first + f.count <= r.next
      /\ f.count = Cardinality(DOMAIN w)
  BY DEF Shows
<1>2. r.next \in Nat /\ new.next \in Nat /\ r.next <= new.next
  BY DEF IsRing, Grown
<1>3. ASSUME new.next - f.first <= size
      PROVE  At(new, size, f) = Listed(w)
  <2>1. r.next - f.first <= size
    BY ONLY <1>1, <1>2, <1>3, size \in Nat \ {0}
  <2>2. At(r, size, f) = Listed(w)
    BY <2>1 DEF Shows
  <2>3. ASSUME NEW i \in 1 .. f.count
        PROVE  new.ring[Slot(f.first + i - 1, size)] = r.ring[Slot(f.first + i - 1, size)]
    <3>1. PICK p : p = f.first + i - 1
      OBVIOUS
    <3>2. p \in Nat /\ p < r.next /\ new.next - size <= p
      BY ONLY <1>1, <1>2, <1>3, <3>1, i \in 1 .. f.count, size \in Nat \ {0}
    <3>3. new.ring[Slot(p, size)] = r.ring[Slot(p, size)]
      BY <3>2 DEF Grown
    <3>4. QED
      BY <3>1, <3>3
  <2>4. At(new, size, f) = At(r, size, f)
    BY <2>3 DEF At
  <2>5. QED
    BY <2>2, <2>4
<1>4. f.first + f.count <= new.next
  BY ONLY <1>1, <1>2
<1>5. QED
  BY <1>1, <1>3, <1>4 DEF Shows

\* How many come before n is at most what came before in the old world and
\* what is new.
LEMMA RankBound ==
  ASSUME NEW O \in SUBSET Nat, NEW W \in SUBSET Nat, IsFiniteSet(O), IsFiniteSet(W),
         NEW n \in Nat
  PROVE  /\ Cardinality(W \ O) \in Nat
         /\ Rank(W, n) <= Rank(O, n) + Cardinality(W \ O)
<1> DEFINE A == {m \in O : m < n}
           B == W \ O
           C == {m \in W : m < n}
<1>1. IsFiniteSet(A) /\ IsFiniteSet(B)
  BY FS_Subset
<1>2. C \in SUBSET (A \cup B)
  OBVIOUS
<1> HIDE DEF A, B, C
<1>3. /\ IsFiniteSet(A \cup B)
      /\ Cardinality(A \cup B) = Cardinality(A) + Cardinality(B) - Cardinality(A \cap B)
  BY <1>1, FS_Union
<1>4. IsFiniteSet(A \cap B)
  BY <1>1, FS_Intersection
<1>5. IsFiniteSet(C) /\ Cardinality(C) <= Cardinality(A \cup B)
  BY <1>2, <1>3, FS_Subset
<1>6. /\ Cardinality(A) \in Nat /\ Cardinality(B) \in Nat /\ Cardinality(C) \in Nat
      /\ Cardinality(A \cap B) \in Nat
  BY <1>1, <1>4, <1>5, FS_CardinalityType
<1>7. Cardinality(C) <= Cardinality(A) + Cardinality(B)
  BY <1>3, <1>5, <1>6
<1>8. QED
  BY <1>6, <1>7 DEF A, B, C, Rank

\* CL_ParsePacketEntities on a difference to records that it still has, and no
\* more new ones than the margin: the result is what the server listed.
LEMMA MergedShows ==
  ASSUME NEW r, IsRing(r, ParseRing), NEW f \in [first : Nat, count : Nat],
         NEW o, IsRecords(o), NEW w, IsRecords(w),
         At(r, ParseRing, f) = Listed(o), f.count = Cardinality(DOMAIN o),
         DOMAIN o # {} =>
            /\ f.first + f.count <= r.next
            /\ r.next - f.first <= ParseRing - Margin
            /\ Cardinality(DOMAIN w \ DOMAIN o) <= Margin,
         NEW d, d = Difference(Listed(o), Listed(w)),
         NEW new, new = Merged(r, f, d)
  PROVE  Shows(new, ParseRing, [first |-> r.next, count |-> new.next - r.next], w)
<1> DEFINE O == DOMAIN o
           W == DOMAIN w
           P == Present(r, f, d)
           N == Cardinality(P)
           q == Sorted(P)
<1>1. /\ O \in SUBSET Nat /\ IsFiniteSet(O) /\ Cardinality(O) \in Nat
      /\ W \in SUBSET Nat /\ IsFiniteSet(W) /\ Cardinality(W) \in Nat
      /\ O \in SUBSET Number /\ W \in SUBSET Number
  BY RecordsFacts DEF IsRecords
<1>2. /\ IsDifference(d)
      /\ \A n \in Number :
            n \in DOMAIN d <=> /\ n \in O \cup W
                               /\ n \notin O \/ n \notin W \/ o[n] # w[n]
      /\ \A n \in DOMAIN d : d[n] = IF n \in W THEN w[n] ELSE Removed
  BY DifferenceFacts
<1>3. /\ Listed(o) \in [1 .. Cardinality(O) -> Entry]
      /\ \A i \in 1 .. Cardinality(O) :
            Listed(o)[i] = [number |-> Sorted(O)[i], value |-> o[Sorted(O)[i]]]
      /\ Numbers(Listed(o)) = O
  BY ListedFacts DEF Represents
<1>4. /\ Sorted(O) \in [1 .. Cardinality(O) -> O]
      /\ \A n \in O : Sorted(O)[Rank(O, n) + 1] = n
      /\ \A i \in 1 .. Cardinality(O) : Rank(O, Sorted(O)[i]) = i - 1
      /\ \A n \in O : Rank(O, n) \in 0 .. Cardinality(O) - 1
  BY <1>1, SortedFacts, RankFacts
<1>5. P = O \cup W
  <2>1. P = O \cup DOMAIN d
    BY <1>3 DEF Present
  <2>2. DOMAIN d \in SUBSET Number
    BY <1>2 DEF IsDifference
  <2> HIDE DEF O, W, P
  <2>3. QED
    BY <1>1, <1>2, <2>1, <2>2
<1>6. /\ P \in SUBSET Nat /\ IsFiniteSet(P) /\ N \in Nat
      /\ q \in [1 .. N -> P]
      /\ \A n \in P : q[Rank(P, n) + 1] = n
      /\ \A i \in 1 .. N : Rank(P, q[i]) = i - 1
      /\ \A n \in P : Rank(P, n) \in 0 .. N - 1
      /\ \A m \in P : \A n \in Nat : m < n => Rank(P, m) < Rank(P, n)
  BY <1>2, PresentFacts, SortedFacts, RankFacts
<1>7. /\ \A n \in Nat : Rank(W, n) \in Nat
      /\ \A n \in W : Rank(W, n) \in 0 .. Cardinality(W) - 1
      /\ \A m \in W : \A n \in Nat : m < n => Rank(W, m) < Rank(W, n)
  BY <1>1, RankFacts
\* Where an old record is found, and what it is.
<1>8. ASSUME NEW n \in O
      PROVE  /\ n \notin DOMAIN d => Place(r, f, n) = Rank(O, n) + 1
             /\ Rank(O, n) + 1 \in 1 .. f.count
             /\ r.ring[Slot(f.first + Rank(O, n), ParseRing)]
                   = [number |-> n, value |-> o[n]]
  <2>1. PICK c : c = Rank(O, n) + 1
    OBVIOUS
  <2>2. c \in 1 .. f.count /\ Sorted(O)[c] = n /\ c \in 1 .. Cardinality(O)
    BY <1>1, <1>4, <2>1
  <2>3. Listed(o)[c] = [number |-> n, value |-> o[n]]
    BY <1>3, <2>2
  <2>4. At(r, ParseRing, f)[c] = r.ring[Slot(f.first + c - 1, ParseRing)]
    BY <2>2, AtFacts, ParseRingFact
  <2>5. f.first + c - 1 = f.first + Rank(O, n)
    BY <1>1, <1>4, <2>1
  <2>6. ASSUME n \notin DOMAIN d PROVE Place(r, f, n) = c
    <3>1. n \in P
      BY <1>5
    <3>2. PICK i : i = Place(r, f, n)
      OBVIOUS
    <3>3. i \in 1 .. f.count /\ Listed(o)[i].number = n
      BY <1>2, <2>6, <3>1, <3>2, PresentFacts
    <3>4. i \in 1 .. Cardinality(O) /\ Sorted(O)[i] = n
      BY <1>3, <3>3
    <3>5. Rank(O, n) = i - 1
      BY <1>4, <3>4
    <3>6. QED
      BY <2>1, <3>2, <3>4, <3>5
  <2>7. QED
    BY <2>1, <2>2, <2>3, <2>4, <2>5, <2>6
<1>9. PICK g : /\ g[0] = r /\ g[N] = new
               /\ \A i \in 0 .. N :
                     IsRing(g[i], ParseRing) /\ Grown(r, g[i], ParseRing)
               /\ \A i \in 1 .. N : g[i] = MergeStep(r, f, d, g[i - 1], q[i])
  BY <1>2, MergeRun
<1> DEFINE Done(i) == {m \in W : Rank(P, m) < i}
           Good(i) == /\ g[i].next = r.next + Cardinality(Done(i))
                      /\ \A m \in Done(i) :
                            g[i].next - ParseRing <= r.next + Rank(W, m) =>
                               g[i].ring[Slot(r.next + Rank(W, m), ParseRing)]
                                  = [number |-> m, value |-> w[m]]
<1> HIDE DEF O, W, P, N, q
<1>10. r.next \in Nat /\ ParseRing \in Nat \ {0} /\ Margin \in 0 .. ParseRing
  BY ParseRingFact DEF IsRing
<1>11. \A i : IsFiniteSet(Done(i)) /\ Cardinality(Done(i)) \in Nat
  BY <1>1, FS_Subset, FS_CardinalityType
\* One record more.
<1>12. ASSUME NEW i \in 1 .. N, Good(i - 1)
       PROVE  Good(i)
  <2>1. PICK n : n = q[i]
    OBVIOUS
  <2>2. PICK s : s = g[i - 1]
    OBVIOUS
  <2>3. n \in P /\ n \in Nat /\ Rank(P, n) = i - 1 /\ i \in Nat
    BY <1>6, <2>1
  <2>4. i - 1 \in 0 .. N /\ i \in 0 .. N
    BY <1>6
  <2>5. IsRing(s, ParseRing) /\ Grown(r, s, ParseRing)
    BY <1>9, <2>2, <2>4
  <2>6. g[i] = MergeStep(r, f, d, s, n)
    BY <1>9, <2>1, <2>2
  <2>7. Done(i - 1) = {m \in W : m < n}
    <3>1. ASSUME NEW m \in W
          PROVE  Rank(P, m) < i - 1 <=> m < n
      <4>1. m \in P /\ m \in Nat
        BY <1>1, <1>5
      <4>2. Rank(P, m) \in Nat
        BY <1>6, <4>1
      <4>3. m < n => Rank(P, m) < Rank(P, n)
        BY <1>6, <2>3, <4>1
      <4>4. n < m => Rank(P, n) < Rank(P, m)
        BY <1>6, <2>3, <4>1
      <4>5. CASE m < n
        BY <2>3, <4>3, <4>5
      <4>6. CASE n < m
        BY <2>3, <4>1, <4>2, <4>4, <4>6
      <4>7. CASE m = n
        BY <2>3, <4>7
      <4>8. QED
        BY <2>3, <4>1, <4>5, <4>6, <4>7
    <3>2. QED
      BY <3>1
  <2>8. Cardinality(Done(i - 1)) = Rank(W, n)
    BY <2>7 DEF Rank
  <2>9. Rank(W, n) \in Nat
    BY <1>7, <2>3
  <2>10. s.next = r.next + Rank(W, n) /\ s.next \in Nat
    BY <1>10, <1>12, <2>2, <2>8, <2>9
  <2>11. ASSUME NEW m \in Done(i - 1)
         PROVE  /\ m \in W /\ m < n /\ Rank(W, m) \in Nat
                /\ r.next + Rank(W, m) < s.next
                /\ s.next - ParseRing <= r.next + Rank(W, m) =>
                      s.ring[Slot(r.next + Rank(W, m), ParseRing)]
                         = [number |-> m, value |-> w[m]]
    <3>1. m \in W /\ m < n /\ m \in Nat
      BY <1>1, <2>7
    <3>2. Rank(W, m) \in Nat /\ Rank(W, m) < Rank(W, n)
      BY <1>7, <2>3, <3>1
    <3>3. QED
      BY <1>10, <1>12, <2>2, <2>9, <2>10, <3>1, <3>2
  <2>12. Done(i) = Done(i - 1) \cup (IF n \in W THEN {n} ELSE {})
    <3>1. ASSUME NEW m \in W
          PROVE  Rank(P, m) < i <=> Rank(P, m) < i - 1 \/ m = n
      <4>1. m \in P /\ m \in Nat
        BY <1>1, <1>5
      <4>2. Rank(P, m) \in Nat
        BY <1>6, <4>1
      <4>3. m = n <=> Rank(P, m) = i - 1
        BY <1>6, <2>3, <4>1
      <4>4. QED
        BY <2>3, <4>2, <4>3
    <3>2. QED
      BY <3>1
  <2>13. n \notin Done(i - 1)
    BY <2>3, <2>7
  \* A removed record changes nothing.
  <2>14. CASE n \notin W
    <3>1. n \in DOMAIN d /\ d[n] = Removed
      <4>1. n \in O /\ n \in Number
        BY <1>1, <1>5, <2>3, <2>14
      <4>2. QED
        BY <1>2, <2>14, <4>1
    <3>2. g[i] = s
      BY <2>6, <3>1 DEF MergeStep
    <3>3. Done(i) = Done(i - 1)
      BY <2>12, <2>14
    <3>4. QED
      BY <1>12, <2>2, <3>2, <3>3
  \* Any other one is put into the ring, new or as it was.
  <2>15. CASE n \in W
    <3>1. PICK e : e = [number |-> n, value |-> w[n]]
      OBVIOUS
    <3>2. e \in Entry
      BY <1>1, <2>15, <3>1 DEF Entry, IsRecords, W
    <3>3. g[i] = Put(s, ParseRing, e)
      <4>1. n \in Number
        BY <1>1, <2>15
      <4>2. CASE n \in DOMAIN d
        <5>1. d[n] = w[n]
          BY <1>2, <2>15, <4>2
        <5>2. d[n] # Removed
          BY <2>15, <5>1, RemovedFact DEF IsRecords, W
        <5>3. QED
          BY <2>6, <3>1, <4>2, <5>1, <5>2 DEF MergeStep
      <4>3. CASE n \notin DOMAIN d
        <5>1. n \in O /\ o[n] = w[n]
          BY <1>2, <2>15, <4>1, <4>3
        <5>2. /\ Place(r, f, n) = Rank(O, n) + 1
              /\ Rank(O, n) + 1 \in 1 .. f.count
              /\ r.ring[Slot(f.first + Rank(O, n), ParseRing)] = e
          BY <1>8, <3>1, <4>3, <5>1
        <5>3. PICK p : p = f.first + Rank(O, n)
          OBVIOUS
        <5>4. /\ f.first + f.count <= r.next
              /\ r.next - f.first <= ParseRing - Margin
              /\ Cardinality(W \ O) <= Margin
          BY <5>1 DEF O, W
        <5>5. /\ Cardinality(W \ O) \in Nat
              /\ Rank(W, n) <= Rank(O, n) + Cardinality(W \ O)
          BY <1>1, <2>3, RankBound
        <5>6. Rank(O, n) \in Nat /\ f.first \in Nat /\ f.count \in Nat
          BY <1>1, <1>4, <5>1
        <5>7. p \in Nat /\ p < r.next
          BY <1>10, <5>2, <5>3, <5>4, <5>6
        <5>8. s.next - ParseRing <= p
          BY ONLY <1>10, <2>9, <2>10, <5>3, <5>4, <5>5, <5>6
        <5>9. s.ring[Slot(p, ParseRing)] = e
          BY <2>5, <5>2, <5>3, <5>7, <5>8 DEF Grown
        <5>10. f.first + Place(r, f, n) - 1 = p
          BY <5>2, <5>3, <5>6
        <5>11. QED
          BY <2>6, <4>3, <5>9, <5>10 DEF MergeStep
      <4>4. QED
        BY <4>2, <4>3
    <3>4. PICK t : t = g[i]
      OBVIOUS
    <3>5. /\ IsRing(t, ParseRing) /\ t.next = s.next + 1 /\ Grown(s, t, ParseRing)
          /\ t.ring[Slot(s.next, ParseRing)] = e
      BY <1>10, <2>5, <3>2, <3>3, <3>4, PutFacts
    <3>6. Cardinality(Done(i)) = Rank(W, n) + 1
      <4>1. Done(i) = Done(i - 1) \cup {n}
        BY <2>12, <2>15
      <4>2. PICK D : D = Done(i - 1)
        OBVIOUS
      <4>3. IsFiniteSet(D) /\ n \notin D /\ Cardinality(D) = Rank(W, n)
        BY <1>11, <2>8, <2>13, <4>2
      <4>4. Cardinality(D \cup {n}) = Cardinality(D) + 1
        BY <4>3, FS_AddElement
      <4>5. QED
        BY <4>1, <4>2, <4>3, <4>4
    <3>7. t.next = r.next + Cardinality(Done(i))
      BY <1>10, <2>9, <2>10, <3>5, <3>6
    <3>8. ASSUME NEW m \in Done(i), t.next - ParseRing <= r.next + Rank(W, m)
          PROVE  t.ring[Slot(r.next + Rank(W, m), ParseRing)]
                    = [number |-> m, value |-> w[m]]
      <4>1. CASE m = n
        BY <2>10, <3>1, <3>5, <4>1
      <4>2. CASE m # n
        <5>1. m \in Done(i - 1)
          BY <2>12, <4>2
        <5>2. PICK p : p = r.next + Rank(W, m)
          OBVIOUS
        <5>3. p \in Nat /\ p < s.next
          <6>1. Rank(W, m) \in Nat /\ r.next + Rank(W, m) < s.next
            BY <2>11, <5>1
          <6>2. QED
            BY <1>10, <5>2, <6>1
        <5>4. t.next - ParseRing <= p /\ s.next - ParseRing <= p
          BY <1>10, <2>10, <3>5, <3>8, <5>2, <5>3
        <5>5. s.ring[Slot(p, ParseRing)] = [number |-> m, value |-> w[m]]
          BY <2>11, <5>1, <5>2, <5>4
        <5>6. t.ring[Slot(p, ParseRing)] = s.ring[Slot(p, ParseRing)]
          BY <3>5, <5>3, <5>4 DEF Grown
        <5>7. QED
          BY <5>2, <5>5, <5>6
      <4>3. QED
        BY <4>1, <4>2
    <3>9. QED
      BY <3>4, <3>7, <3>8
  <2>16. QED
    BY <2>14, <2>15
<1>13. Good(N)
  <2> DEFINE Bad == {i \in 0 .. N : ~Good(i)}
  <2>1. SUFFICES ASSUME Bad # {} PROVE FALSE
    <3>1. N \in 0 .. N
      BY <1>6
    <3> HIDE DEF Good
    <3>2. QED
      BY <3>1
  <2> HIDE DEF Good
  <2>2. Bad \in SUBSET Nat
    BY <1>6
  <2>3. PICK i \in Bad : \A j \in Bad : i <= j
    BY <2>1, <2>2, LeastNumber
  <2>4. i \in 0 .. N /\ i \in Nat /\ ~Good(i)
    BY <2>2, <2>3
  <2>5. CASE i = 0
    <3>1. Done(0) = {}
      <4>1. ASSUME NEW m \in W PROVE ~(Rank(P, m) < 0)
        <5>1. Rank(P, m) \in 0 .. N - 1
          BY <1>5, <1>6
        <5>2. QED
          BY <1>6, <5>1
      <4>2. QED
        BY <4>1
    <3>2. Cardinality(Done(0)) = 0
      BY <3>1, FS_EmptySet
    <3>3. Good(0)
      <4>1. g[0].next = r.next + Cardinality(Done(0))
        BY <1>9, <1>10, <3>2
      <4>2. QED
        BY <3>1, <4>1 DEF Good
    <3>4. QED
      BY <2>4, <2>5, <3>3
  <2>6. CASE i # 0
    <3>1. i \in 1 .. N /\ i - 1 \in 0 .. N /\ i - 1 < i
      BY <1>6, <2>4, <2>6
    <3>2. i - 1 \notin Bad
      BY <2>3, <2>4, <3>1
    <3>3. Good(i - 1)
      BY <3>1, <3>2
    <3>4. Good(i)
      BY <1>12, <3>1, <3>3
    <3>5. QED
      BY <2>4, <3>4
  <2>7. QED
    BY <2>5, <2>6
<1>14. Done(N) = W
  <2>1. \A m \in W : Rank(P, m) < N
    <3>1. \A m \in W : m \in P
      BY <1>5
    <3>2. ASSUME NEW m \in W PROVE Rank(P, m) < N
      <4>1. Rank(P, m) \in 0 .. N - 1
        BY <1>6, <3>1
      <4>2. QED
        BY <1>6, <4>1
    <3>3. QED
      BY <3>2
  <2>2. QED
    BY <2>1
<1>15. PICK h : h = [first |-> r.next, count |-> new.next - r.next]
  OBVIOUS
<1>16. /\ new.next = r.next + Cardinality(W)
       /\ \A m \in W :
             new.next - ParseRing <= r.next + Rank(W, m) =>
                new.ring[Slot(r.next + Rank(W, m), ParseRing)]
                   = [number |-> m, value |-> w[m]]
  BY <1>9, <1>13, <1>14
<1> HIDE DEF Done, Good
<1>17. h.first = r.next /\ h.count = Cardinality(W) /\ h \in [first : Nat, count : Nat]
  BY <1>1, <1>10, <1>15, <1>16
<1>18. ASSUME new.next - h.first <= ParseRing
       PROVE  At(new, ParseRing, h) = Listed(w)
  <2>1. /\ Listed(w) \in [1 .. Cardinality(W) -> Entry]
        /\ \A i \in 1 .. Cardinality(W) :
              Listed(w)[i] = [number |-> Sorted(W)[i], value |-> w[Sorted(W)[i]]]
    BY ListedFacts DEF W
  <2>2. /\ Sorted(W) \in [1 .. Cardinality(W) -> W]
        /\ \A i \in 1 .. Cardinality(W) : Rank(W, Sorted(W)[i]) = i - 1
    BY <1>1, SortedFacts
  <2>3. ASSUME NEW i \in 1 .. Cardinality(W)
        PROVE  new.ring[Slot(h.first + i - 1, ParseRing)] = Listed(w)[i]
    <3>1. PICK m : m = Sorted(W)[i]
      OBVIOUS
    <3>2. m \in W /\ Rank(W, m) = i - 1
      BY <2>2, <3>1
    <3>3. h.first + i - 1 = r.next + Rank(W, m) /\ new.next - ParseRing <= r.next + Rank(W, m)
      BY <1>1, <1>10, <1>16, <1>17, <1>18, <3>2
    <3>4. QED
      BY <1>16, <2>1, <3>1, <3>2, <3>3
  <2>4. At(new, ParseRing, h)
           = [i \in 1 .. Cardinality(W) |-> new.ring[Slot(h.first + i - 1, ParseRing)]]
    BY <1>17 DEF At
  <2>5. QED
    BY <2>1, <2>3, <2>4
<1>19. h.first + h.count <= new.next
  BY <1>1, <1>10, <1>16, <1>17
<1>20. QED
  BY <1>15, <1>17, <1>18, <1>19 DEF Shows, W

USE DEF NoDelta

-------------------------------------------------------------------------------
(* The inductive invariant *)

Slots == 0 .. Frames - 1

\* The fields of the two records, of a snapshot and of a message.
IsServer(s) ==
    /\ s \in [state : {"connected", "primed", "active"}, map : Nat, out : Nat,
              acknowledge : Nat, gamestate : Int, delta : Nat,
              frames : [Slots -> Frame], rings : {s.rings}]
    /\ \A k \in Kind : s.rings[k].next \in Nat

IsSnapshot(x) ==
    x \in [valid : BOOLEAN, message : Nat, frame : {x.frame}, world : {x.world}]

IsClient(c) ==
    /\ c \in [map : Nat, message : Nat, snap : Nat,
              snapshots : {c.snapshots}, parsed : {c.parsed}]
    /\ DOMAIN c.snapshots = Slots
    /\ \A s \in Slots : IsSnapshot(c.snapshots[s])

\* The client has the snapshot of message n.
Has(c, n) ==
    /\ n \in 0 .. c.snap
    /\ c.snapshots[Slot(n, Frames)].valid
    /\ c.snapshots[Slot(n, Frames)].message = n

\* A message under way is new to the client.  A gamestate is the last one sent,
\* and the client is not active before it has got it.  What a snapshot names as
\* its base is there.
Fits(m) ==
    /\ m.kind \in {"snapshot", "gamestate", "commands"}
    /\ m.number \in Nat /\ m.distance \in Nat /\ m.map \in Nat
    /\ client.message < m.number /\ m.number < server.out
    /\ m.map <= server.map
    /\ m.kind = "gamestate" =>
          /\ m.number = server.gamestate /\ server.state # "active"
          /\ client.map < m.map
    /\ m.kind = "snapshot" /\ m.distance # 0 =>
          m.distance < Frames /\ Has(client, m.number - m.distance)

\* Messages come in order, and no snapshot behind a gamestate.
Before(a, b) ==
    /\ a.number < b.number
    /\ b.kind = "snapshot" => a.kind # "gamestate"

In(channel) == {channel[i] : i \in 1 .. Len(channel)}
Ordered(channel) ==
    \A i \in 1 .. Len(channel) : \A j \in 1 .. i - 1 : Before(channel[j], channel[i])

\* A packet under way is about what the client has got.  One that acknowledges
\* more than the gamestate is of the client's map, and what it asks to be the
\* base is there, if it is not too old to be named.
Arrives(p) ==
    /\ p.acknowledge \in Nat /\ p.map \in Nat /\ p.delta \in BOOLEAN
    /\ p.acknowledge <= client.message /\ p.map <= client.map
    /\ p.acknowledge > server.gamestate => p.map = client.map
    /\ p.delta /\ p.map = server.map /\ server.out - p.acknowledge < Frames =>
          Has(client, p.acknowledge)

EndsInv ==
    /\ IsServer(server) /\ IsClient(client) /\ others \in 0 .. Ahead
    /\ client.snap <= client.message /\ client.message < server.out
    /\ server.delta <= client.message /\ server.gamestate < server.out
    /\ client.map <= server.map
    /\ server.state = "active" => client.map = server.map
    /\ server.state = "active" /\ server.delta # 0
       /\ server.out - server.delta < Frames => Has(client, server.delta)
    /\ client.snap # 0 => Has(client, client.snap)
    /\ \A s \in Slots : client.snapshots[s].valid =>
          Slot(client.snapshots[s].message, Frames) = s

ChannelInv ==
    /\ IsSequence(toClient) /\ Ordered(toClient)
    /\ \A m \in In(toClient) : Fits(m)

PacketsInv == \A p \in toServer : Arrives(p)

IInv == EndsInv /\ ChannelInv /\ PacketsInv

-------------------------------------------------------------------------------
(* Slots of the rings *)

LEMMA SlotFacts ==
  /\ Frames \in Nat \ {0}
  /\ \A n \in Nat : Slot(n, Frames) \in Slots
  /\ \A a, b \in Nat : a < b /\ b - a < Frames => Slot(a, Frames) # Slot(b, Frames)
<1>1. Frames \in Nat \ {0}
  BY SnapshotsAssumption
<1>2. \A n \in Nat : Slot(n, Frames) \in Slots
  BY <1>1, SlotInRing DEF Slot, Slots
<1>3. \A a, b \in Nat : a < b /\ b - a < Frames => Slot(a, Frames) # Slot(b, Frames)
  BY <1>1, SlotsDiffer DEF Slot
<1>4. QED
  BY <1>1, <1>2, <1>3

\* The counter of a ring after the records of a world were put into it.
LEMMA NextAfter ==
  ASSUME NEW r, r.next \in Nat, NEW size, NEW world \in World \cup OtherWorld,
         NEW k \in Kind
  PROVE  PutAll(r, size, Listed(world[k])).next \in Nat
<1> DEFINE n == Cardinality(DOMAIN world[k])
           l == Listed(world[k])
<1>1. n \in Nat
  BY SnapshotsAssumption, FS_Subset, FS_CardinalityType
<1>2. l \in [1 .. n -> {l[i] : i \in 1 .. n}]
  BY DEF Listed
<1> HIDE DEF n, l
<1>3. l \in Seq({l[i] : i \in 1 .. n})
  BY <1>1, <1>2, SeqDef
<1>4. Len(l) \in Nat
  BY <1>3, LenProperties
<1>5. PutAll(r, size, l).next = r.next + Len(l)
  BY DEF PutAll
<1>6. QED
  BY <1>4, <1>5 DEF l

LEMMA CountIsNat ==
  ASSUME NEW world \in World \cup OtherWorld, NEW k \in Kind
  PROVE  Cardinality(DOMAIN world[k]) \in Nat
BY SnapshotsAssumption, FS_Subset, FS_CardinalityType

-------------------------------------------------------------------------------
(* The parts of the operators on the two records *)

\* SV_BuildClientSnapshot changes the frame of this message and the rings.
LEMMA BuildParts ==
  ASSUME NEW s, IsServer(s), NEW world \in World
  PROVE  LET new == BuildClientSnapshot(s, world)
         IN  /\ IsServer(new) /\ new.state = s.state /\ new.map = s.map
             /\ new.out = s.out /\ new.gamestate = s.gamestate
             /\ new.delta = s.delta
<1> DEFINE frame == [k \in Kind |-> [first |-> s.rings[k].next,
                                     count |-> Cardinality(DOMAIN world[k])]]
           frames == [s.frames EXCEPT ![Slot(s.out, Frames)] = frame]
           rings == [k \in Kind |-> PutAll(s.rings[k], RingSize[k], Listed(world[k]))]
<1>1. BuildClientSnapshot(s, world) = [s EXCEPT !.frames = frames, !.rings = rings]
  BY DEF BuildClientSnapshot, IsServer
<1>2. frame \in Frame
  BY CountIsNat DEF Frame, IsServer
<1>3. \A k \in Kind : rings[k].next \in Nat
  BY NextAfter DEF IsServer
<1> HIDE DEF frame, rings
<1>4. frames \in [Slots -> Frame]
  BY <1>2 DEF IsServer
<1> HIDE DEF frames
<1>5. PICK new : new = [s EXCEPT !.frames = frames, !.rings = rings]
  OBVIOUS
<1>6. new \in [state : {s.state}, map : {s.map}, out : {s.out},
               acknowledge : {s.acknowledge}, gamestate : {s.gamestate},
               delta : {s.delta}, frames : [Slots -> Frame], rings : {rings}]
  BY <1>4, <1>5 DEF IsServer
<1>7. QED
  BY <1>1, <1>3, <1>5, <1>6 DEF IsServer
LEMMA NextMessage ==
  ASSUME NEW s, IsServer(s)
  PROVE  LET new == [s EXCEPT !.out = @ + 1]
         IN  /\ IsServer(new) /\ new.state = s.state /\ new.map = s.map
             /\ new.out = s.out + 1 /\ new.gamestate = s.gamestate
             /\ new.delta = s.delta
<1>1. PICK new : new = [s EXCEPT !.out = @ + 1]
  OBVIOUS
<1>2. new \in [state : {s.state}, map : {s.map}, out : {s.out + 1},
               acknowledge : {s.acknowledge}, gamestate : {s.gamestate},
               delta : {s.delta}, frames : {s.frames}, rings : {s.rings}]
  BY <1>1 DEF IsServer
<1>3. QED
  BY <1>1, <1>2 DEF IsServer

-------------------------------------------------------------------------------
(* What is under way *)

\* Netchan_Transmit: a message that comes after all others.
LEMMA SentOrdered ==
  ASSUME NEW channel, IsSequence(channel), Ordered(channel), NEW m,
         \A x \in In(channel) : Before(x, m)
  PROVE  /\ IsSequence(Send(channel, m)) /\ Ordered(Send(channel, m))
         /\ In(Send(channel, m)) \subseteq In(channel) \cup {m}
<1>1. Len(channel) \in Nat
  BY LenProperties DEF IsSequence
<1>2. PICK new : new = Send(channel, m)
  OBVIOUS
<1>3. IsSequence(new)
  BY <1>2, SentProperties, InFlightAssumption DEF Send
<1>4. PICK d \in {0, 1} :
         /\ Len(channel) - d \in Nat
         /\ Len(new) = Len(channel) - d + 1
         /\ \A i \in 1 .. Len(channel) - d : new[i] = channel[i + d]
         /\ new[Len(channel) - d + 1] = m
  BY <1>2, SentProperties, InFlightAssumption DEF Send
<1>5. ASSUME NEW i \in 1 .. Len(channel) - d
      PROVE  i + d \in 1 .. Len(channel) /\ new[i] = channel[i + d]
             /\ new[i] \in In(channel)
  <2>1. i + d \in 1 .. Len(channel)
    BY <1>1, <1>4
  <2>2. QED
    BY <1>4, <2>1 DEF In
<1>6. ASSUME NEW i \in 1 .. Len(new)
      PROVE  \/ i \in 1 .. Len(channel) - d
             \/ i = Len(channel) - d + 1 /\ new[i] = m
  BY <1>4
<1>7. In(new) \subseteq In(channel) \cup {m}
  BY <1>5, <1>6 DEF In
<1>8. ASSUME NEW i \in 1 .. Len(new), NEW j \in 1 .. i - 1
      PROVE  Before(new[j], new[i])
  <2>1. i \in Int /\ j \in Int /\ 1 <= j /\ j < i
    BY <1>4
  <2>2. CASE i \in 1 .. Len(channel) - d
    <3>1. j \in 1 .. Len(channel) - d /\ j + d \in 1 .. (i + d) - 1
      <4>1. d \in Int /\ d >= 0 /\ Len(channel) - d \in Nat
        BY <1>4
      <4>2. QED
        BY ONLY <2>1, <2>2, <4>1
    <3>2. QED
      BY <1>5, <2>2, <3>1 DEF Ordered
  <2>3. CASE i = Len(channel) - d + 1 /\ new[i] = m
    <3>1. j \in 1 .. Len(channel) - d
      <4>1. Len(channel) - d \in Nat
        BY <1>4
      <4>2. QED
        BY ONLY <2>1, <2>3, <4>1
    <3>2. QED
      BY <1>5, <2>3, <3>1
  <2>4. QED
    BY <1>6, <2>2, <2>3
<1>9. QED
  BY <1>2, <1>3, <1>7, <1>8 DEF Ordered

\* Netchan_Process: what is left came after what was received.
LEMMA AfterOrdered ==
  ASSUME NEW channel, IsSequence(channel), Ordered(channel),
         NEW i \in 1 .. Len(channel)
  PROVE  /\ IsSequence(After(channel, i)) /\ Ordered(After(channel, i))
         /\ In(After(channel, i)) \subseteq In(channel)
         /\ \A x \in In(After(channel, i)) : Before(channel[i], x)
<1>1. PICK new : new = After(channel, i)
  OBVIOUS
<1>2. /\ IsSequence(new) /\ Len(channel) - i \in Nat
      /\ Len(new) = Len(channel) - i
      /\ \A k \in 1 .. Len(channel) - i : new[k] = channel[i + k]
  BY <1>1, AfterProperties
<1>3. Len(channel) \in Nat
  BY LenProperties DEF IsSequence
<1>4. ASSUME NEW k \in 1 .. Len(new)
      PROVE  /\ i + k \in 1 .. Len(channel) /\ i \in 1 .. (i + k) - 1
             /\ new[k] = channel[i + k]
             /\ \A j \in 1 .. k - 1 : i + j \in 1 .. (i + k) - 1 /\ j \in 1 .. Len(new)
  BY <1>2, <1>3
<1>5. In(new) \subseteq In(channel)
  BY <1>4 DEF In
<1>6. \A x \in In(new) : Before(channel[i], x)
  BY <1>4 DEF In, Ordered
<1>7. Ordered(new)
  <2> SUFFICES ASSUME NEW k \in 1 .. Len(new), NEW j \in 1 .. k - 1
               PROVE  Before(new[j], new[k])
    BY DEF Ordered
  <2>1. new[j] = channel[i + j] /\ new[k] = channel[i + k]
    BY <1>4
  <2>2. QED
    BY <1>4, <2>1 DEF Ordered
<1>8. QED
  BY <1>1, <1>2, <1>5, <1>6, <1>7

-------------------------------------------------------------------------------
(* What a step of the server and a message to the client leave as it was *)

LEMMA ServerType ==
  ASSUME NEW s, IsServer(s)
  PROVE  /\ s.state \in {"connected", "primed", "active"}
         /\ s.map \in Nat /\ s.out \in Nat /\ s.acknowledge \in Nat
         /\ s.gamestate \in Int /\ s.delta \in Nat
BY DEF IsServer

LEMMA ClientType ==
  ASSUME NEW c, IsClient(c)
  PROVE  c.map \in Nat /\ c.message \in Nat /\ c.snap \in Nat
BY DEF IsClient

\* A step of the server after which the client is active only for the map it
\* has, and named no base that the client lacks.
LEMMA ServerKeeps ==
  ASSUME IInv, UNCHANGED client, IsServer(server'), others' \in 0 .. Ahead,
         server.out <= server'.out, server.map <= server'.map,
         server.gamestate <= server'.gamestate, server'.gamestate < server'.out,
         \/ server'.gamestate = server.gamestate
         \/ \A m \in In(toClient) : m.kind # "gamestate",
         server'.state = "active" => client.map = server'.map,
         server'.delta <= client.message,
         server'.state = "active" /\ server'.delta # 0
            /\ server'.out - server'.delta < Frames => Has(client, server'.delta)
  PROVE  /\ EndsInv'
         /\ \A m \in In(toClient) : Fits(m)'
         /\ \A p \in toServer : Arrives(p)'
<1>1. /\ server.map \in Int /\ server.out \in Int /\ server.gamestate \in Int
      /\ client.map \in Int /\ client.message \in Int
  BY ServerType, ClientType DEF IInv, EndsInv
<1>2. /\ server'.map \in Int /\ server'.out \in Int /\ server'.gamestate \in Int
  BY ServerType
<1>3. client.map <= server'.map /\ client.message < server'.out
  <2>1. client.map <= server.map /\ client.message < server.out
    BY DEF IInv, EndsInv
  <2>2. QED
    BY ONLY <1>1, <1>2, <2>1, server.out <= server'.out, server.map <= server'.map
<1>4. EndsInv'
  BY <1>3 DEF IInv, EndsInv
<1>5. ASSUME NEW m \in In(toClient)
      PROVE  Fits(m)'
  <2>1. Fits(m)
    BY DEF IInv, ChannelInv
  <2>2. m.number \in Int /\ m.map \in Int
    BY <2>1 DEF Fits
  <2>3. m.number < server'.out /\ m.map <= server'.map
    <3>1. m.number < server.out /\ m.map <= server.map
      BY <2>1 DEF Fits
    <3>2. QED
      BY ONLY <1>1, <1>2, <2>2, <3>1, server.out <= server'.out,
              server.map <= server'.map
  <2>4. ASSUME m.kind = "gamestate"
        PROVE  /\ m.number = server'.gamestate /\ server'.state # "active"
               /\ client.map < m.map
    <3>1. m.number = server.gamestate /\ client.map < m.map
      BY <2>1, <2>4 DEF Fits
    <3>2. client.map # server'.map
      BY <1>1, <1>2, <2>2, <2>3, <3>1
    <3>3. QED
      BY <2>4, <3>1, <3>2
  <2>5. QED
    BY <2>1, <2>3, <2>4 DEF Fits
<1>6. ASSUME NEW p \in toServer
      PROVE  Arrives(p)'
  <2>1. Arrives(p)
    BY DEF IInv, PacketsInv
  <2>2. p.acknowledge \in Int /\ p.map \in Int
    BY <2>1 DEF Arrives
  <2>3. p.acknowledge > server'.gamestate => p.map = client.map
    <3>1. p.acknowledge > server'.gamestate => p.acknowledge > server.gamestate
      BY ONLY <1>1, <1>2, <2>2, server.gamestate <= server'.gamestate
    <3>2. QED
      BY <2>1, <3>1 DEF Arrives
  <2>4. ASSUME p.delta, p.map = server'.map, server'.out - p.acknowledge < Frames
        PROVE  Has(client, p.acknowledge)
    <3>1. p.map <= client.map /\ client.map <= server.map
      BY <2>1 DEF Arrives, IInv, EndsInv
    <3>2. p.map = server.map
      BY ONLY <1>1, <1>2, <2>2, <2>4, <3>1, server.map <= server'.map
    <3>3. Frames \in Int
      BY SlotFacts
    <3>4. server.out - p.acknowledge < Frames
      BY ONLY <1>1, <1>2, <2>2, <2>4, <3>3, server.out <= server'.out
    <3>5. QED
      BY <2>1, <2>4, <3>2, <3>4 DEF Arrives
  <2>5. QED
    BY <2>1, <2>3, <2>4 DEF Arrives
<1>7. QED
  BY <1>4, <1>5, <1>6

\* A message of the server that carries no gamestate and may be sent.
LEMMA PostKeeps ==
  ASSUME IInv, UNCHANGED <<client, toServer>>, NEW m, toClient' = Send(toClient, m),
         EndsInv', \A x \in In(toClient) : Fits(x)', \A p \in toServer : Arrives(p)',
         Fits(m)', m.number = server.out,
         m.kind = "snapshot" => server.state = "active"
  PROVE  IInv'
<1>1. ASSUME NEW x \in In(toClient)
      PROVE  Before(x, m)
  <2>1. Fits(x)
    BY DEF IInv, ChannelInv
  <2>2. QED
    BY <2>1 DEF Fits, Before
<1>2. /\ IsSequence(toClient') /\ Ordered(toClient')
      /\ In(toClient') \subseteq In(toClient) \cup {m}
  BY <1>1, SentOrdered DEF IInv, ChannelInv
<1>3. ChannelInv'
  <2>1. \A x \in In(toClient') : Fits(x)'
    BY <1>2
  <2>2. QED
    BY <1>2, <2>1 DEF ChannelInv
<1>4. PacketsInv'
  BY DEF PacketsInv
<1>5. QED
  BY <1>3, <1>4 DEF IInv

\* A step that sends nothing.
LEMMA QuietKeeps ==
  ASSUME IInv, UNCHANGED <<client, toClient>>, toServer' \subseteq toServer,
         EndsInv', \A x \in In(toClient) : Fits(x)', \A p \in toServer : Arrives(p)'
  PROVE  IInv'
BY DEF IInv, ChannelInv, PacketsInv

-------------------------------------------------------------------------------
(* The steps of the server *)

LEMMA FramesFact ==
  Frames \in Nat \ {0} /\ MaxDelta \in 0 .. Frames - 1
BY SnapshotsAssumption

\* SV_SendClientSnapshot: what it names as the base is what the client asked
\* for, and not too old.
LEMMA SendClientSnapshotInv ==
  ASSUME IInv, NEW world \in World, SendClientSnapshot(world)
  PROVE  IInv'
<1> DEFINE s == BuildClientSnapshot(server, world)
<1>1. /\ IsServer(server) /\ server.state = "active"
      /\ client.map = server.map /\ server.delta <= client.message
      /\ client.message < server.out /\ server.gamestate < server.out
      /\ server.delta # 0 /\ server.out - server.delta < Frames =>
            Has(client, server.delta)
  BY DEF IInv, EndsInv, SendClientSnapshot
<1>2. /\ IsServer(s) /\ s.state = server.state /\ s.map = server.map
      /\ s.out = server.out /\ s.gamestate = server.gamestate
      /\ s.delta = server.delta
  BY <1>1, BuildParts
<1>3. /\ server' = [s EXCEPT !.out = @ + 1] /\ others' = 0
      /\ \/ Post(WriteSnapshotToClient(s, world))
         \/ Post(Bare("commands", s))
      /\ UNCHANGED <<client, toServer>>
  BY DEF SendClientSnapshot
<1> HIDE DEF s
<1>4. /\ IsServer(server') /\ server'.state = "active"
      /\ server'.map = server.map /\ server'.out = server.out + 1
      /\ server'.gamestate = server.gamestate /\ server'.delta = server.delta
  BY <1>1, <1>2, <1>3, NextMessage
<1>5. /\ server.map \in Nat /\ server.out \in Nat /\ server.gamestate \in Int
      /\ server.delta \in Nat /\ client.message \in Nat /\ Frames \in Nat
      /\ MaxDelta \in Int /\ MaxDelta < Frames /\ client.map \in Nat
  BY <1>1, ServerType, ClientType, FramesFact DEF IInv, EndsInv
<1>6. /\ EndsInv' /\ \A m \in In(toClient) : Fits(m)'
      /\ \A p \in toServer : Arrives(p)'
  <2>1. /\ server.out <= server'.out /\ server.map <= server'.map
        /\ server.gamestate <= server'.gamestate /\ server'.gamestate < server'.out
    BY <1>1, <1>4, <1>5
  <2>2. server'.out - server'.delta < Frames => server.out - server.delta < Frames
    BY <1>4, <1>5
  <2>3. others' \in 0 .. Ahead
    BY <1>3, SnapshotsAssumption
  <2>4. UNCHANGED client
    BY <1>3
  <2>5. QED
    BY <1>1, <1>4, <2>1, <2>2, <2>3, <2>4, ServerKeeps
<1>7. PICK distance : distance = DeltaFrame(s)
  OBVIOUS
<1>8. /\ distance \in Nat
      /\ distance # 0 => /\ distance < Frames
                         /\ Has(client, server.out - distance)
  <2>1. CASE distance = 0
    BY <2>1
  <2>2. CASE distance # 0
    <3>1. /\ s.delta > 0 /\ s.out - s.delta <= MaxDelta
          /\ distance = s.out - s.delta
      BY <1>7, <2>2 DEF DeltaFrame
    <3>2. distance \in Nat /\ distance < Frames
      BY <1>1, <1>2, <1>5, <3>1
    <3>3. server.delta # 0 /\ server.out - distance = server.delta
          /\ server.out - server.delta < Frames
      BY <1>2, <1>5, <3>1
    <3>4. QED
      BY <1>1, <3>2, <3>3
  <2>3. QED
    BY <2>1, <2>2
<1>9. client.message < server.out /\ server.out < server'.out
      /\ server.map <= server'.map
  BY <1>1, <1>4, <1>5
<1>10. CASE Post(WriteSnapshotToClient(s, world))
  <2>1. PICK m : m = WriteSnapshotToClient(s, world)
    OBVIOUS
  <2>2. m.kind = "snapshot" /\ m.number = server.out /\ m.map = server.map
        /\ m.distance = distance
    BY <1>2, <1>7, <2>1 DEF WriteSnapshotToClient
  <2>3. Fits(m)'
    BY <1>3, <1>4, <1>5, <1>8, <1>9, <2>2 DEF Fits
  <2>4. toClient' = Send(toClient, m)
    BY <1>10, <2>1 DEF Post
  <2>5. QED
    BY <1>1, <1>3, <1>6, <2>2, <2>3, <2>4, PostKeeps
<1>11. CASE Post(Bare("commands", s))
  <2>1. PICK m : m = Bare("commands", s)
    OBVIOUS
  <2>2. m.kind = "commands" /\ m.number = server.out /\ m.map = server.map
        /\ m.distance = 0
    BY <1>2, <2>1 DEF Bare
  <2>3. Fits(m)'
    BY <1>3, <1>5, <1>9, <2>2 DEF Fits
  <2>4. toClient' = Send(toClient, m)
    BY <1>11, <2>1 DEF Post
  <2>5. QED
    BY <1>3, <1>6, <2>2, <2>3, <2>4, PostKeeps
<1>12. QED
  BY <1>3, <1>10, <1>11

\* A snapshot for another client takes room in the rings.
LEMMA SendOtherInv ==
  ASSUME IInv, NEW world \in OtherWorld, SendOther(world)
  PROVE  IInv'
<1>1. IsServer(server)
  BY DEF IInv, EndsInv
<1>2. PICK rings : rings = [k \in Kind |-> PutAll(server.rings[k], RingSize[k],
                                                  Listed(world[k]))]
  OBVIOUS
<1>3. \A k \in Kind : rings[k].next \in Nat
  BY <1>1, <1>2, NextAfter DEF IsServer
<1>4. server' = [server EXCEPT !.rings = rings]
  BY <1>2 DEF SendOther
<1>5. server' \in [state : {server.state}, map : {server.map}, out : {server.out},
                   acknowledge : {server.acknowledge},
                   gamestate : {server.gamestate}, delta : {server.delta},
                   frames : {server.frames}, rings : {rings}]
  BY <1>1, <1>4 DEF IsServer
<1>6. /\ IsServer(server') /\ server'.state = server.state
      /\ server'.map = server.map /\ server'.out = server.out
      /\ server'.gamestate = server.gamestate /\ server'.delta = server.delta
  BY <1>1, <1>3, <1>5 DEF IsServer
<1>7. others' \in 0 .. Ahead
  <2>1. others \in 0 .. Ahead /\ Ahead \in Nat
    BY SnapshotsAssumption DEF IInv, EndsInv
  <2>2. QED
    BY <2>1 DEF SendOther
<1>8. UNCHANGED <<client, toClient, toServer>>
  BY DEF SendOther
<1>9. /\ server.map \in Nat /\ server.out \in Nat /\ server.gamestate \in Int
  BY <1>1, ServerType
<1>10. /\ EndsInv' /\ \A m \in In(toClient) : Fits(m)'
       /\ \A p \in toServer : Arrives(p)'
  <2>1. /\ server.out <= server'.out /\ server.map <= server'.map
        /\ server.gamestate <= server'.gamestate
    BY <1>6, <1>9
  <2>2. /\ server'.gamestate < server'.out /\ server'.delta <= client.message
        /\ server'.state = "active" => client.map = server'.map
        /\ server'.state = "active" /\ server'.delta # 0
           /\ server'.out - server'.delta < Frames => Has(client, server'.delta)
    BY <1>6 DEF IInv, EndsInv
  <2>3. QED
    BY <1>6, <1>7, <1>8, <2>1, <2>2, ServerKeeps
<1>11. QED
  BY <1>8, <1>10, QuietKeeps

\* SV_SpawnServer: nobody is active any more.
LEMMA SpawnServerInv ==
  ASSUME IInv, SpawnServer
  PROVE  IInv'
<1>1. IsServer(server)
  BY DEF IInv, EndsInv
<1>2. PICK rings : rings = [k \in Kind |-> EmptyRing(RingSize[k])]
  OBVIOUS
<1>3. \A k \in Kind : rings[k].next \in Nat
  BY <1>2 DEF EmptyRing
<1>4. /\ server' = [server EXCEPT !.map = @ + 1, !.state = "connected",
                                  !.rings = rings]
      /\ others' = 0 /\ UNCHANGED <<client, toClient, toServer>>
  BY <1>2 DEF SpawnServer
<1>5. server' \in [state : {"connected"}, map : {server.map + 1}, out : {server.out},
                   acknowledge : {server.acknowledge},
                   gamestate : {server.gamestate}, delta : {server.delta},
                   frames : {server.frames}, rings : {rings}]
  BY <1>1, <1>4 DEF IsServer
<1>6. /\ IsServer(server') /\ server'.state = "connected"
      /\ server'.map = server.map + 1 /\ server'.out = server.out
      /\ server'.gamestate = server.gamestate /\ server'.delta = server.delta
  BY <1>1, <1>3, <1>5 DEF IsServer
<1>7. others' \in 0 .. Ahead
  BY <1>4, SnapshotsAssumption
<1>8. /\ server.map \in Nat /\ server.out \in Nat /\ server.gamestate \in Int
  BY <1>1, ServerType
<1>9. /\ EndsInv' /\ \A m \in In(toClient) : Fits(m)'
      /\ \A p \in toServer : Arrives(p)'
  <2>1. /\ server.out <= server'.out /\ server.map <= server'.map
        /\ server.gamestate <= server'.gamestate
    BY <1>6, <1>8
  <2>2. server'.gamestate < server'.out /\ server'.delta <= client.message
    BY <1>6 DEF IInv, EndsInv
  <2>3. QED
    BY <1>4, <1>6, <1>7, <2>1, <2>2, ServerKeeps
<1>10. QED
  BY <1>4, <1>9, QuietKeeps

\* SV_ExecuteClientMessage.  The gamestate goes only to a client that is known
\* not to have got the last one and will not get it any more.
LEMMA ReceiveFromClientInv ==
  ASSUME IInv, NEW p \in toServer, ReceiveFromClient(p)
  PROVE  IInv'
<1>1. PICK s : s = [server EXCEPT !.acknowledge = p.acknowledge]
  OBVIOUS
<1>2. /\ Arrives(p) /\ IsServer(server) /\ IsClient(client)
      /\ client.map <= server.map /\ client.message < server.out
      /\ server.delta <= client.message /\ server.gamestate < server.out
      /\ others \in 0 .. Ahead
  BY DEF IInv, EndsInv, PacketsInv
<1>3. /\ p.acknowledge \in Nat /\ p.map \in Nat /\ p.delta \in BOOLEAN
      /\ p.acknowledge <= client.message /\ p.map <= client.map
      /\ p.acknowledge > server.gamestate => p.map = client.map
  BY <1>2 DEF Arrives
<1>4. s \in [state : {server.state}, map : {server.map}, out : {server.out},
             acknowledge : {p.acknowledge}, gamestate : {server.gamestate},
             delta : {server.delta}, frames : {server.frames},
             rings : {server.rings}]
  BY <1>1, <1>2 DEF IsServer
<1>5. /\ IsServer(s) /\ s.state = server.state /\ s.map = server.map
      /\ s.out = server.out /\ s.gamestate = server.gamestate
      /\ s.delta = server.delta /\ s.acknowledge = p.acknowledge
      /\ s.frames = server.frames /\ s.rings = server.rings
  BY <1>2, <1>3, <1>4 DEF IsServer
<1>6. /\ server.map \in Nat /\ server.out \in Nat /\ server.gamestate \in Int
      /\ server.delta \in Nat /\ client.message \in Nat /\ client.map \in Nat
      /\ server.state \in {"connected", "primed", "active"}
  BY <1>2, ServerType, ClientType
<1>7. /\ UNCHANGED <<client, others>> /\ toServer' \subseteq toServer
      /\ IF p.map # s.map
           THEN IF p.acknowledge > s.gamestate
                  THEN /\ Post(Bare("gamestate", s))
                       /\ server' = [s EXCEPT !.state = "primed", !.out = @ + 1,
                                              !.gamestate = s.out]
                  ELSE server' = s /\ UNCHANGED toClient
           ELSE server' = UserMove(s, p.delta) /\ UNCHANGED toClient
  BY <1>1 DEF ReceiveFromClient
<1>8. CASE p.map # s.map /\ p.acknowledge > s.gamestate
  <2>1. server' \in [state : {"primed"}, map : {s.map}, out : {s.out + 1},
                     acknowledge : {s.acknowledge}, gamestate : {s.out},
                     delta : {s.delta}, frames : {s.frames}, rings : {s.rings}]
    <3>1. server' = [s EXCEPT !.state = "primed", !.out = @ + 1, !.gamestate = s.out]
      BY <1>7, <1>8
    <3>2. s \in [state : {s.state}, map : {s.map}, out : {s.out},
                 acknowledge : {s.acknowledge}, gamestate : {s.gamestate},
                 delta : {s.delta}, frames : {s.frames}, rings : {s.rings}]
      BY <1>4, <1>5
    <3>3. QED
      BY ONLY <3>1, <3>2
  <2>2. /\ IsServer(server') /\ server'.state = "primed"
        /\ server'.map = server.map /\ server'.out = server.out + 1
        /\ server'.gamestate = server.out /\ server'.delta = server.delta
    BY <1>5, <1>6, <2>1 DEF IsServer
  <2>3. ASSUME NEW x \in In(toClient)
        PROVE  x.kind # "gamestate"
    <3>1. Fits(x)
      BY DEF IInv, ChannelInv
    <3>2. x.number \in Nat /\ client.message < x.number
      BY <3>1 DEF Fits
    <3>3. x.number # server.gamestate
      BY <1>3, <1>5, <1>6, <1>8, <3>2
    <3>4. QED
      BY <3>1, <3>3 DEF Fits
  <2>4. /\ server.out <= server'.out /\ server.map <= server'.map
        /\ server.gamestate <= server'.gamestate /\ server'.gamestate < server'.out
    BY <1>2, <1>6, <2>2
  <2>5. /\ EndsInv' /\ \A x \in In(toClient) : Fits(x)'
        /\ \A q \in toServer : Arrives(q)'
    <3>1. UNCHANGED client /\ others' \in 0 .. Ahead
      BY <1>2, <1>7
    <3>2. QED
      BY <1>2, <2>2, <2>3, <2>4, <3>1, ServerKeeps
  <2>6. PICK m : m = Bare("gamestate", s)
    OBVIOUS
  <2>7. m.kind = "gamestate" /\ m.number = server.out /\ m.map = server.map
        /\ m.distance = 0
    BY <1>5, <2>6 DEF Bare
  <2>8. client.map < server.map /\ server.out < server'.out
    BY <1>2, <1>3, <1>5, <1>6, <1>8, <2>2
  <2>9. Fits(m)'
    BY <1>2, <1>6, <1>7, <2>2, <2>7, <2>8 DEF Fits
  <2>10. toClient' = Send(toClient, m)
    BY <1>7, <1>8, <2>6 DEF Post
  <2>11. ChannelInv'
    <3>1. ASSUME NEW x \in In(toClient)
          PROVE  Before(x, m)
      <4>1. Fits(x)
        BY DEF IInv, ChannelInv
      <4>2. QED
        BY <2>7, <4>1 DEF Fits, Before
    <3>2. /\ IsSequence(toClient') /\ Ordered(toClient')
          /\ In(toClient') \subseteq In(toClient) \cup {m}
      BY <2>10, <3>1, SentOrdered DEF IInv, ChannelInv
    <3>3. \A x \in In(toClient') : Fits(x)'
      BY <2>5, <2>9, <3>2
    <3>4. QED
      BY <3>2, <3>3 DEF ChannelInv
  <2>12. PacketsInv'
    BY <1>7, <2>5 DEF PacketsInv
  <2>13. QED
    BY <2>5, <2>11, <2>12 DEF IInv
<1>9. ASSUME IsServer(server'), UNCHANGED toClient,
             server'.map = server.map, server'.out = server.out,
             server'.gamestate = server.gamestate,
             server'.state = "active" => client.map = server.map,
             server'.delta <= client.message,
             server'.state = "active" /\ server'.delta # 0
                /\ server.out - server'.delta < Frames => Has(client, server'.delta)
      PROVE  IInv'
  <2>1. /\ server.out <= server'.out /\ server.map <= server'.map
        /\ server.gamestate <= server'.gamestate /\ server'.gamestate < server'.out
    BY <1>2, <1>6, <1>9
  <2>2. UNCHANGED client /\ others' \in 0 .. Ahead
    BY <1>2, <1>7
  <2>3. server'.state = "active" /\ server'.delta # 0
          /\ server'.out - server'.delta < Frames => Has(client, server'.delta)
    BY <1>9
  <2>4. /\ EndsInv' /\ \A x \in In(toClient) : Fits(x)'
        /\ \A q \in toServer : Arrives(q)'
    BY <1>9, <2>1, <2>2, <2>3, ServerKeeps
  <2>5. QED
    BY <1>7, <1>9, <2>4, QuietKeeps
<1>10. CASE p.map # s.map /\ ~(p.acknowledge > s.gamestate)
  <2>1. server' = s /\ UNCHANGED toClient
    BY <1>7, <1>10
  <2>2. /\ server'.state = "active" => client.map = server.map
        /\ server'.state = "active" /\ server'.delta # 0
           /\ server.out - server'.delta < Frames => Has(client, server'.delta)
    BY <1>5, <2>1 DEF IInv, EndsInv
  <2>3. QED
    BY <1>2, <1>5, <1>9, <2>1, <2>2
<1>11. CASE p.map = s.map
  <2>1. server' = UserMove(s, p.delta) /\ UNCHANGED toClient
    BY <1>7, <1>11
  <2>2. client.map = server.map
    BY <1>2, <1>3, <1>5, <1>6, <1>11
  <2> DEFINE state == IF s.state = "primed" THEN "active" ELSE s.state
             delta == IF s.state = "active" /\ p.delta THEN p.acknowledge ELSE 0
  <2>3. server' = [s EXCEPT !.state = state, !.delta = delta]
    <3>1. CASE s.state = "active"
      <4>1. server' = [s EXCEPT !.delta = IF p.delta THEN s.acknowledge ELSE 0]
        BY <2>1, <3>1 DEF UserMove
      <4>2. QED
        BY <1>4, <1>5, <3>1, <4>1
    <3>2. CASE s.state = "primed"
      <4>1. server' = [s EXCEPT !.state = "active", !.delta = 0]
        BY <2>1, <3>2 DEF UserMove
      <4>2. QED
        BY <3>2, <4>1
    <3>3. CASE s.state = "connected"
      <4>1. server' = [s EXCEPT !.delta = 0]
        BY <2>1, <3>3 DEF UserMove
      <4>2. QED
        BY <1>4, <1>5, <3>3, <4>1
    <3>4. QED
      BY <1>5, <1>6, <3>1, <3>2, <3>3
  <2>4. state \in {"connected", "primed", "active"} /\ delta \in Nat
        /\ delta <= client.message
    BY <1>3, <1>5, <1>6
  <2>5. delta # 0 /\ server.out - delta < Frames => Has(client, delta)
    BY <1>2, <1>5, <1>11 DEF Arrives
  <2> HIDE DEF state, delta
  <2>6. server' \in [state : {state}, map : {s.map}, out : {s.out},
                     acknowledge : {s.acknowledge}, gamestate : {s.gamestate},
                     delta : {delta}, frames : {s.frames}, rings : {s.rings}]
    BY <1>5, <2>3 DEF IsServer
  <2>7. /\ IsServer(server') /\ server'.map = server.map /\ server'.out = server.out
        /\ server'.gamestate = server.gamestate /\ server'.delta = delta
    BY <1>5, <2>4, <2>6 DEF IsServer
  <2>8. QED
    BY <1>9, <2>1, <2>2, <2>4, <2>5, <2>7
<1>12. QED
  BY <1>8, <1>10, <1>11

-------------------------------------------------------------------------------
(* The steps of the client *)

\* CL_WritePacket: the last message is a base only if it held a snapshot.
LEMMA SendPacketInv ==
  ASSUME IInv, SendPacket
  PROVE  IInv'
<1>1. PICK p : p = [acknowledge |-> client.message, map |-> client.map,
                    delta |-> client.snap # 0 /\ client.snap = client.message]
  OBVIOUS
<1>2. toServer' = {p} /\ UNCHANGED <<server, client, toClient, others>>
  BY <1>1 DEF SendPacket
<1>3. IsClient(client) /\ (client.snap # 0 => Has(client, client.snap))
  BY DEF IInv, EndsInv
<1>4. client.map \in Nat /\ client.message \in Nat
  BY <1>3, ClientType
<1>5. /\ p.acknowledge = client.message /\ p.map = client.map
      /\ p.delta \in BOOLEAN
      /\ p.delta => client.snap # 0 /\ client.snap = client.message
  BY <1>1
<1>6. Arrives(p)
  BY <1>3, <1>4, <1>5 DEF Arrives
<1>7. EndsInv' /\ ChannelInv'
  BY <1>2 DEF IInv, EndsInv, ChannelInv, Fits
<1>8. PacketsInv'
  BY <1>2, <1>6 DEF PacketsInv, Arrives
<1>9. QED
  BY <1>7, <1>8 DEF IInv

\* A message of the client's map leaves the snapshots that may still be named.
LEMMA SameMapKeeps ==
  ASSUME IInv, NEW i \in 1 .. Len(toClient), NEW m, m = toClient[i],
         toClient' = After(toClient, i), UNCHANGED <<server, toServer, others>>,
         IsClient(client'), client'.message = m.number, client'.map = client.map,
         client'.snap <= m.number,
         client'.snap # 0 => Has(client', client'.snap),
         \A s \in Slots : client'.snapshots[s].valid =>
            Slot(client'.snapshots[s].message, Frames) = s,
         \A n \in Nat : Has(client, n) /\ m.number - n < Frames => Has(client', n)
  PROVE  IInv'
<1>1. m \in In(toClient)
  BY DEF In
<1>2. Fits(m)
  BY <1>1 DEF IInv, ChannelInv
<1>3. m.number \in Nat /\ client.message < m.number /\ m.number < server.out
  BY <1>2 DEF Fits
<1>4. /\ server.out \in Nat /\ server.delta \in Nat /\ client.message \in Nat
      /\ Frames \in Nat
  BY ServerType, ClientType, SlotFacts DEF IInv, EndsInv
<1>5. /\ IsSequence(toClient') /\ Ordered(toClient')
      /\ In(toClient') \subseteq In(toClient)
      /\ \A x \in In(toClient') : Before(m, x)
  BY AfterOrdered DEF IInv, ChannelInv
<1>6. EndsInv'
  <2>1. server.delta <= m.number
    <3>1. server.delta <= client.message
      BY DEF IInv, EndsInv
    <3>2. QED
      BY ONLY <1>3, <1>4, <3>1
  <2>2. ASSUME server.state = "active", server.delta # 0,
               server.out - server.delta < Frames
        PROVE  Has(client', server.delta)
    <3>1. Has(client, server.delta)
      BY <2>2 DEF IInv, EndsInv
    <3>2. m.number - server.delta < Frames
      BY ONLY <1>3, <1>4, <2>2
    <3>3. QED
      BY <1>4, <3>1, <3>2
  <2>3. QED
    BY <1>3, <2>1, <2>2 DEF IInv, EndsInv
<1>7. ASSUME NEW x \in In(toClient')
      PROVE  Fits(x)'
  <2>1. Fits(x) /\ Before(m, x)
    BY <1>5 DEF IInv, ChannelInv
  <2>2. m.number < x.number /\ x.number \in Nat /\ x.distance \in Nat
    BY <2>1 DEF Before, Fits
  <2>3. ASSUME x.kind = "snapshot", x.distance # 0
        PROVE  x.distance < Frames /\ Has(client', x.number - x.distance)
    <3>1. x.distance < Frames /\ Has(client, x.number - x.distance)
      BY <2>1, <2>3 DEF Fits
    <3>2. PICK n : n = x.number - x.distance
      OBVIOUS
    <3>3. n \in Nat
      <4>1. n \in 0 .. client.snap
        BY <3>1, <3>2 DEF Has
      <4>2. QED
        BY <4>1
    <3>4. m.number - n < Frames
      <4>1. x.distance < Frames
        BY <3>1
      <4>2. /\ m.number \in Int /\ x.number \in Int /\ x.distance \in Int
            /\ Frames \in Int
        BY <1>3, <1>4, <2>2
      <4>3. QED
        BY ONLY <2>2, <3>2, <4>1, <4>2
    <3>5. QED
      BY <3>1, <3>2, <3>3, <3>4
  <2>4. QED
    BY <2>1, <2>2, <2>3 DEF Fits
<1>8. ASSUME NEW p \in toServer
      PROVE  Arrives(p)'
  <2>1. Arrives(p)
    BY DEF IInv, PacketsInv
  <2>2. p.acknowledge \in Nat /\ p.acknowledge <= client.message
    BY <2>1 DEF Arrives
  <2>3. p.acknowledge <= m.number
    BY ONLY <1>3, <1>4, <2>2
  <2>4. ASSUME p.delta, p.map = server.map, server.out - p.acknowledge < Frames
        PROVE  Has(client', p.acknowledge)
    <3>1. Has(client, p.acknowledge)
      BY <2>1, <2>4 DEF Arrives
    <3>2. m.number - p.acknowledge < Frames
      BY ONLY <1>3, <1>4, <2>2, <2>4
    <3>3. QED
      BY <2>2, <3>1, <3>2
  <2>5. QED
    BY <2>1, <2>3, <2>4 DEF Arrives
<1>9. ChannelInv' /\ PacketsInv'
  BY <1>5, <1>7, <1>8 DEF ChannelInv, PacketsInv
<1>10. QED
  BY <1>6, <1>9 DEF IInv

\* A gamestate: nothing that is still under way refers to what was there.
LEMMA GamestateKeeps ==
  ASSUME IInv, NEW i \in 1 .. Len(toClient), NEW m, m = toClient[i],
         toClient' = After(toClient, i), UNCHANGED <<server, toServer, others>>,
         m.kind = "gamestate", IsClient(client'), client'.message = m.number,
         client'.map = m.map, client'.snap = 0,
         \A s \in Slots : ~client'.snapshots[s].valid
  PROVE  IInv'
<1>1. m \in In(toClient)
  BY DEF In
<1>2. Fits(m)
  BY <1>1 DEF IInv, ChannelInv
<1>3. /\ m.number \in Nat /\ client.message < m.number /\ m.number < server.out
      /\ m.map \in Nat /\ m.map <= server.map /\ client.map < m.map
      /\ m.number = server.gamestate /\ server.state # "active"
  BY <1>2 DEF Fits
<1>4. /\ server.map \in Nat /\ server.delta \in Nat /\ client.message \in Nat
      /\ client.map \in Nat
  BY ServerType, ClientType DEF IInv, EndsInv
<1>5. /\ IsSequence(toClient') /\ Ordered(toClient')
      /\ In(toClient') \subseteq In(toClient)
      /\ \A x \in In(toClient') : Before(m, x)
  BY AfterOrdered DEF IInv, ChannelInv
<1>6. EndsInv'
  <2>1. server.delta <= m.number
    <3>1. server.delta <= client.message
      BY DEF IInv, EndsInv
    <3>2. QED
      BY ONLY <1>3, <1>4, <3>1
  <2>2. 0 <= m.number
    BY ONLY <1>3
  <2>3. QED
    BY <1>3, <2>1, <2>2 DEF IInv, EndsInv
<1>7. ASSUME NEW x \in In(toClient')
      PROVE  Fits(x)'
  <2>1. Fits(x) /\ Before(m, x)
    BY <1>5 DEF IInv, ChannelInv
  <2>2. m.number < x.number /\ x.number \in Nat /\ x.kind # "snapshot"
    BY <2>1 DEF Before, Fits
  <2>3. x.number # server.gamestate
    BY ONLY <1>3, <2>2
  <2>4. x.kind # "gamestate"
    BY <2>1, <2>3 DEF Fits
  <2>5. QED
    BY <2>1, <2>2, <2>4 DEF Fits
<1>8. ASSUME NEW p \in toServer
      PROVE  Arrives(p)'
  <2>1. Arrives(p)
    BY DEF IInv, PacketsInv
  <2>2. /\ p.acknowledge \in Nat /\ p.acknowledge <= client.message
        /\ p.map \in Nat /\ p.map <= client.map /\ p.delta \in BOOLEAN
    BY <2>1 DEF Arrives
  <2>3. /\ p.acknowledge <= m.number /\ p.map <= m.map
        /\ ~(p.acknowledge > server.gamestate) /\ p.map # server.map
    <3>1. /\ client.message \in Int /\ client.map \in Int /\ server.map \in Int
          /\ m.number \in Int /\ m.map \in Int /\ client.message < m.number
          /\ m.map <= server.map /\ client.map < m.map
          /\ m.number = server.gamestate
      BY <1>3, <1>4
    <3>2. /\ p.acknowledge \in Int /\ p.acknowledge <= client.message
          /\ p.map \in Int /\ p.map <= client.map
      BY <2>2
    <3>3. QED
      BY ONLY <3>1, <3>2
  <2>4. QED
    BY <2>2, <2>3 DEF Arrives
<1>9. ChannelInv' /\ PacketsInv'
  BY <1>5, <1>7, <1>8 DEF ChannelInv, PacketsInv
<1>10. QED
  BY <1>6, <1>9 DEF IInv

\* CL_ParseSnapshot: only the skipped messages' snapshots become void.
LEMMA InvalidatedParts ==
  ASSUME NEW c, IsClient(c), NEW n \in Nat
  PROVE  LET new == Invalidated(c, n)
         IN  /\ IsClient(new) /\ new.map = c.map /\ new.message = c.message
             /\ new.snap = c.snap /\ new.parsed = c.parsed
             /\ \A s \in Slots :
                   /\ new.snapshots[s].message = c.snapshots[s].message
                   /\ new.snapshots[s].frame = c.snapshots[s].frame
                   /\ new.snapshots[s].world = c.snapshots[s].world
                   /\ new.snapshots[s].valid => c.snapshots[s].valid
                   /\ (\A q \in Skipped(c, n) : Slot(q, Frames) # s)
                         => new.snapshots[s] = c.snapshots[s]
<1>1. PICK snapshots : snapshots =
         [s \in Slots |->
            IF \E q \in Skipped(c, n) : Slot(q, Frames) = s
              THEN [c.snapshots[s] EXCEPT !.valid = FALSE] ELSE c.snapshots[s]]
  OBVIOUS
<1>2. PICK new : new = [c EXCEPT !.snapshots = snapshots]
  OBVIOUS
<1>3. new = Invalidated(c, n)
  BY <1>1, <1>2 DEF Invalidated, Slots
<1>4. DOMAIN snapshots = Slots
  BY <1>1
<1>5. ASSUME NEW s \in Slots
      PROVE  /\ IsSnapshot(snapshots[s])
             /\ snapshots[s].message = c.snapshots[s].message
             /\ snapshots[s].frame = c.snapshots[s].frame
             /\ snapshots[s].world = c.snapshots[s].world
             /\ snapshots[s].valid => c.snapshots[s].valid
             /\ (\A q \in Skipped(c, n) : Slot(q, Frames) # s)
                   => snapshots[s] = c.snapshots[s]
  <2>1. IsSnapshot(c.snapshots[s])
    BY DEF IsClient
  <2>2. CASE \E q \in Skipped(c, n) : Slot(q, Frames) = s
    <3>1. PICK x : x = c.snapshots[s]
      OBVIOUS
    <3>2. x \in [valid : BOOLEAN, message : Nat, frame : {x.frame}, world : {x.world}]
      BY <2>1, <3>1 DEF IsSnapshot
    <3>3. PICK y : y = [x EXCEPT !.valid = FALSE]
      OBVIOUS
    <3>4. y \in [valid : {FALSE}, message : {x.message}, frame : {x.frame},
                 world : {x.world}]
      BY <3>2, <3>3
    <3>5. /\ IsSnapshot(y) /\ y.message = x.message /\ ~y.valid
          /\ y.frame = x.frame /\ y.world = x.world
      BY <3>2, <3>4 DEF IsSnapshot
    <3>6. snapshots[s] = y
      BY <1>1, <2>2, <3>1, <3>3
    <3>7. QED
      BY <2>2, <3>1, <3>5, <3>6
  <2>3. CASE ~(\E q \in Skipped(c, n) : Slot(q, Frames) = s)
    <3>1. snapshots[s] = c.snapshots[s]
      BY <1>1, <2>3
    <3>2. QED
      BY <2>1, <3>1
  <2>4. QED
    BY <2>2, <2>3
<1>6. new \in [map : {c.map}, message : {c.message}, snap : {c.snap},
               snapshots : {snapshots}, parsed : {c.parsed}]
  BY <1>2 DEF IsClient
<1>7. /\ new.map = c.map /\ new.message = c.message /\ new.snap = c.snap
      /\ new.snapshots = snapshots /\ new.parsed = c.parsed
  BY <1>6
<1>8. IsClient(new)
  BY <1>4, <1>5, <1>6, <1>7, ClientType DEF IsClient
<1>9. QED
  BY <1>3, <1>5, <1>7, <1>8

\* The frame a difference is to, the rings after it was merged in, and the new
\* frame.
OldFrame(c, m) == IF m.distance = 0 THEN NoFrame ELSE Base(c, m).frame
Parsed(c, m) ==
    [k \in Kind |-> Merged(c.parsed[k], OldFrame(c, m)[k], m.difference[k])]
ParsedFrame(c, m) ==
    [k \in Kind |-> [first |-> c.parsed[k].next,
                     count |-> Parsed(c, m)[k].next - c.parsed[k].next]]

\* CL_ParseSnapshot as a whole.
LEMMA ParseParts ==
  ASSUME NEW c, IsClient(c), NEW m, m.number \in Nat
  PROVE  LET new == ParseSnapshot(c, m)
         IN  /\ IsClient(new) /\ new.map = c.map /\ new.message = c.message
             /\ new.parsed = Parsed(c, m)
             /\ \/ new.snap = c.snap /\ new.snapshots = c.snapshots
                \/ /\ new.snap = m.number /\ Valid(c, m)
                   /\ new.snapshots[Slot(m.number, Frames)].valid
                   /\ new.snapshots[Slot(m.number, Frames)].message = m.number
                   /\ new.snapshots[Slot(m.number, Frames)].frame
                         = ParsedFrame(c, m)
                   /\ new.snapshots[Slot(m.number, Frames)].world = m.world
                   /\ \A s \in Slots : s # Slot(m.number, Frames) =>
                        /\ new.snapshots[s].message = c.snapshots[s].message
                        /\ new.snapshots[s].frame = c.snapshots[s].frame
                        /\ new.snapshots[s].world = c.snapshots[s].world
                        /\ new.snapshots[s].valid => c.snapshots[s].valid
                        /\ (\A q \in Skipped(c, m.number) : Slot(q, Frames) # s)
                              => new.snapshots[s] = c.snapshots[s]
<1> DEFINE parsed == Parsed(c, m)
           frame == ParsedFrame(c, m)
           entry == [valid |-> TRUE, message |-> m.number, frame |-> frame,
                     world |-> m.world]
           slot == Slot(m.number, Frames)
<1>1. PICK after : after = [c EXCEPT !.parsed = parsed]
  OBVIOUS
<1>2. PICK void : void = Invalidated(after, m.number)
  OBVIOUS
<1>3. PICK new : new = ParseSnapshot(c, m)
  OBVIOUS
<1>4. new = IF Valid(c, m)
              THEN [void EXCEPT !.snap = m.number, !.snapshots[slot] = entry]
              ELSE after
  BY <1>1, <1>2, <1>3 DEF ParseSnapshot, ParsedFrame, Parsed, OldFrame
<1>5. /\ entry.valid /\ entry.message = m.number /\ IsSnapshot(entry)
      /\ entry.frame = frame /\ entry.world = m.world
  BY DEF IsSnapshot
<1>6. slot \in Slots
  BY SlotFacts
<1> HIDE DEF parsed, entry, slot
<1>7. after \in [map : {c.map}, message : {c.message}, snap : {c.snap},
                 snapshots : {c.snapshots}, parsed : {parsed}]
  BY <1>1 DEF IsClient
<1>8. /\ IsClient(after) /\ after.map = c.map /\ after.message = c.message
      /\ after.snap = c.snap /\ after.snapshots = c.snapshots
      /\ after.parsed = parsed
  BY <1>7 DEF IsClient
<1>9. Skipped(after, m.number) = Skipped(c, m.number)
  BY <1>8 DEF Skipped
<1>10. CASE ~Valid(c, m)
  BY <1>3, <1>4, <1>8, <1>10 DEF parsed
<1>11. CASE Valid(c, m)
  <2>1. /\ IsClient(void) /\ void.map = c.map /\ void.message = c.message
        /\ void.snap = c.snap /\ void.parsed = parsed
        /\ \A s \in Slots :
              /\ void.snapshots[s].message = c.snapshots[s].message
              /\ void.snapshots[s].frame = c.snapshots[s].frame
              /\ void.snapshots[s].world = c.snapshots[s].world
              /\ void.snapshots[s].valid => c.snapshots[s].valid
              /\ (\A q \in Skipped(c, m.number) : Slot(q, Frames) # s)
                    => void.snapshots[s] = c.snapshots[s]
    <3>1. /\ IsClient(void) /\ void.map = after.map /\ void.message = after.message
          /\ void.snap = after.snap /\ void.parsed = after.parsed
          /\ \A s \in Slots :
                /\ void.snapshots[s].message = after.snapshots[s].message
                /\ void.snapshots[s].frame = after.snapshots[s].frame
                /\ void.snapshots[s].world = after.snapshots[s].world
                /\ void.snapshots[s].valid => after.snapshots[s].valid
                /\ (\A q \in Skipped(after, m.number) : Slot(q, Frames) # s)
                      => void.snapshots[s] = after.snapshots[s]
      <4>1. PICK n \in Nat : n = m.number
        OBVIOUS
      <4>2. IsClient(after) /\ void = Invalidated(after, n)
        BY <1>2, <1>8, <4>1
      <4>3. QED
        BY ONLY <4>1, <4>2, InvalidatedParts
    <3>2. QED
      BY ONLY <1>8, <1>9, <3>1
  <2>2. PICK snapshots : snapshots = [void.snapshots EXCEPT ![slot] = entry]
    OBVIOUS
  <2>3. /\ DOMAIN snapshots = Slots /\ snapshots[slot] = entry
        /\ \A s \in Slots : s # slot => snapshots[s] = void.snapshots[s]
    BY <1>6, <2>1, <2>2 DEF IsClient
  <2>4. new = [void EXCEPT !.snap = m.number, !.snapshots = snapshots]
    BY <1>4, <1>11, <2>1, <2>2 DEF IsClient
  <2>5. new \in [map : {void.map}, message : {void.message}, snap : {m.number},
                 snapshots : {snapshots}, parsed : {void.parsed}]
    BY <2>1, <2>4 DEF IsClient
  <2>6. /\ new.map = c.map /\ new.message = c.message /\ new.snap = m.number
        /\ new.snapshots = snapshots /\ new.parsed = parsed
    BY <2>1, <2>5
  <2>7. \A s \in Slots : IsSnapshot(snapshots[s])
    BY <1>5, <2>1, <2>3 DEF IsClient
  <2>8. IsClient(new)
    BY <2>1, <2>3, <2>5, <2>6, <2>7 DEF IsClient
  <2>9. QED
    BY <1>3, <1>5, <1>11, <2>1, <2>3, <2>6, <2>8 DEF slot, parsed
<1>12. QED
  BY <1>10, <1>11

LEMMA ReceiveFromServerInv ==
  ASSUME IInv, NEW i \in 1 .. Len(toClient), ReceiveFromServer(i)
  PROVE  IInv'
<1>1. PICK m : m = toClient[i]
  OBVIOUS
<1>2. PICK c : c = [client EXCEPT !.message = m.number]
  OBVIOUS
<1>3. /\ toClient' = After(toClient, i) /\ UNCHANGED <<server, toServer, others>>
      /\ client' = CASE m.kind = "snapshot"  -> ParseSnapshot(c, m)
                     [] m.kind = "gamestate" -> ParseGamestate(c, m)
                     [] m.kind = "commands"  -> c
  BY <1>1, <1>2 DEF ReceiveFromServer
<1>4. Fits(m)
  <2>1. m \in In(toClient)
    BY <1>1 DEF In
  <2>2. QED
    BY <2>1 DEF IInv, ChannelInv
<1>5. /\ m.kind \in {"snapshot", "gamestate", "commands"} /\ m.number \in Nat
      /\ m.map \in Nat /\ client.message < m.number
  BY <1>4 DEF Fits
<1>6. IsClient(client) /\ client.snap <= client.message
      /\ (client.snap # 0 => Has(client, client.snap))
      /\ \A s \in Slots : client.snapshots[s].valid =>
            Slot(client.snapshots[s].message, Frames) = s
  BY DEF IInv, EndsInv
<1>7. c \in [map : {client.map}, message : {m.number}, snap : {client.snap},
             snapshots : {client.snapshots}, parsed : {client.parsed}]
  BY <1>2, <1>6 DEF IsClient
<1>8. /\ IsClient(c) /\ c.map = client.map /\ c.message = m.number
      /\ c.snap = client.snap /\ c.snapshots = client.snapshots
      /\ c.parsed = client.parsed
  BY <1>5, <1>6, <1>7 DEF IsClient
<1>9. client.snap \in Nat /\ client.message \in Nat /\ client.snap < m.number
  <2>1. client.snap \in Nat /\ client.message \in Nat
    BY <1>6, ClientType
  <2>2. QED
    BY <1>5, <1>6, <2>1
\* A message after which the client has the snapshots it had.
<1>10. ASSUME IsClient(client'), client'.message = m.number,
              client'.map = client.map, client'.snap = client.snap,
              client'.snapshots = client.snapshots
       PROVE  IInv'
  <2>1. \A n : Has(client, n) <=> Has(client', n)
    BY <1>10 DEF Has
  <2>2. client'.snap <= m.number
    BY <1>5, <1>9, <1>10
  <2>3. client'.snap # 0 => Has(client', client'.snap)
    BY <1>6, <1>10, <2>1
  <2>4. \A s \in Slots : client'.snapshots[s].valid =>
           Slot(client'.snapshots[s].message, Frames) = s
    BY <1>6, <1>10
  <2>5. \A n \in Nat : Has(client, n) /\ m.number - n < Frames => Has(client', n)
    BY <2>1
  <2>6. QED
    BY <1>1, <1>3, <1>10, <2>2, <2>3, <2>4, <2>5, SameMapKeeps
<1>11. CASE m.kind = "commands"
  <2>1. client' = c
    BY <1>3, <1>11
  <2>2. /\ IsClient(client') /\ client'.message = m.number
        /\ client'.map = client.map
        /\ client'.snap = client.snap /\ client'.snapshots = client.snapshots
    BY <1>8, <2>1
  <2>3. QED
    BY <1>10, <2>2
<1>12. CASE m.kind = "gamestate"
  <2>1. client' = ParseGamestate(c, m)
    BY <1>3, <1>12
  <2>2. PICK snapshots : snapshots = [s \in Slots |-> NoSnapshot]
    OBVIOUS
  <2>3. PICK parsed : parsed = [k \in Kind |-> EmptyRing(ParseRing)]
    OBVIOUS
  <2>4. client' = [c EXCEPT !.map = m.map, !.snap = 0, !.snapshots = snapshots,
                            !.parsed = parsed]
    BY <2>1, <2>2, <2>3 DEF ParseGamestate, Slots
  <2>5. client' \in [map : {m.map}, message : {c.message}, snap : {0},
                     snapshots : {snapshots}, parsed : {parsed}]
    BY <1>8, <2>4 DEF IsClient
  <2>6. IsSnapshot(NoSnapshot) /\ ~NoSnapshot.valid
    BY DEF NoSnapshot, IsSnapshot
  <2>7. /\ client'.map = m.map /\ client'.message = m.number /\ client'.snap = 0
        /\ client'.snapshots = snapshots
    BY <1>8, <2>5
  <2>8. IsClient(client')
    BY <1>5, <2>2, <2>5, <2>6, <2>7 DEF IsClient
  <2>9. \A s \in Slots : ~client'.snapshots[s].valid
    BY <2>2, <2>6, <2>7
  <2>10. QED
    BY <1>1, <1>3, <1>12, <2>7, <2>8, <2>9, GamestateKeeps
<1>13. CASE m.kind = "snapshot"
  <2>1. PICK new : new = ParseSnapshot(c, m)
    OBVIOUS
  <2>2. client' = new
    BY <1>3, <1>13, <2>1
  <2>3. /\ IsClient(new) /\ new.map = client.map /\ new.message = m.number
        /\ \/ new.snap = client.snap /\ new.snapshots = client.snapshots
           \/ /\ new.snap = m.number
              /\ new.snapshots[Slot(m.number, Frames)].valid
              /\ new.snapshots[Slot(m.number, Frames)].message = m.number
              /\ \A s \in Slots : s # Slot(m.number, Frames) =>
                   /\ new.snapshots[s].message = client.snapshots[s].message
                   /\ new.snapshots[s].valid => client.snapshots[s].valid
                   /\ (\A q \in Skipped(c, m.number) : Slot(q, Frames) # s)
                         => new.snapshots[s] = client.snapshots[s]
    BY <1>5, <1>8, <2>1, ParseParts
  <2>4. CASE new.snap = client.snap /\ new.snapshots = client.snapshots
    <3>1. /\ IsClient(client') /\ client'.message = m.number
          /\ client'.map = client.map
          /\ client'.snap = client.snap /\ client'.snapshots = client.snapshots
      BY <2>2, <2>3, <2>4
    <3>2. QED
      BY <1>10, <3>1
  <2>5. CASE ~(new.snap = client.snap /\ new.snapshots = client.snapshots)
    <3>1. /\ new.snap = m.number
          /\ new.snapshots[Slot(m.number, Frames)].valid
          /\ new.snapshots[Slot(m.number, Frames)].message = m.number
      BY <2>3, <2>5
    <3>2. ASSUME NEW s \in Slots, s # Slot(m.number, Frames)
          PROVE  /\ new.snapshots[s].message = client.snapshots[s].message
                 /\ new.snapshots[s].valid => client.snapshots[s].valid
                 /\ (\A q \in Skipped(c, m.number) : Slot(q, Frames) # s)
                       => new.snapshots[s] = client.snapshots[s]
      BY <2>3, <2>5, <3>2
    <3>3. Has(new, new.snap)
      BY <1>5, <3>1 DEF Has
    <3>4. ASSUME NEW s \in Slots, new.snapshots[s].valid
          PROVE  Slot(new.snapshots[s].message, Frames) = s
      <4>1. CASE s = Slot(m.number, Frames)
        BY <3>1, <4>1
      <4>2. CASE s # Slot(m.number, Frames)
        BY <1>6, <3>2, <3>4, <4>2
      <4>3. QED
        BY <4>1, <4>2
    <3>5. ASSUME NEW n \in Nat, Has(client, n), m.number - n < Frames
          PROVE  Has(new, n)
      <4>1. n <= client.snap /\ n < m.number
        <5>1. n \in 0 .. client.snap
          BY <3>5 DEF Has
        <5>2. QED
          BY <1>5, <1>9, <5>1
      <4>2. Slot(n, Frames) \in Slots /\ Slot(n, Frames) # Slot(m.number, Frames)
        BY <1>5, <3>5, <4>1, SlotFacts
      <4>3. ASSUME NEW q \in Skipped(c, m.number)
            PROVE  Slot(q, Frames) # Slot(n, Frames)
        <5>1. q \in client.snap + 1 .. m.number - 1
          BY <1>8 DEF Skipped
        <5>2. Frames \in Nat
          BY SlotFacts
        <5>3. q \in Nat /\ n < q /\ q - n < Frames
          BY ONLY <1>5, <1>9, <3>5, <4>1, <5>1, <5>2, n \in Nat
        <5>4. QED
          BY <5>3, SlotFacts
      <4>4. new.snapshots[Slot(n, Frames)] = client.snapshots[Slot(n, Frames)]
        BY <3>2, <4>2, <4>3
      <4>5. n \in 0 .. new.snap
        BY <1>5, <3>1, <4>1
      <4>6. QED
        BY <3>5, <4>4, <4>5 DEF Has
    <3>6. /\ IsClient(client') /\ client'.message = m.number
          /\ client'.map = client.map
      BY <2>2, <2>3
    <3>7. client'.snap <= m.number
      BY <1>5, <2>2, <3>1
    <3>8. Has(client', client'.snap)
      BY <2>2, <3>3
    <3>9. \A s \in Slots : client'.snapshots[s].valid =>
             Slot(client'.snapshots[s].message, Frames) = s
      BY <2>2, <3>4
    <3>10. \A n \in Nat : Has(client, n) /\ m.number - n < Frames
                             => Has(client', n)
      BY <2>2, <3>5
    <3>11. QED
      BY <1>1, <1>3, <3>6, <3>7, <3>8, <3>9, <3>10, SameMapKeeps
  <2>6. QED
    BY <2>4, <2>5
<1>14. QED
  BY <1>5, <1>11, <1>12, <1>13

-------------------------------------------------------------------------------
(* The invariant, and what it says *)

LEMMA Initially ==
  ASSUME Init
  PROVE  IInv
<1>1. PICK frames : frames = [s \in Slots |-> NoFrame]
  OBVIOUS
<1>2. PICK rings : rings = [k \in Kind |-> EmptyRing(RingSize[k])]
  OBVIOUS
<1>3. PICK snapshots : snapshots = [s \in Slots |-> NoSnapshot]
  OBVIOUS
<1>4. PICK parsed : parsed = [k \in Kind |-> EmptyRing(ParseRing)]
  OBVIOUS
<1>5. server \in [state : {"connected"}, map : {1}, out : {1}, acknowledge : {0},
                  gamestate : {-1}, delta : {0}, frames : {frames}, rings : {rings}]
  BY <1>1, <1>2 DEF Init, Slots
<1>6. frames \in [Slots -> Frame]
  BY <1>1 DEF Frame, NoFrame
<1>7. \A k \in Kind : rings[k].next \in Nat
  BY <1>2 DEF EmptyRing
<1>8. IsServer(server)
  BY <1>5, <1>6, <1>7 DEF IsServer
<1>9. client \in [map : {0}, message : {0}, snap : {0}, snapshots : {snapshots},
                  parsed : {parsed}]
  BY <1>3, <1>4 DEF Init, Slots
<1>10. IsSnapshot(NoSnapshot) /\ ~NoSnapshot.valid
  BY DEF IsSnapshot, NoSnapshot
<1>11. IsClient(client) /\ \A s \in Slots : ~client.snapshots[s].valid
  BY <1>3, <1>9, <1>10 DEF IsClient
<1>12. others \in 0 .. Ahead
  BY SnapshotsAssumption DEF Init
<1>13. /\ server.state = "connected" /\ server.map = 1 /\ server.out = 1
       /\ server.delta = 0 /\ server.gamestate = -1
  BY <1>5
<1>14. client.map = 0 /\ client.message = 0 /\ client.snap = 0
  BY <1>9
<1>15. EndsInv
  BY <1>8, <1>11, <1>12, <1>13, <1>14 DEF EndsInv
<1>16. toClient = <<>> /\ toServer = {}
  BY DEF Init
<1>17. IsSequence(toClient) /\ Len(toClient) = 0
  BY <1>16 DEF IsSequence
<1>18. ChannelInv
  BY <1>17 DEF ChannelInv, Ordered, In
<1>19. PacketsInv
  BY <1>16 DEF PacketsInv
<1>20. QED
  BY <1>15, <1>18, <1>19 DEF IInv

LEMMA Step ==
  ASSUME IInv, [Next]_vars
  PROVE  IInv'
<1>1. ASSUME NEW w \in World, SendClientSnapshot(w)
      PROVE  IInv'
  BY <1>1, SendClientSnapshotInv
<1>2. ASSUME NEW w \in OtherWorld, SendOther(w)
      PROVE  IInv'
  BY <1>2, SendOtherInv
<1>3. CASE SpawnServer
  BY <1>3, SpawnServerInv
<1>4. ASSUME NEW p \in toServer, ReceiveFromClient(p)
      PROVE  IInv'
  BY <1>4, ReceiveFromClientInv
<1>5. ASSUME NEW i \in DOMAIN toClient, ReceiveFromServer(i)
      PROVE  IInv'
  <2>1. DOMAIN toClient = 1 .. Len(toClient)
    BY LenProperties DEF IInv, ChannelInv, IsSequence
  <2>2. QED
    BY <1>5, <2>1, ReceiveFromServerInv
<1>6. CASE SendPacket
  BY <1>6, SendPacketInv
<1>7. CASE UNCHANGED vars
  BY <1>7 DEF vars, IInv, EndsInv, ChannelInv, PacketsInv, Fits, Arrives, Has,
              IsServer, IsClient, IsSnapshot, Ordered, In, Before, IsSequence
<1>8. QED
  BY <1>1, <1>2, <1>3, <1>4, <1>5, <1>6, <1>7 DEF Next

\* What the server and the client (client_t and clientActive_t) and the messages
\* and the packet between them are like, at all times.
THEOREM Invariance == Spec => []IInv
<1>1. Init => IInv
  BY Initially
<1>2. IInv /\ [Next]_vars => IInv'
  BY Step
<1>3. QED
  BY <1>1, <1>2, PTL DEF Spec

\* A snapshot that SV_WriteSnapshotToClient writes as a difference to an earlier
\* one reaches a client that still has this one: CL_ParseSnapshot never comes to
\* what it calls "not supposed to happen!", whatever is lost on the way, however
\* late an acknowledgement is, and whichever maps are loaded in between.
THEOREM Bases == Spec => []BasesHeld
<1>1. IInv => BasesHeld
  <2> SUFFICES ASSUME IInv
               PROVE  TypeOK /\ BasesValid
    BY DEF BasesHeld
  <2>1. TypeOK
    <3>1. IsServer(server) /\ IsClient(client) /\ EndsInv
      BY DEF IInv, EndsInv
    <3>2. server.delta \in 0 .. server.out - 1
      <4>1. /\ server.delta \in Nat /\ server.out \in Nat /\ client.message \in Nat
        BY <3>1, ServerType, ClientType
      <4>2. server.delta <= client.message /\ client.message < server.out
        BY <3>1 DEF EndsInv
      <4>3. QED
        BY ONLY <4>1, <4>2
    <3>3. /\ server.state \in {"connected", "primed", "active"}
          /\ server.frames \in [0 .. Frames - 1 -> Frame]
      BY <3>1 DEF IsServer, Slots
    <3>4. /\ client.snap <= client.message /\ client.message < server.out
          /\ \A s \in 0 .. Frames - 1 : client.snapshots[s].valid =>
                Slot(client.snapshots[s].message, Frames) = s
          /\ others \in 0 .. Ahead
      BY <3>1 DEF EndsInv, Slots
    <3>5. QED
      BY <3>2, <3>3, <3>4 DEF TypeOK
  <2>2. ASSUME NEW i \in DOMAIN toClient, toClient[i].kind = "snapshot",
               toClient[i].distance # 0
        PROVE  BaseValid(client, toClient[i])
    <3>1. DOMAIN toClient = 1 .. Len(toClient)
      BY LenProperties DEF IInv, ChannelInv, IsSequence
    <3>2. Fits(toClient[i])
      BY <3>1 DEF IInv, ChannelInv, In
    <3>3. Has(client, toClient[i].number - toClient[i].distance)
      BY <2>2, <3>2 DEF Fits
    <3>4. QED
      BY <3>3 DEF Has, BaseValid, Base
  <2>3. QED
    BY <2>1, <2>2 DEF BasesValid
<1>2. QED
  BY <1>1, Invariance, PTL

-------------------------------------------------------------------------------
(* Snapshots are as they were built *)

\* The most records of a kind that come into the server's ring for one snapshot
\* of the client: its own and the others'.
Rate(most, k) == (Ahead + 1) * most[k]

\* The rings have room: most[k] bounds the records of one snapshot.  A server
\* ring that is not checked before use holds all that comes into it while a
\* difference may refer back; no two snapshots differ by more new records than
\* CL_ParseSnapshot leaves as a margin.
Roomy(most) ==
    /\ most \in [Kind -> Nat]
    /\ \A k \in Kind :
         /\ \A w \in World \cup OtherWorld : Cardinality(DOMAIN w[k]) <= most[k]
         /\ most[k] <= RingSize[k]
         /\ k \in Checked \/ MaxDelta * Rate(most, k) + most[k] <= RingSize[k]
         /\ \A w, v \in World : Cardinality(DOMAIN w[k] \ DOMAIN v[k]) <= Margin

NoRecords == [n \in {} |-> Removed]

\* What message m is a difference to.
OldRecords(m, k) ==
    IF m.distance = 0 THEN NoRecords ELSE Base(client, m).world[k]

\* A snapshot under way is of the client's map, and says how the world differs
\* from what the client has.
Right(m) ==
    /\ m.map = client.map /\ m.world \in World
    /\ \A k \in Kind :
          m.difference[k] = Difference(Listed(OldRecords(m, k)), Listed(m.world[k]))

\* No more has come into the ring since the snapshot of message n than the
\* messages since then allow.
Near(most, n, k) ==
    server.rings[k].next + (n + 1) * Rate(most, k)
       <= server.frames[Slot(n, Frames)][k].first
             + server.out * Rate(most, k) + (others + 1) * most[k]

\* The frame of message n is that of the world w, until the slot is reused.
FrameShows(most, n, w) ==
    server.out - n <= Frames =>
       \A k \in Kind :
          /\ Shows(server.rings[k], RingSize[k],
                   server.frames[Slot(n, Frames)][k], w[k])
          /\ Near(most, n, k)

\* What the client may still use of a snapshot is in its rings.
Kept(c, x) ==
    /\ x.frame \in Frame
    /\ x.valid =>
          /\ x.message <= c.message /\ x.world \in World
          /\ \A k \in Kind : Shows(c.parsed[k], ParseRing, x.frame[k], x.world[k])

ServerRings == \A k \in Kind : IsRing(server.rings[k], RingSize[k])
ClientRings ==
    /\ \A k \in Kind : IsRing(client.parsed[k], ParseRing)
    /\ \A s \in Slots : Kept(client, client.snapshots[s])
AllRight == \A m \in In(toClient) : m.kind = "snapshot" => Right(m)
FramesInv(most) ==
    client.map = server.map =>
       /\ \A s \in Slots : client.snapshots[s].valid =>
             FrameShows(most, client.snapshots[s].message, client.snapshots[s].world)
       /\ \A m \in In(toClient) : m.kind = "snapshot" =>
             FrameShows(most, m.number, m.world)

RecordsInv(most) == ServerRings /\ ClientRings /\ AllRight /\ FramesInv(most)

LEMMA RingSizes ==
  /\ \A k \in Kind : RingSize[k] \in Nat \ {0}
  /\ Ahead \in Nat
BY SnapshotsAssumption

LEMMA Rates ==
  ASSUME NEW most, Roomy(most), NEW k \in Kind
  PROVE  /\ most[k] \in Nat /\ Rate(most, k) \in Nat
         /\ \A c \in 0 .. Ahead : (c + 1) * most[k] <= Rate(most, k)
         /\ \A c \in Nat : (c + 1) * most[k] = c * most[k] + most[k]
         /\ \A c \in Nat : (c + 1) * Rate(most, k) = c * Rate(most, k) + Rate(most, k)
         /\ \A b, c \in Nat : b <= c => b * Rate(most, k) <= c * Rate(most, k)
<1>1. PICK M \in Nat : M = most[k]
  BY DEF Roomy
<1>2. Ahead \in Nat
  BY RingSizes
<1>4. \A a, b, c \in Nat : b <= c => b * a <= c * a
  <2> SUFFICES ASSUME NEW a \in Nat, NEW b \in Nat, NEW c \in Nat, b <= c
               PROVE  b * a <= c * a
    OBVIOUS
  <2>1. PICK e \in Nat : c = b + e
    <3>1. c - b \in Nat /\ c = b + (c - b)
      OBVIOUS
    <3>2. QED
      BY <3>1
  <2>2. c * a = b * a + e * a
    BY <2>1
  <2>3. e * a \in Nat /\ b * a \in Nat
    OBVIOUS
  <2>4. QED
    BY <2>2, <2>3
<1>5. PICK R \in Nat : R = (Ahead + 1) * M
  BY <1>2
<1>6. \A c \in Nat : (c + 1) * M = c * M + M /\ (c + 1) * R = c * R + R
  OBVIOUS
<1>7. \A c \in 0 .. Ahead : (c + 1) * M <= R
  <2> SUFFICES ASSUME NEW c \in 0 .. Ahead PROVE (c + 1) * M <= R
    OBVIOUS
  <2>1. c + 1 \in Nat /\ Ahead + 1 \in Nat /\ c + 1 <= Ahead + 1
    BY <1>2
  <2>2. QED
    BY <1>4, <1>5, <2>1
<1>8. R = Rate(most, k)
  BY <1>1, <1>5 DEF Rate
<1>9. QED
  BY <1>1, <1>4, <1>5, <1>6, <1>7, <1>8

\* No records, and the frame of none.
LEMMA NoRecordsFacts ==
  /\ IsRecords(NoRecords) /\ DOMAIN NoRecords = {}
  /\ Cardinality(DOMAIN NoRecords) = 0
  /\ NoFrame \in Frame
  /\ \A k \in Kind : /\ NoFrame[k] = [first |-> 0, count |-> 0]
                     /\ \A r, size : At(r, size, NoFrame[k]) = Listed(NoRecords)
<1>1. DOMAIN NoRecords = {}
  BY DEF NoRecords
<1>2. Cardinality(DOMAIN NoRecords) = 0
  BY <1>1, FS_EmptySet
<1>3. NoRecords \in [{} -> Value]
  BY DEF NoRecords
<1>4. IsRecords(NoRecords)
  BY <1>1, <1>3 DEF IsRecords
<1>5. ASSUME NEW k \in Kind, NEW r, NEW size
      PROVE  At(r, size, NoFrame[k]) = Listed(NoRecords)
  <2>1. PICK f : f = NoFrame[k]
    OBVIOUS
  <2>2. f.count = 0
    BY <2>1 DEF NoFrame
  <2>3. At(r, size, f) = [i \in 1 .. 0 |-> r.ring[Slot(f.first + i - 1, size)]]
    BY <2>2 DEF At
  <2>4. Listed(NoRecords) =
           [i \in 1 .. 0 |-> LET n == Sorted(DOMAIN NoRecords)[i]
                             IN  [number |-> n, value |-> NoRecords[n]]]
    BY <1>2 DEF Listed
  <2>5. 1 .. 0 = {}
    OBVIOUS
  <2>6. QED
    BY <2>1, <2>3, <2>4, <2>5
<1>6. QED
  BY <1>1, <1>2, <1>4, <1>5 DEF NoFrame, Frame

\* A frame of the server after a step that left it alone.
LEMMA FrameKept ==
  ASSUME NEW most, Roomy(most), NEW n \in Nat, NEW w, FrameShows(most, n, w),
         server.out \in Nat, server'.out \in Nat, server.out <= server'.out,
         others \in Nat, others' \in Nat,
         server'.out - n <= Frames =>
            server'.frames[Slot(n, Frames)] = server.frames[Slot(n, Frames)],
         \A k \in Kind :
            /\ IsRing(server.rings[k], RingSize[k])
            /\ IsRing(server'.rings[k], RingSize[k])
            /\ Grown(server.rings[k], server'.rings[k], RingSize[k])
            /\ server'.rings[k].next + server.out * Rate(most, k)
                  + (others + 1) * most[k]
                 <= server.rings[k].next + server'.out * Rate(most, k)
                       + (others' + 1) * most[k]
  PROVE  FrameShows(most, n, w)'
<1> SUFFICES ASSUME server'.out - n <= Frames, NEW k \in Kind
             PROVE  /\ Shows(server'.rings[k], RingSize[k],
                             server'.frames[Slot(n, Frames)][k], w[k])
                    /\ Near(most, n, k)'
  BY DEF FrameShows
<1>1. PICK f : f = server.frames[Slot(n, Frames)][k]
  OBVIOUS
<1>2. f = server'.frames[Slot(n, Frames)][k]
  BY <1>1
<1>3. Shows(server.rings[k], RingSize[k], f, w[k]) /\ Near(most, n, k)
  <2>1. Frames \in Nat
    BY SlotFacts
  <2>2. server.out - n <= Frames
    BY <2>1
  <2>3. QED
    BY <1>1, <2>2 DEF FrameShows
<1>4. Shows(server'.rings[k], RingSize[k], f, w[k])
  BY <1>3, ShowsKept, RingSizes
<1>5. /\ server.rings[k].next \in Nat /\ server'.rings[k].next \in Nat
      /\ f.first \in Nat
  BY <1>3 DEF IsRing, Shows
<1>6. /\ most[k] \in Nat /\ Rate(most, k) \in Nat
  BY Rates
<1>7. PICK A \in Nat : A = (n + 1) * Rate(most, k)
  BY <1>6
<1>8. PICK B \in Nat : B = server.out * Rate(most, k)
  BY <1>6
<1>9. PICK C \in Nat : C = server'.out * Rate(most, k)
  BY <1>6
<1>10. PICK D \in Nat : D = (others + 1) * most[k]
  BY <1>6
<1>11. PICK E \in Nat : E = (others' + 1) * most[k]
  BY <1>6
<1>12. server.rings[k].next + A <= f.first + B + D
  BY <1>1, <1>3, <1>7, <1>8, <1>10 DEF Near
<1>13. server'.rings[k].next + B + D <= server.rings[k].next + C + E
  BY <1>8, <1>9, <1>10, <1>11
<1>14. server'.rings[k].next + A <= f.first + C + E
  BY ONLY <1>5, <1>12, <1>13, A \in Nat, B \in Nat, C \in Nat, D \in Nat, E \in Nat
<1>15. QED
  BY <1>2, <1>4, <1>7, <1>9, <1>11, <1>14 DEF Near

\* A world put into a ring of the server.
LEMMA PutWorld ==
  ASSUME NEW most, Roomy(most), NEW k \in Kind, NEW world \in World \cup OtherWorld,
         NEW r, IsRing(r, RingSize[k])
  PROVE  LET new == PutAll(r, RingSize[k], Listed(world[k]))
             count == Cardinality(DOMAIN world[k])
         IN  /\ IsRing(new, RingSize[k]) /\ Grown(r, new, RingSize[k])
             /\ count \in 0 .. most[k] /\ new.next = r.next + count
             /\ Shows(new, RingSize[k], [first |-> r.next, count |-> count], world[k])
<1> DEFINE W == DOMAIN world[k]
           N == Cardinality(W)
           l == Listed(world[k])
<1>1. IsRecords(world[k]) /\ N \in Nat
  BY WorldFacts, RecordsFacts
<1>2. l \in [1 .. N -> Entry]
  BY <1>1, ListedFacts
<1>3. N <= most[k] /\ N <= RingSize[k] /\ most[k] \in Nat /\ RingSize[k] \in Nat \ {0}
  <2>1. N <= most[k] /\ most[k] <= RingSize[k] /\ most[k] \in Nat
    BY DEF Roomy
  <2>2. RingSize[k] \in Nat \ {0}
    BY RingSizes
  <2> HIDE DEF N
  <2>3. QED
    BY <1>1, <2>1, <2>2
<1>4. PICK new : new = PutAll(r, RingSize[k], l)
  OBVIOUS
<1> HIDE DEF N, l
<1>5. /\ IsRing(new, RingSize[k]) /\ new.next = r.next + N
      /\ Grown(r, new, RingSize[k])
      /\ \A i \in 1 .. N : new.ring[Slot(r.next + i - 1, RingSize[k])] = l[i]
  BY <1>1, <1>2, <1>3, <1>4, PutAllFacts
<1>6. PICK f : f = [first |-> r.next, count |-> N]
  OBVIOUS
<1>7. r.next \in Nat /\ f \in [first : Nat, count : Nat]
      /\ f.first = r.next /\ f.count = N
  BY <1>1, <1>6 DEF IsRing
<1>8. At(new, RingSize[k], f) = l
  <2>1. At(new, RingSize[k], f)
           = [i \in 1 .. N |-> new.ring[Slot(r.next + i - 1, RingSize[k])]]
    BY <1>7 DEF At
  <2>2. QED
    BY <1>2, <1>5, <2>1
<1>9. Shows(new, RingSize[k], f, world[k])
  BY <1>1, <1>5, <1>7, <1>8 DEF Shows, l, N
<1>10. QED
  BY <1>1, <1>3, <1>4, <1>5, <1>6, <1>9 DEF l, N

\* SV_BuildClientSnapshot: the rings, and the frame of the message.
LEMMA BuildRecords ==
  ASSUME NEW most, Roomy(most), IsServer(server), ServerRings, NEW world \in World
  PROVE  LET s == BuildClientSnapshot(server, world)
             slot == Slot(server.out, Frames)
         IN  /\ \A t \in Slots : t # slot => s.frames[t] = server.frames[t]
             /\ \A k \in Kind :
                  /\ IsRing(s.rings[k], RingSize[k])
                  /\ Grown(server.rings[k], s.rings[k], RingSize[k])
                  /\ s.rings[k].next - server.rings[k].next \in 0 .. most[k]
                  /\ s.frames[slot][k].first = server.rings[k].next
                  /\ Shows(s.rings[k], RingSize[k], s.frames[slot][k], world[k])
<1> DEFINE frame == [k \in Kind |-> [first |-> server.rings[k].next,
                                     count |-> Cardinality(DOMAIN world[k])]]
           slot == Slot(server.out, Frames)
           frames == [server.frames EXCEPT ![slot] = frame]
           rings == [k \in Kind |-> PutAll(server.rings[k], RingSize[k],
                                           Listed(world[k]))]
<1>1. PICK s : s = BuildClientSnapshot(server, world)
  OBVIOUS
<1>2. s = [server EXCEPT !.frames = frames, !.rings = rings]
  BY <1>1 DEF BuildClientSnapshot, IsServer
<1>3. ASSUME NEW k \in Kind
      PROVE  /\ IsRing(rings[k], RingSize[k])
             /\ Grown(server.rings[k], rings[k], RingSize[k])
             /\ rings[k].next - server.rings[k].next \in 0 .. most[k]
             /\ frame[k].first = server.rings[k].next
             /\ Shows(rings[k], RingSize[k], frame[k], world[k])
  <2>1. PICK r : r = server.rings[k]
    OBVIOUS
  <2>2. IsRing(r, RingSize[k]) /\ r.next \in Nat
    BY <2>1 DEF ServerRings, IsRing
  <2>3. PICK count : count = Cardinality(DOMAIN world[k])
    OBVIOUS
  <2>4. PICK new : new = PutAll(r, RingSize[k], Listed(world[k]))
    OBVIOUS
  <2>5. /\ IsRing(new, RingSize[k]) /\ Grown(r, new, RingSize[k])
        /\ count \in 0 .. most[k] /\ new.next = r.next + count
        /\ Shows(new, RingSize[k], [first |-> r.next, count |-> count], world[k])
    BY <2>2, <2>3, <2>4, PutWorld
  <2>6. rings[k] = new
    BY <2>1, <2>4
  <2>7. frame[k] = [first |-> r.next, count |-> count]
    BY <2>1, <2>3
  <2>8. new.next - r.next = count
    BY <2>2, <2>5, Rates
  <2> HIDE DEF rings, frame
  <2>9. QED
    BY <2>1, <2>5, <2>6, <2>7, <2>8
<1> HIDE DEF frame, rings
<1>4. slot \in Slots
  BY SlotFacts DEF IsServer
<1>5. server.frames \in [Slots -> Frame]
  BY DEF IsServer
<1> HIDE DEF slot
<1>6. frames[slot] = frame /\ \A t \in Slots : t # slot => frames[t] = server.frames[t]
  BY <1>4, <1>5
<1> HIDE DEF frames
<1>7. s.frames = frames /\ s.rings = rings
  <2>1. s \in [state : {server.state}, map : {server.map}, out : {server.out},
               acknowledge : {server.acknowledge}, gamestate : {server.gamestate},
               delta : {server.delta}, frames : {frames}, rings : {rings}]
    BY <1>2 DEF IsServer
  <2>2. QED
    BY <2>1
<1>8. QED
  BY <1>1, <1>3, <1>6, <1>7 DEF slot

\* What a frame of the server holds when a difference to it is made.
LEMMA HeldFrame ==
  ASSUME NEW most, Roomy(most), NEW n \in Nat, NEW w, FrameShows(most, n, w),
         server.out \in Nat, n < server.out, server.out - n <= MaxDelta,
         others \in 0 .. Ahead, NEW k \in Kind, IsRing(server.rings[k], RingSize[k]),
         NEW new, IsRing(new, RingSize[k]), Grown(server.rings[k], new, RingSize[k]),
         new.next - server.rings[k].next \in 0 .. most[k],
         k \in Checked => server.frames[Slot(n, Frames)][k].first
                            >= new.next - RingSize[k]
  PROVE  At(new, RingSize[k], server.frames[Slot(n, Frames)][k]) = Listed(w[k])
<1>1. PICK f : f = server.frames[Slot(n, Frames)][k]
  OBVIOUS
<1>2. Shows(server.rings[k], RingSize[k], f, w[k]) /\ Near(most, n, k)
  <2>1. Frames \in Nat /\ MaxDelta \in Nat /\ MaxDelta <= Frames
    BY FramesFact
  <2>2. server.out - n <= Frames
    BY <2>1
  <2>3. QED
    BY <1>1, <2>2 DEF FrameShows
<1>3. /\ server.rings[k].next \in Nat /\ new.next \in Nat /\ f.first \in Nat
  BY <1>2 DEF IsRing, Shows
<1>4. most[k] \in Nat /\ Rate(most, k) \in Nat /\ RingSize[k] \in Nat /\ MaxDelta \in Nat
  <2>1. most[k] \in Nat /\ Rate(most, k) \in Nat
    BY Rates
  <2>2. RingSize[k] \in Nat
    BY RingSizes
  <2>3. MaxDelta \in Nat
    BY FramesFact
  <2>4. QED
    BY <2>1, <2>2, <2>3
<1>5. new.next - f.first <= RingSize[k]
  <2>1. CASE k \in Checked
    <3>1. f.first >= new.next - RingSize[k]
      BY <1>1, <2>1
    <3>2. QED
      BY ONLY <1>3, <1>4, <3>1
  <2>2. CASE k \notin Checked
    <3>1. PICK A \in Nat : A = (n + 1) * Rate(most, k)
      BY <1>4
    <3>2. PICK B \in Nat : B = server.out * Rate(most, k)
      BY <1>4
    <3>3. PICK C \in Nat : C = (others + 1) * most[k]
      BY <1>4, RingSizes
    <3>4. PICK D \in Nat : D = MaxDelta * Rate(most, k)
      BY <1>4
    <3>5. server.rings[k].next + A <= f.first + B + C
      BY <1>1, <1>2, <3>1, <3>2, <3>3 DEF Near
    <3>6. C <= Rate(most, k)
      BY <3>3, Rates
    <3>7. B <= D + n * Rate(most, k) /\ A = n * Rate(most, k) + Rate(most, k)
          /\ n * Rate(most, k) \in Nat
      <4>1. PICK R \in Nat : R = Rate(most, k)
        BY <1>4
      <4>2. MaxDelta + n \in Nat /\ server.out <= MaxDelta + n
        BY <1>4
      <4>3. server.out * R <= (MaxDelta + n) * R
        BY <4>1, <4>2, Rates
      <4>4. (MaxDelta + n) * R = MaxDelta * R + n * R /\ n * R \in Nat
        BY <1>4, <4>1
      <4>5. (n + 1) * R = n * R + R
        BY <4>1, Rates
      <4>6. QED
        BY <3>1, <3>2, <3>4, <4>1, <4>3, <4>4, <4>5
    <3>8. D + most[k] <= RingSize[k]
      BY <2>2, <3>4 DEF Roomy
    <3>9. new.next - server.rings[k].next <= most[k]
      BY <1>4
    <3>10. PICK E \in Nat : E = n * Rate(most, k)
      BY <3>7
    <3>11. B <= D + E /\ A = E + Rate(most, k)
      BY <3>7, <3>10
    <3>12. QED
      BY ONLY <1>3, <1>4, <3>5, <3>6, <3>8, <3>9, <3>11, A \in Nat, B \in Nat,
              C \in Nat, D \in Nat, E \in Nat
  <2>3. QED
    BY <2>1, <2>2
<1>6. Shows(new, RingSize[k], f, w[k])
  BY <1>2, ShowsKept, RingSizes
<1>7. QED
  BY <1>1, <1>5, <1>6 DEF Shows

-------------------------------------------------------------------------------
(* The rings after a step of the server *)

\* What the client has and what is under way, after a step of the server.
LEMMA ServerKeepsRecords ==
  ASSUME NEW most, Roomy(most), IInv, IInv', RecordsInv(most), UNCHANGED client,
         server.out <= server'.out, server'.map = server.map, ServerRings',
         \A n \in Nat : n < server.out /\ server'.out - n <= Frames =>
            server'.frames[Slot(n, Frames)] = server.frames[Slot(n, Frames)],
         \A k \in Kind :
            /\ Grown(server.rings[k], server'.rings[k], RingSize[k])
            /\ server'.rings[k].next + server.out * Rate(most, k)
                  + (others + 1) * most[k]
                 <= server.rings[k].next + server'.out * Rate(most, k)
                       + (others' + 1) * most[k]
  PROVE  /\ ClientRings'
         /\ \A m \in In(toClient) : m.kind = "snapshot" =>
               /\ Right(m)'
               /\ client.map = server.map => FrameShows(most, m.number, m.world)'
         /\ client.map = server.map =>
               \A s \in Slots : client.snapshots[s].valid =>
                  FrameShows(most, client.snapshots[s].message,
                             client.snapshots[s].world)'
<1>1. /\ server.out \in Nat /\ server'.out \in Nat /\ others \in Nat /\ others' \in Nat
      /\ client.message \in Nat /\ client.message < server.out
  <2>1. /\ IsServer(server) /\ IsServer(server') /\ IsClient(client)
        /\ client.message < server.out /\ others \in 0 .. Ahead
        /\ others' \in 0 .. Ahead
    BY DEF IInv, EndsInv
  <2>2. QED
    BY <2>1, ServerType, ClientType
<1>2. ASSUME NEW n \in Nat, n < server.out, NEW w, FrameShows(most, n, w)
      PROVE  FrameShows(most, n, w)'
  <2>1. \A k \in Kind :
           IsRing(server.rings[k], RingSize[k]) /\ IsRing(server'.rings[k], RingSize[k])
    BY DEF RecordsInv, ServerRings
  <2>2. QED
    BY <1>1, <1>2, <2>1, FrameKept
<1>3. ClientRings'
  BY DEF RecordsInv, ClientRings, Kept
<1>4. ASSUME NEW m \in In(toClient), m.kind = "snapshot"
      PROVE  /\ Right(m)'
             /\ client.map = server.map => FrameShows(most, m.number, m.world)'
  <2>1. Right(m) /\ (client.map = server.map => FrameShows(most, m.number, m.world))
    BY <1>4 DEF RecordsInv, AllRight, FramesInv
  <2>2. Right(m)'
    BY <2>1 DEF Right, OldRecords, Base
  <2>3. m.number \in Nat /\ m.number < server.out
    BY DEF IInv, ChannelInv, Fits
  <2>4. QED
    BY <1>2, <2>1, <2>2, <2>3
<1>5. ASSUME client.map = server.map, NEW s \in Slots, client.snapshots[s].valid
      PROVE  FrameShows(most, client.snapshots[s].message, client.snapshots[s].world)'
  <2>1. FrameShows(most, client.snapshots[s].message, client.snapshots[s].world)
    BY <1>5 DEF RecordsInv, FramesInv
  <2>2. client.snapshots[s].message \in Nat
    BY DEF IInv, EndsInv, IsClient, IsSnapshot
  <2>3. client.snapshots[s].message <= client.message
    BY <1>5 DEF RecordsInv, ClientRings, Kept
  <2>4. client.snapshots[s].message < server.out
    BY <1>1, <2>2, <2>3
  <2>5. PICK n \in Nat : n = client.snapshots[s].message
    BY <2>2
  <2>6. PICK w : w = client.snapshots[s].world
    OBVIOUS
  <2>7. FrameShows(most, n, w)'
    BY <1>2, <2>1, <2>4, <2>5, <2>6
  <2>8. QED
    BY <2>5, <2>6, <2>7
<1>6. QED
  BY <1>3, <1>4, <1>5

\* SV_WriteSnapshotToClient: the difference is to what the client has.
LEMMA WrittenRight ==
  ASSUME NEW most, Roomy(most), IInv, RecordsInv(most), server.state = "active",
         NEW world \in World, NEW s, s = BuildClientSnapshot(server, world),
         NEW m, m = WriteSnapshotToClient(s, world)
  PROVE  Right(m) /\ m.number = server.out
<1> DEFINE slot == Slot(server.out, Frames)
           distance == DeltaFrame(s)
           old == IF distance = 0 THEN NoFrame ELSE s.frames[Slot(s.delta, Frames)]
           new == s.frames[Slot(s.out, Frames)]
<1>1. /\ IsServer(server) /\ client.map = server.map
      /\ server.delta <= client.message /\ client.message < server.out
      /\ server.delta # 0 /\ server.out - server.delta < Frames =>
            Has(client, server.delta)
      /\ IsClient(client) /\ others \in 0 .. Ahead
  BY DEF IInv, EndsInv
<1>2. /\ IsServer(s) /\ s.state = "active" /\ s.map = server.map
      /\ s.out = server.out /\ s.delta = server.delta
  BY <1>1, BuildParts
<1>3. /\ \A t \in Slots : t # slot => s.frames[t] = server.frames[t]
      /\ \A k \in Kind :
           /\ IsRing(s.rings[k], RingSize[k])
           /\ Grown(server.rings[k], s.rings[k], RingSize[k])
           /\ s.rings[k].next - server.rings[k].next \in 0 .. most[k]
           /\ Shows(s.rings[k], RingSize[k], s.frames[slot][k], world[k])
  BY <1>1, BuildRecords DEF RecordsInv
<1>4. /\ server.out \in Nat /\ server.delta \in Nat /\ client.message \in Nat
      /\ client.map \in Nat
  BY <1>1, ServerType, ClientType
<1>5. m = [kind |-> "snapshot", number |-> s.out, distance |-> distance,
           map |-> s.map, world |-> world,
           difference |-> [k \in Kind |->
              Difference(At(s.rings[k], RingSize[k], old[k]),
                         At(s.rings[k], RingSize[k], new[k]))]]
  BY DEF WriteSnapshotToClient
<1> HIDE DEF distance
<1>6. /\ m.number = server.out /\ m.distance = distance /\ m.map = client.map
      /\ m.world = world
      /\ \A k \in Kind : m.difference[k]
            = Difference(At(s.rings[k], RingSize[k], old[k]),
                         At(s.rings[k], RingSize[k], new[k]))
  BY <1>1, <1>2, <1>5
<1>7. ASSUME NEW k \in Kind
      PROVE  At(s.rings[k], RingSize[k], new[k]) = Listed(world[k])
  <2>1. Shows(s.rings[k], RingSize[k], new[k], world[k])
    BY <1>2, <1>3
  <2>2. s.rings[k].next - new[k].first <= RingSize[k]
    <3>1. s.frames[slot][k].first = server.rings[k].next
      BY <1>1, BuildRecords DEF RecordsInv
    <3>2. new[k].first = server.rings[k].next
      BY <1>2, <3>1
    <3>3. s.rings[k].next - server.rings[k].next \in 0 .. most[k]
      BY <1>3
    <3>4. most[k] \in Nat /\ RingSize[k] \in Nat /\ most[k] <= RingSize[k]
      BY Rates, RingSizes DEF Roomy
    <3>5. PICK c : c = s.rings[k].next - server.rings[k].next
      OBVIOUS
    <3>6. c <= RingSize[k]
      BY ONLY <3>3, <3>4, <3>5
    <3>7. QED
      BY <3>2, <3>5, <3>6
  <2>3. QED
    BY <2>1, <2>2 DEF Shows
<1>8. ASSUME NEW k \in Kind
      PROVE  At(s.rings[k], RingSize[k], old[k]) = Listed(OldRecords(m, k))
  <2>1. CASE distance = 0
    <3>1. OldRecords(m, k) = NoRecords
      BY <1>6, <2>1 DEF OldRecords
    <3>2. old = NoFrame
      BY <2>1
    <3>3. QED
      BY <3>1, <3>2, NoRecordsFacts
  <2>2. CASE distance # 0
    <3>1. /\ distance = server.out - server.delta /\ server.delta > 0
          /\ server.out - server.delta <= MaxDelta
          /\ Held(s, s.frames[Slot(server.delta, Frames)])
      <4>1. PICK d : d = DeltaFrame(s)
        OBVIOUS
      <4>2. d # 0
        BY <2>2, <4>1 DEF distance
      <4>3. PICK held : held = Held(s, s.frames[Slot(s.delta, Frames)])
        OBVIOUS
      <4>4. d = IF s.delta > 0 /\ s.state = "active" /\ s.out - s.delta <= MaxDelta /\ held
                  THEN s.out - s.delta ELSE 0
        BY <4>1, <4>3 DEF DeltaFrame
      <4>5. /\ d = s.out - s.delta /\ s.delta > 0 /\ s.out - s.delta <= MaxDelta
            /\ held
        BY ONLY <4>2, <4>4
      <4>6. Held(s, s.frames[Slot(s.delta, Frames)])
        BY ONLY <4>3, <4>5
      <4>7. d = distance
        BY <4>1 DEF distance
      <4>8. QED
        BY <1>2, <4>5, <4>6, <4>7
    <3>2. MaxDelta \in Nat /\ Frames \in Nat /\ MaxDelta < Frames
      BY FramesFact
    <3>3. server.delta < server.out /\ server.out - server.delta < Frames
      BY <1>1, <1>4, <3>1, <3>2
    <3>4. PICK n \in Nat : n = server.delta
      BY <1>4
    <3>5. Slot(n, Frames) \in Slots /\ Slot(n, Frames) # slot
      BY <1>4, <3>3, <3>4, SlotFacts
    <3>6. old = server.frames[Slot(n, Frames)]
      BY <1>2, <1>3, <2>2, <3>4, <3>5
    <3>7. Has(client, n)
      BY <1>1, <3>1, <3>3, <3>4
    <3>8. PICK x : x = client.snapshots[Slot(n, Frames)]
      OBVIOUS
    <3>9. x.valid /\ x.message = n
      BY <3>7, <3>8 DEF Has
    <3>10. OldRecords(m, k) = x.world[k]
      <4>1. m.number - m.distance = n
        BY <1>4, <1>6, <3>1, <3>4
      <4>2. QED
        BY <1>6, <2>2, <3>8, <4>1 DEF OldRecords, Base
    <3>11. FrameShows(most, n, x.world)
      BY <1>1, <3>5, <3>8, <3>9 DEF RecordsInv, FramesInv
    <3>12. k \in Checked => old[k].first >= s.rings[k].next - RingSize[k]
      BY <1>3, <3>1, <3>4, <3>5, <3>6 DEF Held
    <3>13. PICK w : w = x.world
      OBVIOUS
    <3>14. PICK r : r = s.rings[k]
      OBVIOUS
    <3>15. /\ IsRing(r, RingSize[k]) /\ Grown(server.rings[k], r, RingSize[k])
           /\ r.next - server.rings[k].next \in 0 .. most[k]
           /\ IsRing(server.rings[k], RingSize[k])
           /\ k \in Checked => server.frames[Slot(n, Frames)][k].first
                                 >= r.next - RingSize[k]
      BY <1>3, <3>6, <3>12, <3>14 DEF RecordsInv, ServerRings
    <3>16. n < server.out /\ server.out - n <= MaxDelta /\ FrameShows(most, n, w)
      BY <3>1, <3>3, <3>4, <3>11, <3>13
    <3>17. At(r, RingSize[k], server.frames[Slot(n, Frames)][k]) = Listed(w[k])
      BY <1>1, <1>4, <3>15, <3>16, HeldFrame
    <3>18. QED
      BY <3>6, <3>10, <3>13, <3>14, <3>17
  <2>3. QED
    BY <2>1, <2>2
<1>9. \A k \in Kind :
         m.difference[k] = Difference(Listed(OldRecords(m, k)), Listed(m.world[k]))
  BY <1>6, <1>7, <1>8
<1>10. QED
  BY <1>6, <1>9 DEF Right

\* A step of the server that sends at most m.
LEMMA PostKeepsRecords ==
  ASSUME NEW most, Roomy(most), IInv, IInv', RecordsInv(most), UNCHANGED client,
         server.out <= server'.out, server'.map = server.map, ServerRings',
         \A n \in Nat : n < server.out /\ server'.out - n <= Frames =>
            server'.frames[Slot(n, Frames)] = server.frames[Slot(n, Frames)],
         \A k \in Kind :
            /\ Grown(server.rings[k], server'.rings[k], RingSize[k])
            /\ server'.rings[k].next + server.out * Rate(most, k)
                  + (others + 1) * most[k]
                 <= server.rings[k].next + server'.out * Rate(most, k)
                       + (others' + 1) * most[k],
         NEW m, In(toClient') \subseteq In(toClient) \cup {m},
         m.kind = "snapshot" => Right(m)' /\ FrameShows(most, m.number, m.world)'
  PROVE  RecordsInv(most)'
<1>1. /\ ClientRings'
      /\ \A x \in In(toClient) : x.kind = "snapshot" =>
            /\ Right(x)'
            /\ client.map = server.map => FrameShows(most, x.number, x.world)'
      /\ client.map = server.map =>
            \A s \in Slots : client.snapshots[s].valid =>
               FrameShows(most, client.snapshots[s].message,
                          client.snapshots[s].world)'
  BY ServerKeepsRecords
<1>2. AllRight'
  BY <1>1 DEF AllRight
<1>3. FramesInv(most)'
  <2> SUFFICES ASSUME client'.map = server'.map
               PROVE  /\ \A s \in Slots : client'.snapshots[s].valid =>
                            FrameShows(most, client.snapshots[s].message,
                                       client.snapshots[s].world)'
                      /\ \A x \in In(toClient') : x.kind = "snapshot" =>
                            FrameShows(most, x.number, x.world)'
    BY DEF FramesInv
  <2>1. client.map = server.map
    OBVIOUS
  <2>2. QED
    BY <1>1, <2>1
<1>4. QED
  BY <1>1, <1>2, <1>3 DEF RecordsInv

\* Records that come into the rings with a snapshot.
LEMMA RoomLeft ==
  ASSUME NEW most, Roomy(most), NEW k \in Kind, NEW c \in 0 .. Ahead,
         NEW old \in Nat, NEW new \in Nat, new - old <= most[k], NEW out \in Nat
  PROVE  /\ new + out * Rate(most, k) + (c + 1) * most[k]
              <= old + (out + 1) * Rate(most, k) + (0 + 1) * most[k]
         /\ new + (out + 1) * Rate(most, k)
              <= old + (out + 1) * Rate(most, k) + (0 + 1) * most[k]
         /\ new + out * Rate(most, k) + (c + 1) * most[k]
              <= old + out * Rate(most, k) + (c + 1 + 1) * most[k]
<1>1. PICK M \in Nat : M = most[k]
  BY Rates
<1>2. PICK R \in Nat : R = Rate(most, k)
  BY Rates
<1>3. c \in Nat /\ c + 1 \in Nat
  BY RingSizes
<1>4. PICK C \in Nat : C = (c + 1) * M
  BY <1>3
<1>5. C <= R
  BY <1>1, <1>2, <1>4, Rates
<1>6. PICK B \in Nat : B = out * R
  OBVIOUS
<1>7. (out + 1) * R = B + R
  BY <1>2, <1>6, Rates
<1>8. (0 + 1) * M = M /\ (c + 1 + 1) * M = C + M
  <2>1. (c + 1 + 1) * M = (c + 1) * M + M
    BY <1>1, <1>3, Rates
  <2>2. (0 + 1) * M = M
    OBVIOUS
  <2>3. QED
    BY <1>4, <2>1, <2>2
<1>9. new - old <= M
  BY <1>1
<1>10. /\ new + B + C <= old + (B + R) + M
       /\ new + (B + R) <= old + (B + R) + M
       /\ new + B + C <= old + B + (C + M)
  BY ONLY <1>5, <1>9, old \in Nat, new \in Nat, B \in Nat, C \in Nat, M \in Nat,
          R \in Nat
<1>11. QED
  BY <1>1, <1>2, <1>4, <1>6, <1>7, <1>8, <1>10

LEMMA SendClientSnapshotRecords ==
  ASSUME NEW most, Roomy(most), IInv, IInv', RecordsInv(most),
         NEW world \in World, SendClientSnapshot(world)
  PROVE  RecordsInv(most)'
<1>1. PICK s : s = BuildClientSnapshot(server, world)
  OBVIOUS
<1>2. /\ server' = [s EXCEPT !.out = @ + 1] /\ others' = 0
      /\ server.state = "active"
      /\ \/ Post(WriteSnapshotToClient(s, world))
         \/ Post(Bare("commands", s))
      /\ UNCHANGED <<client, toServer>>
  BY <1>1 DEF SendClientSnapshot
<1>3. /\ IsServer(server) /\ client.map = server.map /\ others \in 0 .. Ahead
      /\ ServerRings
  BY <1>2 DEF IInv, EndsInv, RecordsInv
<1>4. IsServer(s) /\ s.map = server.map /\ s.out = server.out
  BY <1>1, <1>3, BuildParts
<1>5. /\ server'.map = server.map /\ server'.out = server.out + 1
      /\ server'.frames = s.frames /\ server'.rings = s.rings
  <2>1. server' \in [state : {s.state}, map : {s.map}, out : {s.out + 1},
                     acknowledge : {s.acknowledge}, gamestate : {s.gamestate},
                     delta : {s.delta}, frames : {s.frames}, rings : {s.rings}]
    BY <1>2, <1>4 DEF IsServer
  <2>2. QED
    BY <1>4, <2>1
<1>6. PICK slot : slot = Slot(server.out, Frames)
  OBVIOUS
<1>7. /\ \A t \in Slots : t # slot => server'.frames[t] = server.frames[t]
      /\ \A k \in Kind :
           /\ IsRing(server'.rings[k], RingSize[k])
           /\ Grown(server.rings[k], server'.rings[k], RingSize[k])
           /\ server'.rings[k].next - server.rings[k].next \in 0 .. most[k]
           /\ server'.frames[slot][k].first = server.rings[k].next
           /\ Shows(server'.rings[k], RingSize[k], server'.frames[slot][k], world[k])
  BY <1>1, <1>3, <1>5, <1>6, BuildRecords
<1>8. server.out \in Nat /\ Frames \in Nat
  BY <1>3, ServerType, SlotFacts
<1>9. ASSUME NEW n \in Nat, n < server.out, server'.out - n <= Frames
      PROVE  server'.frames[Slot(n, Frames)] = server.frames[Slot(n, Frames)]
  <2>1. server.out - n < Frames
    BY <1>5, <1>8, <1>9
  <2>2. Slot(n, Frames) \in Slots /\ Slot(n, Frames) # slot
    BY <1>6, <1>8, <1>9, <2>1, SlotFacts
  <2>3. QED
    BY <1>7, <2>2
<1>10. ASSUME NEW k \in Kind
       PROVE  /\ server'.rings[k].next + server.out * Rate(most, k)
                    + (others + 1) * most[k]
                   <= server.rings[k].next + server'.out * Rate(most, k)
                         + (others' + 1) * most[k]
              /\ server'.rings[k].next + (server.out + 1) * Rate(most, k)
                   <= server.rings[k].next + server'.out * Rate(most, k)
                         + (others' + 1) * most[k]
  <2>1. PICK old : old = server.rings[k].next
    OBVIOUS
  <2>2. PICK new : new = server'.rings[k].next
    OBVIOUS
  <2>3. old \in Nat /\ new \in Nat
    BY <1>3, <1>7, <2>1, <2>2 DEF ServerRings, IsRing
  <2>4. new - old \in 0 .. most[k] /\ most[k] \in Nat
    BY <1>7, <2>1, <2>2, Rates
  <2>5. new - old <= most[k]
    BY ONLY <2>4
  <2>6. PICK c \in 0 .. Ahead : c = others
    BY <1>3
  <2>7. /\ new + server.out * Rate(most, k) + (c + 1) * most[k]
             <= old + (server.out + 1) * Rate(most, k) + (0 + 1) * most[k]
        /\ new + (server.out + 1) * Rate(most, k)
             <= old + (server.out + 1) * Rate(most, k) + (0 + 1) * most[k]
    BY <1>8, <2>3, <2>5, RoomLeft
  <2>8. QED
    BY <1>2, <1>5, <2>1, <2>2, <2>6, <2>7
<1>11. PICK out : out = server.out
  OBVIOUS
<1>12. FrameShows(most, out, world)'
  <2>1. ASSUME NEW k \in Kind
        PROVE  Near(most, out, k)'
    BY <1>6, <1>7, <1>10, <1>11 DEF Near
  <2>2. QED
    BY <1>6, <1>7, <1>11, <2>1 DEF FrameShows
<1>13. ServerRings'
  BY <1>7 DEF ServerRings
<1>14. server.out <= server'.out
  BY <1>5, <1>8
<1>15. ASSUME NEW m, Post(m), m.number = server.out,
              m.kind = "snapshot" => Right(m)' /\ m.world = world
       PROVE  RecordsInv(most)'
  <2>1. \A x \in In(toClient) : Before(x, m)
    <3> SUFFICES ASSUME NEW x \in In(toClient)
                 PROVE  Before(x, m)
      OBVIOUS
    <3>1. Fits(x)
      BY DEF IInv, ChannelInv
    <3>2. QED
      BY <1>2, <1>15, <3>1 DEF Fits, Before
  <2>2. In(toClient') \subseteq In(toClient) \cup {m}
    BY <1>15, <2>1, SentOrdered DEF Post, IInv, ChannelInv
  <2>3. m.kind = "snapshot" => Right(m)' /\ FrameShows(most, m.number, m.world)'
    BY <1>11, <1>15, <1>12
  <2>4. UNCHANGED client
    BY <1>2
  <2>5. QED
    BY <1>5, <1>7, <1>9, <1>10, <1>13, <1>14, <2>2, <2>3, <2>4, PostKeepsRecords
<1>16. CASE Post(WriteSnapshotToClient(s, world))
  <2>1. PICK m : m = WriteSnapshotToClient(s, world)
    OBVIOUS
  <2>2. Right(m) /\ m.number = server.out
    BY <1>1, <1>2, <2>1, WrittenRight
  <2>3. m.world = world
    BY <2>1 DEF WriteSnapshotToClient
  <2>4. Right(m)'
    BY <1>2, <2>2 DEF Right, OldRecords, Base
  <2>5. QED
    BY <1>15, <1>16, <2>1, <2>2, <2>3, <2>4
<1>17. CASE Post(Bare("commands", s))
  <2>1. PICK m : m = Bare("commands", s)
    OBVIOUS
  <2>2. m.kind = "commands" /\ m.number = server.out
    BY <1>4, <2>1 DEF Bare
  <2>3. QED
    BY <1>15, <1>17, <2>1, <2>2
<1>18. QED
  BY <1>2, <1>16, <1>17

LEMMA SendOtherRecords ==
  ASSUME NEW most, Roomy(most), IInv, IInv', RecordsInv(most),
         NEW world \in OtherWorld, SendOther(world)
  PROVE  RecordsInv(most)'
<1>1. /\ IsServer(server) /\ others \in 0 .. Ahead /\ ServerRings
      /\ server.out \in Nat
  BY ServerType DEF IInv, EndsInv, RecordsInv
<1>2. PICK rings : rings = [k \in Kind |-> PutAll(server.rings[k], RingSize[k],
                                                  Listed(world[k]))]
  OBVIOUS
<1>3. /\ server' = [server EXCEPT !.rings = rings] /\ others' = others + 1
      /\ UNCHANGED <<client, toClient, toServer>>
  BY <1>2 DEF SendOther
<1>4. server' \in [state : {server.state}, map : {server.map}, out : {server.out},
                   acknowledge : {server.acknowledge},
                   gamestate : {server.gamestate}, delta : {server.delta},
                   frames : {server.frames}, rings : {rings}]
  BY <1>1, <1>3 DEF IsServer
<1>5. /\ server'.map = server.map /\ server'.out = server.out
      /\ server'.frames = server.frames /\ server'.rings = rings
  BY <1>4
<1>6. ASSUME NEW k \in Kind
      PROVE  /\ IsRing(rings[k], RingSize[k])
             /\ Grown(server.rings[k], rings[k], RingSize[k])
             /\ rings[k].next + server.out * Rate(most, k) + (others + 1) * most[k]
                  <= server.rings[k].next + server.out * Rate(most, k)
                        + (others' + 1) * most[k]
  <2>1. PICK r : r = server.rings[k]
    OBVIOUS
  <2>2. IsRing(r, RingSize[k]) /\ r.next \in Nat
    BY <1>1, <2>1 DEF ServerRings, IsRing
  <2>3. PICK new : new = PutAll(r, RingSize[k], Listed(world[k]))
    OBVIOUS
  <2>4. PICK count : count = Cardinality(DOMAIN world[k])
    OBVIOUS
  <2>5. /\ IsRing(new, RingSize[k]) /\ Grown(r, new, RingSize[k])
        /\ count \in 0 .. most[k] /\ new.next = r.next + count
    BY <2>2, <2>3, <2>4, PutWorld
  <2>6. rings[k] = new
    BY <1>2, <2>1, <2>3
  <2>7. most[k] \in Nat
    BY Rates
  <2>8. new.next \in Nat /\ new.next - r.next <= most[k]
    BY <2>2, <2>5, <2>7
  <2>9. PICK c \in 0 .. Ahead : c = others
    BY <1>1
  <2>10. new.next + server.out * Rate(most, k) + (c + 1) * most[k]
            <= r.next + server.out * Rate(most, k) + (c + 1 + 1) * most[k]
    <3>1. PICK a \in Nat : a = r.next
      BY <2>2
    <3>2. PICK b \in Nat : b = new.next
      BY <2>8
    <3>3. b - a <= most[k]
      BY <2>8, <3>1, <3>2
    <3>4. b + server.out * Rate(most, k) + (c + 1) * most[k]
             <= a + server.out * Rate(most, k) + (c + 1 + 1) * most[k]
      BY <1>1, <3>3, RoomLeft
    <3>5. QED
      BY <3>1, <3>2, <3>4
  <2>11. QED
    BY <1>3, <2>1, <2>5, <2>6, <2>9, <2>10
<1>7. ServerRings'
  BY <1>5, <1>6 DEF ServerRings
<1>8. PICK m : m = Bare("commands", server)
  OBVIOUS
<1>9. m.kind # "snapshot" /\ In(toClient') \subseteq In(toClient) \cup {m}
  BY <1>3, <1>8 DEF Bare
<1>10. UNCHANGED client /\ server.out <= server'.out
  BY <1>1, <1>3, <1>5
<1>11. QED
  BY <1>5, <1>6, <1>7, <1>9, <1>10, PostKeepsRecords

\* An empty ring.
LEMMA EmptyRingFacts ==
  ASSUME NEW size \in Nat \ {0}
  PROVE  IsRing(EmptyRing(size), size) /\ EmptyRing(size).next = 0
<1>1. PICK n \in Number : TRUE
  BY SnapshotsAssumption
<1>2. PICK v \in Value : TRUE
  BY SnapshotsAssumption
<1>3. [number |-> n, value |-> v] \in Entry
  BY DEF Entry
<1>4. PICK e \in Entry : e = CHOOSE x \in Entry : TRUE
  BY <1>3
<1>5. EmptyRing(size) = [ring |-> [s \in 0 .. size - 1 |-> e], next |-> 0]
  BY <1>4 DEF EmptyRing
<1>6. QED
  BY <1>5 DEF IsRing

LEMMA SpawnServerRecords ==
  ASSUME NEW most, Roomy(most), IInv, IInv', RecordsInv(most), SpawnServer
  PROVE  RecordsInv(most)'
<1>1. IsServer(server) /\ client.map <= server.map /\ IsClient(client)
  BY DEF IInv, EndsInv
<1>2. PICK rings : rings = [k \in Kind |-> EmptyRing(RingSize[k])]
  OBVIOUS
<1>3. /\ server' = [server EXCEPT !.map = @ + 1, !.state = "connected",
                                  !.rings = rings]
      /\ UNCHANGED <<client, toClient, toServer>>
  BY <1>2 DEF SpawnServer
<1>4. server' \in [state : {"connected"}, map : {server.map + 1}, out : {server.out},
                   acknowledge : {server.acknowledge},
                   gamestate : {server.gamestate}, delta : {server.delta},
                   frames : {server.frames}, rings : {rings}]
  BY <1>1, <1>3 DEF IsServer
<1>5. server'.map = server.map + 1 /\ server'.rings = rings
  BY <1>4
<1>6. ServerRings'
  BY <1>2, <1>5, RingSizes, EmptyRingFacts DEF ServerRings
<1>7. client'.map # server'.map
  <2>1. client.map \in Nat /\ server.map \in Nat
    BY <1>1, ServerType, ClientType
  <2>2. client'.map = client.map
    BY <1>3
  <2>3. QED
    BY ONLY <1>1, <1>5, <2>1, <2>2
<1>8. FramesInv(most)'
  BY <1>7 DEF FramesInv
<1>9. ClientRings' /\ AllRight'
  BY <1>3 DEF RecordsInv, ClientRings, Kept, AllRight, Right, OldRecords, Base
<1>10. QED
  BY <1>6, <1>8, <1>9 DEF RecordsInv

\* Nothing came into a ring.
LEMMA GrownSame ==
  ASSUME NEW size \in Nat, NEW r, IsRing(r, size)
  PROVE  Grown(r, r, size)
<1>1. r.next \in Nat
  BY DEF IsRing
<1>2. QED
  BY <1>1 DEF Grown

LEMMA ReceiveFromClientRecords ==
  ASSUME NEW most, Roomy(most), IInv, IInv', RecordsInv(most),
         NEW p \in toServer, ReceiveFromClient(p)
  PROVE  RecordsInv(most)'
<1>1. PICK s : s = [server EXCEPT !.acknowledge = p.acknowledge]
  OBVIOUS
<1>2. IsServer(server) /\ others \in 0 .. Ahead /\ server.out \in Nat /\ ServerRings
  BY ServerType DEF IInv, EndsInv, RecordsInv
<1>3. s \in [state : {server.state}, map : {server.map}, out : {server.out},
             acknowledge : {p.acknowledge}, gamestate : {server.gamestate},
             delta : {server.delta}, frames : {server.frames},
             rings : {server.rings}]
  BY <1>1, <1>2 DEF IsServer
<1>4. /\ UNCHANGED <<client, others>>
      /\ \/ /\ Post(Bare("gamestate", s))
            /\ server' = [s EXCEPT !.state = "primed", !.out = @ + 1,
                                   !.gamestate = s.out]
         \/ server' = s /\ UNCHANGED toClient
         \/ server' = UserMove(s, p.delta) /\ UNCHANGED toClient
  BY <1>1 DEF ReceiveFromClient
<1>5. /\ server'.map = server.map /\ server'.rings = server.rings
      /\ server'.frames = server.frames
      /\ server'.out \in {server.out, server.out + 1}
  <2>1. CASE server' = s
    BY <1>3, <2>1
  <2>2. CASE server' = UserMove(s, p.delta)
    <3>1. PICK delta : \/ server' = [s EXCEPT !.delta = delta]
                       \/ server' = [s EXCEPT !.state = "active", !.delta = delta]
      BY <2>2 DEF UserMove
    <3>2. QED
      BY ONLY <1>3, <3>1
  <2>3. CASE server' = [s EXCEPT !.state = "primed", !.out = @ + 1, !.gamestate = s.out]
    BY ONLY <1>3, <2>3
  <2>4. QED
    BY <1>4, <2>1, <2>2, <2>3
<1>6. server.out <= server'.out /\ server'.out \in Nat
  BY ONLY <1>2, <1>5
<1>7. PICK m : m = Bare("gamestate", s)
  OBVIOUS
<1>8. m.kind = "gamestate" /\ m.number = server.out
  BY <1>3, <1>7 DEF Bare
<1>9. In(toClient') \subseteq In(toClient) \cup {m}
  <2>1. CASE UNCHANGED toClient
    BY <2>1
  <2>2. CASE Post(m)
    <3>1. ASSUME NEW x \in In(toClient)
          PROVE  Before(x, m)
      <4>1. Fits(x)
        BY DEF IInv, ChannelInv
      <4>2. QED
        BY <1>8, <4>1 DEF Fits, Before
    <3>2. QED
      BY <2>2, <3>1, SentOrdered DEF Post, IInv, ChannelInv
  <2>3. QED
    BY <1>4, <1>7, <2>1, <2>2
<1>10. ServerRings'
  BY <1>2, <1>5 DEF ServerRings
<1>11. ASSUME NEW k \in Kind
       PROVE  /\ Grown(server.rings[k], server'.rings[k], RingSize[k])
              /\ server'.rings[k].next + server.out * Rate(most, k)
                    + (others + 1) * most[k]
                   <= server.rings[k].next + server'.out * Rate(most, k)
                         + (others' + 1) * most[k]
  <2>1. PICK r : r = server.rings[k]
    OBVIOUS
  <2>2. IsRing(r, RingSize[k]) /\ r.next \in Nat /\ r = server'.rings[k]
    BY <1>2, <1>5, <2>1 DEF ServerRings, IsRing
  <2>3. Grown(r, r, RingSize[k])
    BY <2>2, RingSizes, GrownSame
  <2>4. most[k] \in Nat /\ Rate(most, k) \in Nat
    BY Rates
  <2>5. PICK D \in Nat : D = (others + 1) * most[k]
    BY <1>2, <2>4, RingSizes
  <2>6. PICK B \in Nat : B = server.out * Rate(most, k)
    BY <1>2, <2>4
  <2>7. PICK C \in Nat : C = server'.out * Rate(most, k)
    BY <1>6, <2>4
  <2>8. B <= C
    BY <1>2, <1>6, <2>6, <2>7, Rates
  <2>9. r.next + B + D <= r.next + C + D
    BY ONLY <2>2, <2>8, B \in Nat, C \in Nat, D \in Nat
  <2>10. QED
    BY <1>4, <2>1, <2>2, <2>3, <2>5, <2>6, <2>7, <2>9
<1>12. UNCHANGED client /\ m.kind # "snapshot"
  BY <1>4, <1>8
<1>13. QED
  BY <1>5, <1>6, <1>9, <1>10, <1>11, <1>12, PostKeepsRecords

-------------------------------------------------------------------------------
(* The rings after a step of the client *)

\* CL_ParsePacketEntities, CL_ParsePacketClients: the rings after a snapshot, and
\* its frame.
LEMMA ParsedRecords ==
  ASSUME NEW most, Roomy(most), IInv, RecordsInv(most), NEW m \in In(toClient),
         m.kind = "snapshot", NEW c, c.parsed = client.parsed,
         c.snapshots = client.snapshots, NEW k \in Kind
  PROVE  /\ IsRing(Parsed(c, m)[k], ParseRing)
         /\ Grown(client.parsed[k], Parsed(c, m)[k], ParseRing)
         /\ Valid(c, m) =>
               Shows(Parsed(c, m)[k], ParseRing, ParsedFrame(c, m)[k], m.world[k])
<1>1. Fits(m) /\ Right(m)
  BY DEF IInv, ChannelInv, RecordsInv, AllRight
<1>2. PICK r : r = client.parsed[k]
  OBVIOUS
<1>3. IsRing(r, ParseRing) /\ r.next \in Nat
  BY <1>2 DEF RecordsInv, ClientRings, IsRing
<1>4. PICK w : w = m.world[k]
  OBVIOUS
<1>5. PICK o : o = OldRecords(m, k)
  OBVIOUS
<1>6. PICK f : f = OldFrame(c, m)[k]
  OBVIOUS
<1>7. PICK d : d = m.difference[k]
  OBVIOUS
<1>8. m.world \in World /\ d = Difference(Listed(o), Listed(w))
  BY <1>1, <1>4, <1>5, <1>7 DEF Right
<1>9. IsRecords(w)
  BY <1>4, <1>8, WorldFacts
<1>10. PICK new : new = Parsed(c, m)[k]
  OBVIOUS
<1>11. new = Merged(r, f, d)
  BY <1>2, <1>6, <1>7, <1>10 DEF Parsed
<1>12. ParsedFrame(c, m)[k] = [first |-> r.next, count |-> new.next - r.next]
  BY <1>2, <1>10 DEF ParsedFrame
<1>13. ParseRing \in Nat \ {0} /\ Margin \in 0 .. ParseRing
  BY ParseRingFact
<1>14. /\ IsRecords(o) /\ f \in [first : Nat, count : Nat]
       /\ f.count = Cardinality(DOMAIN o) \/ m.distance # 0
  <2>1. CASE m.distance = 0
    <3>1. o = NoRecords /\ f = [first |-> 0, count |-> 0]
      BY <1>5, <1>6, <2>1, NoRecordsFacts DEF OldRecords, OldFrame
    <3>2. QED
      BY <3>1, NoRecordsFacts
  <2>2. CASE m.distance # 0
    <3>1. PICK n \in Nat : n = m.number - m.distance /\ Has(client, n)
      BY <1>1, <2>2, ClientType DEF Fits, Has, IInv, EndsInv
    <3>2. Slot(n, Frames) \in Slots
      BY SlotFacts
    <3>3. PICK x : x = client.snapshots[Slot(n, Frames)]
      OBVIOUS
    <3>4. x.valid /\ Kept(client, x)
      BY <3>1, <3>2, <3>3 DEF Has, RecordsInv, ClientRings
    <3>5. x.world \in World /\ x.frame \in Frame
      BY <3>4 DEF Kept
    <3>6. o = x.world[k] /\ f = x.frame[k]
      BY <1>5, <1>6, <2>2, <3>1, <3>3 DEF OldRecords, OldFrame, Base
    <3>7. QED
      BY <2>2, <3>5, <3>6, WorldFacts DEF Frame
  <2>3. QED
    BY <2>1, <2>2
<1>15. IsDifference(d)
  BY <1>8, <1>9, <1>14, DifferenceFacts
<1>16. IsRing(new, ParseRing) /\ Grown(r, new, ParseRing)
  BY <1>3, <1>11, <1>14, <1>15, MergedFacts
<1>17. ASSUME Valid(c, m)
       PROVE  Shows(new, ParseRing, [first |-> r.next, count |-> new.next - r.next], w)
  <2>1. CASE m.distance = 0
    <3>1. o = NoRecords /\ f = NoFrame[k]
      BY <1>5, <1>6, <2>1 DEF OldRecords, OldFrame
    <3>2. At(r, ParseRing, f) = Listed(o) /\ DOMAIN o = {}
      BY <3>1, NoRecordsFacts
    <3>3. f.count = Cardinality(DOMAIN o)
      BY <3>1, NoRecordsFacts
    <3>4. QED
      BY <1>3, <1>8, <1>9, <1>11, <1>14, <3>2, <3>3, MergedShows
  <2>2. CASE m.distance # 0
    <3>1. PICK n \in Nat : n = m.number - m.distance /\ Has(client, n)
      BY <1>1, <2>2, ClientType DEF Fits, Has, IInv, EndsInv
    <3>2. Slot(n, Frames) \in Slots
      BY SlotFacts
    <3>3. PICK x : x = client.snapshots[Slot(n, Frames)]
      OBVIOUS
    <3>4. x.valid /\ Kept(client, x)
      BY <3>1, <3>2, <3>3 DEF Has, RecordsInv, ClientRings
    <3>5. x.world \in World /\ Shows(r, ParseRing, x.frame[k], x.world[k])
      BY <1>2, <3>4 DEF Kept
    <3>6. o = x.world[k] /\ f = x.frame[k]
      BY <1>5, <1>6, <2>2, <3>1, <3>3 DEF OldRecords, OldFrame, Base
    <3>7. r.next - f.first <= ParseRing - Margin
      <4>1. BaseHeld(c, m)
        BY <1>17, <2>2 DEF Valid
      <4>2. Base(c, m) = x
        BY <3>1, <3>3 DEF Base
      <4>3. QED
        BY <1>2, <3>6, <4>1, <4>2 DEF BaseHeld
    <3>8. Shows(r, ParseRing, f, o)
      BY <3>5, <3>6
    <3>9. f.first \in Nat /\ f.first + f.count <= r.next
          /\ f.count = Cardinality(DOMAIN o)
      BY <3>8 DEF Shows
    <3>10. r.next - f.first <= ParseRing
      BY ONLY <1>3, <1>13, <3>7, <3>9
    <3>11. At(r, ParseRing, f) = Listed(o)
      BY <3>8, <3>10 DEF Shows
    <3>12. Cardinality(DOMAIN w \ DOMAIN o) <= Margin
      <4>1. PICK v \in World : v = x.world
        BY <3>5
      <4>2. PICK u \in World : u = m.world
        BY <1>8
      <4>3. Cardinality(DOMAIN u[k] \ DOMAIN v[k]) <= Margin
        BY DEF Roomy
      <4>4. QED
        BY <1>4, <3>6, <4>1, <4>2, <4>3
    <3>13. QED
      BY <1>3, <1>8, <1>9, <1>11, <1>14, <3>7, <3>9, <3>11, <3>12, MergedShows
  <2>3. QED
    BY <2>1, <2>2
<1>18. QED
  BY <1>2, <1>4, <1>10, <1>12, <1>16, <1>17

\* A message after which the client is still in the same map.
LEMMA MessageKeepsRecords ==
  ASSUME NEW most, IInv, IInv', RecordsInv(most),
         NEW i \in 1 .. Len(toClient), NEW m, m = toClient[i],
         toClient' = After(toClient, i), UNCHANGED <<server, toServer, others>>,
         client'.message = m.number, client'.map = client.map,
         \A k \in Kind : /\ IsRing(client'.parsed[k], ParseRing)
                         /\ Grown(client.parsed[k], client'.parsed[k], ParseRing),
         \A s \in Slots :
            \/ /\ client'.snapshots[s].message = client.snapshots[s].message
               /\ client'.snapshots[s].frame = client.snapshots[s].frame
               /\ client'.snapshots[s].world = client.snapshots[s].world
               /\ client'.snapshots[s].valid => client.snapshots[s].valid
            \/ /\ m.kind = "snapshot" /\ s = Slot(m.number, Frames)
               /\ client'.snapshots[s].message = m.number
               /\ client'.snapshots[s].world = m.world
               /\ client'.snapshots[s].frame \in Frame
               /\ \A k \in Kind : Shows(client'.parsed[k], ParseRing,
                                        client'.snapshots[s].frame[k], m.world[k])
  PROVE  RecordsInv(most)'
<1>1. m \in In(toClient)
  BY DEF In
<1>2. Fits(m) /\ IsClient(client) /\ client.snap <= client.message
  BY <1>1 DEF IInv, ChannelInv, EndsInv
<1>3. /\ client.message \in Nat /\ client.snap \in Nat /\ m.number \in Nat
      /\ client.message < m.number
  BY <1>2, ClientType DEF Fits
<1>4. /\ In(toClient') \subseteq In(toClient)
      /\ \A x \in In(toClient') : Before(m, x)
  BY AfterOrdered DEF IInv, ChannelInv
<1>5. ServerRings'
  BY DEF RecordsInv, ServerRings
<1>6. ASSUME NEW s \in Slots
      PROVE  Kept(client', client'.snapshots[s])
  <2>1. PICK x : x = client.snapshots[s]
    OBVIOUS
  <2>2. PICK y : y = client'.snapshots[s]
    OBVIOUS
  <2>3. Kept(client, x) /\ x.message \in Nat
    BY <1>2, <2>1 DEF RecordsInv, ClientRings, IsClient, IsSnapshot
  <2>4. CASE /\ y.message = x.message /\ y.frame = x.frame /\ y.world = x.world
             /\ y.valid => x.valid
    <3>1. y.frame \in Frame
      BY <2>3, <2>4 DEF Kept
    <3>2. ASSUME y.valid
          PROVE  y.message <= client'.message /\ y.world \in World
      <4>1. x.message <= client.message /\ x.world \in World
        BY <2>3, <2>4, <3>2 DEF Kept
      <4>2. y.message <= m.number
        BY <1>3, <2>3, <2>4, <4>1
      <4>3. QED
        BY <2>4, <4>1, <4>2
    <3>3. ASSUME y.valid, NEW k \in Kind
          PROVE  Shows(client'.parsed[k], ParseRing, y.frame[k], y.world[k])
      <4>1. Shows(client.parsed[k], ParseRing, y.frame[k], y.world[k])
        BY <2>3, <2>4, <3>3 DEF Kept
      <4>2. IsRing(client.parsed[k], ParseRing)
        BY DEF RecordsInv, ClientRings
      <4>3. QED
        BY <4>1, <4>2, ParseRingFact, ShowsKept
    <3>4. QED
      BY <2>2, <3>1, <3>2, <3>3 DEF Kept
  <2>5. CASE /\ m.kind = "snapshot" /\ y.message = m.number /\ y.world = m.world
             /\ y.frame \in Frame
             /\ \A k \in Kind : Shows(client'.parsed[k], ParseRing, y.frame[k],
                                      m.world[k])
    <3>1. m.world \in World
      BY <1>1, <2>5 DEF RecordsInv, AllRight, Right
    <3>2. y.message <= client'.message
      BY <1>3, <2>5
    <3>3. QED
      BY <2>2, <2>5, <3>1, <3>2 DEF Kept
  <2>6. QED
    BY <2>1, <2>2, <2>4, <2>5
<1>7. ClientRings'
  BY <1>6 DEF ClientRings
<1>8. ASSUME NEW x \in In(toClient'), x.kind = "snapshot"
      PROVE  Right(x)'
  <2>1. Right(x) /\ Fits(x) /\ Before(m, x)
    BY <1>4, <1>8 DEF RecordsInv, AllRight, IInv, ChannelInv
  <2>2. CASE x.distance = 0
    BY <2>1, <2>2 DEF Right, OldRecords
  <2>3. CASE x.distance # 0
    <3>1. PICK n : n = x.number - x.distance /\ Has(client, n)
      BY <1>8, <2>1, <2>3 DEF Fits
    <3>2. n \in Nat /\ n <= client.snap
      BY <1>3, <3>1 DEF Has
    <3>3. /\ x.number \in Nat /\ x.distance \in Nat /\ x.distance < Frames
          /\ m.number < x.number /\ Frames \in Nat
      BY <1>8, <2>1, <2>3, SlotFacts DEF Fits, Before
    <3>4. n < m.number /\ m.number - n < Frames
      <4>1. PICK a \in Nat : a = m.number
        BY <1>3
      <4>2. PICK b \in Nat : b = x.number
        BY <3>3
      <4>3. n < a
        BY <1>2, <1>3, <3>2, <4>1
      <4>4. b - n < Frames /\ a < b
        BY <3>1, <3>3, <4>1, <4>2
      <4>5. a - n < Frames
        BY ONLY <3>2, <3>3, <4>4, a \in Nat, b \in Nat
      <4>6. QED
        BY <4>1, <4>3, <4>5
    <3>5. Slot(n, Frames) \in Slots /\ Slot(n, Frames) # Slot(m.number, Frames)
      BY ONLY <1>3, <3>2, <3>4, SlotFacts
    <3>6. client'.snapshots[Slot(n, Frames)].world
             = client.snapshots[Slot(n, Frames)].world
      BY <3>5
    <3>7. \A k \in Kind : OldRecords(x, k)' = OldRecords(x, k)
      BY <2>3, <3>1, <3>6 DEF OldRecords, Base
    <3>8. QED
      BY <2>1, <3>7 DEF Right
  <2>4. QED
    BY <2>2, <2>3
<1>9. AllRight'
  BY <1>8 DEF AllRight
<1>10. ASSUME client.map = server.map
       PROVE  /\ \A s \in Slots : client'.snapshots[s].valid =>
                    FrameShows(most, client'.snapshots[s].message,
                               client'.snapshots[s].world)
              /\ \A x \in In(toClient') : x.kind = "snapshot" =>
                    FrameShows(most, x.number, x.world)
  <2>1. /\ \A s \in Slots : client.snapshots[s].valid =>
              FrameShows(most, client.snapshots[s].message,
                         client.snapshots[s].world)
        /\ \A x \in In(toClient) : x.kind = "snapshot" =>
              FrameShows(most, x.number, x.world)
    BY <1>10 DEF RecordsInv, FramesInv
  <2>2. ASSUME NEW s \in Slots, client'.snapshots[s].valid
        PROVE  FrameShows(most, client'.snapshots[s].message,
                          client'.snapshots[s].world)
    <3>1. CASE s = Slot(m.number, Frames) /\ m.kind = "snapshot"
               /\ client'.snapshots[s].message = m.number
               /\ client'.snapshots[s].world = m.world
      BY <1>1, <2>1, <3>1
    <3>2. CASE /\ client'.snapshots[s].message = client.snapshots[s].message
               /\ client'.snapshots[s].world = client.snapshots[s].world
               /\ client'.snapshots[s].valid => client.snapshots[s].valid
      BY <2>1, <2>2, <3>2
    <3>3. QED
      BY <3>1, <3>2
  <2>3. QED
    BY <1>4, <2>1, <2>2
<1>11. ASSUME NEW n, NEW w
       PROVE  FrameShows(most, n, w)' = FrameShows(most, n, w)
  BY DEF FrameShows, Near
<1>12. FramesInv(most)'
  <2> SUFFICES ASSUME client'.map = server'.map
               PROVE  /\ \A s \in Slots : client'.snapshots[s].valid =>
                            FrameShows(most, client.snapshots[s].message,
                                       client.snapshots[s].world)'
                      /\ \A x \in In(toClient') : x.kind = "snapshot" =>
                            FrameShows(most, x.number, x.world)'
    BY DEF FramesInv
  <2>1. client.map = server.map
    OBVIOUS
  <2>2. ASSUME NEW s \in Slots, client'.snapshots[s].valid
        PROVE  FrameShows(most, client.snapshots[s].message,
                          client.snapshots[s].world)'
    <3>1. PICK n : n = client'.snapshots[s].message
      OBVIOUS
    <3>2. PICK w : w = client'.snapshots[s].world
      OBVIOUS
    <3>3. FrameShows(most, n, w)
      BY <1>10, <2>1, <2>2, <3>1, <3>2
    <3>4. FrameShows(most, n, w)'
      BY <1>11, <3>3
    <3>5. QED
      BY <3>1, <3>2, <3>4
  <2>3. QED
    BY <1>10, <1>11, <2>1, <2>2
<1>13. QED
  BY <1>5, <1>7, <1>9, <1>12 DEF RecordsInv

LEMMA ReceiveFromServerRecords ==
  ASSUME NEW most, Roomy(most), IInv, IInv', RecordsInv(most),
         NEW i \in 1 .. Len(toClient), ReceiveFromServer(i)
  PROVE  RecordsInv(most)'
<1>1. PICK m : m = toClient[i]
  OBVIOUS
<1>2. PICK c : c = [client EXCEPT !.message = m.number]
  OBVIOUS
<1>3. /\ toClient' = After(toClient, i) /\ UNCHANGED <<server, toServer, others>>
      /\ client' = CASE m.kind = "snapshot"  -> ParseSnapshot(c, m)
                     [] m.kind = "gamestate" -> ParseGamestate(c, m)
                     [] m.kind = "commands"  -> c
  BY <1>1, <1>2 DEF ReceiveFromServer
<1>4. m \in In(toClient) /\ Fits(m)
  BY <1>1 DEF In, IInv, ChannelInv
<1>5. /\ m.kind \in {"snapshot", "gamestate", "commands"} /\ m.number \in Nat
      /\ m.map \in Nat
  BY <1>4 DEF Fits
<1>6. IsClient(client)
  BY DEF IInv, EndsInv
<1>7. c \in [map : {client.map}, message : {m.number}, snap : {client.snap},
             snapshots : {client.snapshots}, parsed : {client.parsed}]
  BY <1>2, <1>6 DEF IsClient
<1>8. /\ IsClient(c) /\ c.map = client.map /\ c.message = m.number
      /\ c.snap = client.snap /\ c.snapshots = client.snapshots
      /\ c.parsed = client.parsed
  BY <1>5, <1>6, <1>7 DEF IsClient
<1>9. CASE m.kind = "commands"
  <2>1. client' = c
    BY <1>3, <1>9
  <2>2. ASSUME NEW k \in Kind
        PROVE  /\ IsRing(client'.parsed[k], ParseRing)
               /\ Grown(client.parsed[k], client'.parsed[k], ParseRing)
    <3>1. IsRing(client.parsed[k], ParseRing)
      BY DEF RecordsInv, ClientRings
    <3>2. client'.parsed = client.parsed
      BY <1>8, <2>1
    <3>3. QED
      BY <3>1, <3>2, GrownSame, ParseRingFact
  <2>3. /\ client'.message = m.number /\ client'.map = client.map
        /\ client'.snapshots = client.snapshots
    BY <1>8, <2>1
  <2>4. QED
    BY <1>1, <1>3, <2>2, <2>3, MessageKeepsRecords
<1>10. CASE m.kind = "gamestate"
  <2>1. PICK snapshots : snapshots = [s \in Slots |-> NoSnapshot]
    OBVIOUS
  <2>2. PICK parsed : parsed = [k \in Kind |-> EmptyRing(ParseRing)]
    OBVIOUS
  <2>3. client' = [c EXCEPT !.map = m.map, !.snap = 0, !.snapshots = snapshots,
                            !.parsed = parsed]
    BY <1>3, <1>10, <2>1, <2>2 DEF ParseGamestate, Slots
  <2>4. client' \in [map : {m.map}, message : {c.message}, snap : {0},
                     snapshots : {snapshots}, parsed : {parsed}]
    BY <1>8, <2>3 DEF IsClient
  <2>5. client'.snapshots = snapshots /\ client'.parsed = parsed
    BY <2>4
  <2>6. \A x \in In(toClient') : x.kind # "snapshot"
    BY <1>1, <1>3, <1>10, AfterOrdered DEF Before, IInv, ChannelInv
  <2>7. NoSnapshot.frame = NoFrame /\ ~NoSnapshot.valid
    BY DEF NoSnapshot
  <2>8. ClientRings'
    <3>1. \A k \in Kind : IsRing(client'.parsed[k], ParseRing)
      BY <2>2, <2>5, ParseRingFact, EmptyRingFacts
    <3>2. \A s \in Slots : Kept(client', client'.snapshots[s])
      BY <2>1, <2>5, <2>7, NoRecordsFacts DEF Kept
    <3>3. QED
      BY <3>1, <3>2 DEF ClientRings
  <2>9. AllRight'
    BY <2>6 DEF AllRight
  <2>10. FramesInv(most)'
    <3>1. \A s \in Slots : ~client'.snapshots[s].valid
      BY <2>1, <2>5, <2>7
    <3>2. QED
      BY <2>6, <3>1 DEF FramesInv
  <2>11. ServerRings'
    BY <1>3 DEF RecordsInv, ServerRings
  <2>12. QED
    BY <2>8, <2>9, <2>10, <2>11 DEF RecordsInv
<1>11. CASE m.kind = "snapshot"
  <2>1. PICK new : new = ParseSnapshot(c, m)
    OBVIOUS
  <2>2. client' = new
    BY <1>3, <1>11, <2>1
  <2>3. PICK slot : slot = Slot(m.number, Frames)
    OBVIOUS
  <2>4. /\ new.map = client.map /\ new.message = m.number
        /\ new.parsed = Parsed(c, m)
        /\ \/ new.snapshots = client.snapshots
           \/ /\ Valid(c, m)
              /\ new.snapshots[slot].message = m.number
              /\ new.snapshots[slot].frame = ParsedFrame(c, m)
              /\ new.snapshots[slot].world = m.world
              /\ \A s \in Slots : s # slot =>
                   /\ new.snapshots[s].message = client.snapshots[s].message
                   /\ new.snapshots[s].frame = client.snapshots[s].frame
                   /\ new.snapshots[s].world = client.snapshots[s].world
                   /\ new.snapshots[s].valid => client.snapshots[s].valid
    BY <1>5, <1>8, <2>1, <2>3, ParseParts
  <2>5. \A k \in Kind :
           /\ IsRing(client'.parsed[k], ParseRing)
           /\ Grown(client.parsed[k], client'.parsed[k], ParseRing)
           /\ Valid(c, m) => Shows(client'.parsed[k], ParseRing,
                                   ParsedFrame(c, m)[k], m.world[k])
    BY <1>4, <1>8, <1>11, <2>2, <2>4, ParsedRecords
  <2>6. Valid(c, m) => ParsedFrame(c, m) \in Frame
    <3> SUFFICES ASSUME Valid(c, m)
                 PROVE  ParsedFrame(c, m) \in Frame
      OBVIOUS
    <3>1. \A k \in Kind : ParsedFrame(c, m)[k] \in [first : Nat, count : Nat]
      BY <2>5 DEF Shows
    <3>2. PICK g : g = ParsedFrame(c, m)
      OBVIOUS
    <3>3. g = [k \in Kind |-> g[k]]
      BY <3>2 DEF ParsedFrame
    <3>4. QED
      BY <3>1, <3>2, <3>3 DEF Frame
  <2>7. ASSUME NEW s \in Slots
        PROVE
            \/ /\ client'.snapshots[s].message = client.snapshots[s].message
               /\ client'.snapshots[s].frame = client.snapshots[s].frame
               /\ client'.snapshots[s].world = client.snapshots[s].world
               /\ client'.snapshots[s].valid => client.snapshots[s].valid
            \/ /\ m.kind = "snapshot" /\ s = Slot(m.number, Frames)
               /\ client'.snapshots[s].message = m.number
               /\ client'.snapshots[s].world = m.world
               /\ client'.snapshots[s].frame \in Frame
               /\ \A k \in Kind : Shows(client'.parsed[k], ParseRing,
                                        client'.snapshots[s].frame[k], m.world[k])
    <3>1. CASE new.snapshots = client.snapshots
      BY <2>2, <3>1
    <3>2. CASE ~(new.snapshots = client.snapshots)
      BY <1>11, <2>2, <2>3, <2>4, <2>5, <2>6, <3>2
    <3>3. QED
      BY <3>1, <3>2
  <2>8. client'.message = m.number /\ client'.map = client.map
    BY <2>2, <2>4
  <2>9. QED
    BY <1>1, <1>3, <2>5, <2>7, <2>8, MessageKeepsRecords
<1>12. QED
  BY <1>5, <1>9, <1>10, <1>11

-------------------------------------------------------------------------------
(* Snapshots as cgame gets them *)

LEMMA InitialRecords ==
  ASSUME NEW most, Roomy(most), Init
  PROVE  RecordsInv(most)
<1>1. PICK rings : rings = [k \in Kind |-> EmptyRing(RingSize[k])]
  OBVIOUS
<1>2. PICK snapshots : snapshots = [s \in Slots |-> NoSnapshot]
  OBVIOUS
<1>3. PICK parsed : parsed = [k \in Kind |-> EmptyRing(ParseRing)]
  OBVIOUS
<1>4. server.rings = rings /\ server.map = 1
  BY <1>1 DEF Init
<1>5. client.snapshots = snapshots /\ client.parsed = parsed /\ client.map = 0
  BY <1>2, <1>3 DEF Init, Slots
<1>6. ServerRings
  BY <1>1, <1>4, RingSizes, EmptyRingFacts DEF ServerRings
<1>7. NoSnapshot.frame = NoFrame /\ ~NoSnapshot.valid
  BY DEF NoSnapshot
<1>8. ClientRings
  <2>1. \A k \in Kind : IsRing(client.parsed[k], ParseRing)
    BY <1>3, <1>5, ParseRingFact, EmptyRingFacts
  <2>2. \A s \in Slots : Kept(client, client.snapshots[s])
    BY <1>2, <1>5, <1>7, NoRecordsFacts DEF Kept
  <2>3. QED
    BY <2>1, <2>2 DEF ClientRings
<1>9. AllRight
  <2>1. toClient = <<>>
    BY DEF Init
  <2>2. Len(toClient) = 0
    BY <2>1
  <2>3. QED
    BY <2>2 DEF AllRight, In
<1>10. FramesInv(most)
  BY <1>4, <1>5 DEF FramesInv
<1>11. QED
  BY <1>6, <1>8, <1>9, <1>10 DEF RecordsInv

LEMMA StepRecords ==
  ASSUME NEW most, Roomy(most), IInv, RecordsInv(most), [Next]_vars
  PROVE  RecordsInv(most)'
<1>0. IInv'
  BY Step
<1>1. ASSUME NEW w \in World, SendClientSnapshot(w)
      PROVE  RecordsInv(most)'
  BY <1>0, <1>1, SendClientSnapshotRecords
<1>2. ASSUME NEW w \in OtherWorld, SendOther(w)
      PROVE  RecordsInv(most)'
  BY <1>0, <1>2, SendOtherRecords
<1>3. CASE SpawnServer
  BY <1>0, <1>3, SpawnServerRecords
<1>4. ASSUME NEW p \in toServer, ReceiveFromClient(p)
      PROVE  RecordsInv(most)'
  BY <1>0, <1>4, ReceiveFromClientRecords
<1>5. ASSUME NEW i \in DOMAIN toClient, ReceiveFromServer(i)
      PROVE  RecordsInv(most)'
  <2>1. DOMAIN toClient = 1 .. Len(toClient)
    BY LenProperties DEF IInv, ChannelInv, IsSequence
  <2>2. QED
    BY <1>0, <1>5, <2>1, ReceiveFromServerRecords
<1>6. ASSUME UNCHANGED <<server, client, toClient, others>>
      PROVE  RecordsInv(most)'
  BY <1>6 DEF RecordsInv, ServerRings, ClientRings, AllRight, FramesInv, Kept,
              Right, OldRecords, Base, FrameShows, Near, In
<1>7. CASE SendPacket
  BY <1>6, <1>7 DEF SendPacket
<1>8. CASE UNCHANGED vars
  BY <1>6, <1>8 DEF vars
<1>9. QED
  BY <1>1, <1>2, <1>3, <1>4, <1>5, <1>7, <1>8 DEF Next

\* Whatever CL_GetSnapshot gives to cgame for a message is what
\* SV_BuildClientSnapshot built for it, of every kind of record, if the rings have
\* the room that Roomy asks for.
THEOREM Built ==
  ASSUME NEW most, Roomy(most)
  PROVE  Spec => []AsBuilt
<1>1. Init => IInv /\ RecordsInv(most)
  BY Initially, InitialRecords
<1>2. IInv /\ RecordsInv(most) /\ [Next]_vars => (IInv /\ RecordsInv(most))'
  BY Step, StepRecords
<1>3. RecordsInv(most) => AsBuilt
  <2> SUFFICES ASSUME RecordsInv(most)
               PROVE  AsBuilt
    OBVIOUS
  <2>1. ASSUME NEW k \in Kind
        PROVE  client.parsed[k].ring \in [0 .. ParseRing - 1 -> Entry]
    BY DEF RecordsInv, ClientRings, IsRing
  <2>2. ASSUME NEW x \in GetSnapshot, NEW k \in Kind
        PROVE  Contents(At(client.parsed[k], ParseRing, x.frame[k])) = x.world[k]
    <3>1. PICK s \in Slots : x = client.snapshots[s]
      BY DEF GetSnapshot, Slots
    <3>2. x.valid /\ client.parsed[k].next - x.frame[k].first < ParseRing
      BY DEF GetSnapshot
    <3>3. /\ x.world \in World
          /\ Shows(client.parsed[k], ParseRing, x.frame[k], x.world[k])
      BY <3>1, <3>2 DEF RecordsInv, ClientRings, Kept
    <3>4. IsRing(client.parsed[k], ParseRing) /\ client.parsed[k].next \in Nat
      BY DEF RecordsInv, ClientRings, IsRing
    <3>5. client.parsed[k].next - x.frame[k].first <= ParseRing
      <4>1. PICK a : a = client.parsed[k].next
        OBVIOUS
      <4>2. PICK b : b = x.frame[k].first
        OBVIOUS
      <4>3. a \in Nat /\ b \in Nat /\ a - b < ParseRing /\ ParseRing \in Nat
        BY <3>2, <3>3, <3>4, <4>1, <4>2, ParseRingFact DEF Shows
      <4>4. QED
        BY <4>1, <4>2, <4>3
    <3>6. At(client.parsed[k], ParseRing, x.frame[k]) = Listed(x.world[k])
      BY <3>3, <3>5 DEF Shows
    <3>7. QED
      BY <3>3, <3>6, WorldFacts, ListedFacts
  <2>3. QED
    BY <2>1, <2>2 DEF AsBuilt
<1>4. QED
  BY <1>1, <1>2, <1>3, PTL DEF Spec
================================================================================
