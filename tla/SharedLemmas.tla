----------------------------- MODULE SharedLemmas -----------------------------
(***************************************************************************)
(* Facts that the proofs share: the least-number principle, the slots that *)
(* numbers take in a ring buffer, and what sending and receiving do to a   *)
(* Channel, message by message.                                            *)
(***************************************************************************)
EXTENDS Channel, FiniteSetTheorems, SequenceTheorems, TLAPS

-------------------------------------------------------------------------------
(* Numbers and rings *)

\* The least-number principle, for a set: the initial segments of the set are
\* finite, and finite sets are well-founded by strict inclusion.
LEMMA LeastNumber ==
  ASSUME NEW S \in SUBSET Nat, S # {}
  PROVE  \E x \in S : \A y \in S : x <= y
<1> DEFINE UpTo(x) == {k \in S : k <= x}
           Segments == {UpTo(x) : x \in S}
<1>1. Segments \subseteq FiniteSubsetsOf(Nat)
  <2> SUFFICES ASSUME NEW x \in S
               PROVE  UpTo(x) \in FiniteSubsetsOf(Nat)
    OBVIOUS
  <2>1. UpTo(x) \in SUBSET Nat /\ x \in Nat /\ \A k \in UpTo(x) : k <= x
    OBVIOUS
  <2>2. IsFiniteSet(UpTo(x))
    BY <2>1, FS_BoundedSetOfNaturals
  <2>3. QED
    BY <2>1, <2>2 DEF FiniteSubsetsOf
<1>2. Segments # {}
  OBVIOUS
<1>3. PICK T \in Segments :
         \A U \in Segments : <<U, T>> \notin StrictSubsetOrdering(Nat)
  <2> HIDE DEF Segments
  <2>1. IsWellFoundedOn(StrictSubsetOrdering(Nat), FiniteSubsetsOf(Nat))
    BY FS_StrictSubsetOrderingWellFounded
  <2>2. QED
    BY <1>1, <1>2, <2>1, WFMin
<1>4. PICK x \in S : T = UpTo(x)
  BY <1>3
<1>5. ASSUME NEW y \in S, y < x
      PROVE  FALSE
  <2>1. UpTo(y) \in Segments
    OBVIOUS
  <2>2. UpTo(y) \subseteq UpTo(x)
    <3>1. x \in Nat /\ y \in Nat
      OBVIOUS
    <3>2. \A k \in Nat : k <= y => k <= x
      BY <3>1, <1>5
    <3>3. QED
      BY <3>2
  <2>3. x \in UpTo(x) /\ x \notin UpTo(y)
    BY <1>5
  <2>4. UpTo(y) \in SUBSET Nat /\ UpTo(x) \in SUBSET Nat
    OBVIOUS
  <2>5. <<UpTo(y), UpTo(x)>> \in StrictSubsetOrdering(Nat)
    <3> HIDE DEF UpTo
    <3>1. UpTo(y) # UpTo(x)
      BY <2>3
    <3>2. QED
      BY <2>2, <2>4, <3>1 DEF StrictSubsetOrdering
  <2>6. QED
    BY <1>3, <1>4, <2>1, <2>5
<1>6. QED
  BY <1>5

\* The greatest-number principle, for a bounded set.
LEMMA GreatestNumber ==
  ASSUME NEW n \in Nat, NEW S \in SUBSET (0 .. n), S # {}
  PROVE  \E x \in S : \A y \in S : x >= y
<1> DEFINE T == {n - k : k \in S}
<1>1. T \in SUBSET Nat /\ T # {}
  <2>1. \A k \in S : k \in 0 .. n
    OBVIOUS
  <2>2. \A k \in 0 .. n : n - k \in Nat
    OBVIOUS
  <2>3. QED
    BY <2>1, <2>2
<1>2. PICK x \in T : \A y \in T : x <= y
  BY <1>1, LeastNumber
<1>3. PICK k \in S : x = n - k
  BY <1>2
<1>4. ASSUME NEW y \in S PROVE k >= y
  <2>1. n - k <= n - y
    BY <1>2, <1>3
  <2>2. k \in Int /\ y \in Int
    OBVIOUS
  <2>3. QED
    BY <2>1, <2>2
<1>5. QED
  BY <1>4

\* n & (size - 1) is a slot of the ring.
LEMMA SlotInRing ==
  ASSUME NEW size \in Nat \ {0}, NEW n \in Nat
  PROVE  n % size \in 0 .. size - 1
OBVIOUS

\* Numbers less than a ring apart have slots of their own.
LEMMA SlotsDiffer ==
  ASSUME NEW size \in Nat \ {0}, NEW a \in Nat, NEW b \in Nat,
         a < b, b - a < size
  PROVE  a % size # b % size
<1> SUFFICES ASSUME a % size = b % size PROVE FALSE
  OBVIOUS
<1>1. PICK p \in Int : a = p * size + (a % size)
  <2>1. a = (a \div size) * size + (a % size) /\ (a \div size) \in Int
    OBVIOUS
  <2>2. QED
    BY <2>1
<1>2. PICK q \in Int : b = q * size + (b % size)
  <2>1. b = (b \div size) * size + (b % size) /\ (b \div size) \in Int
    OBVIOUS
  <2>2. QED
    BY <2>1
<1>3. b - a = (q - p) * size
  <2> DEFINE r == a % size
  <2>1. r \in Int /\ a = p * size + r /\ b = q * size + r
    BY <1>1, <1>2, SlotInRing
  <2> HIDE DEF r
  <2>2. QED
    BY <2>1
<1>4. q - p >= 1 \/ q - p <= 0
  OBVIOUS
<1>5. q - p >= 1 => (q - p) * size >= size
  OBVIOUS
<1>6. q - p <= 0 => (q - p) * size <= 0
  OBVIOUS
<1>7. QED
  BY <1>3, <1>4, <1>5, <1>6

\* What is left of a division is determined by it.
LEMMA Remainder ==
  ASSUME NEW size \in Nat \ {0}, NEW q \in Int, NEW r \in 0 .. size - 1
  PROVE  (q * size + r) % size = r
<1> DEFINE n == q * size + r
           d == q - (n \div size)
           t == n % size
<1>1. n \in Int /\ t \in 0 .. size - 1
  OBVIOUS
<1>2. n = (n \div size) * size + t /\ (n \div size) \in Int
  BY <1>1
<1>3. d \in Int /\ d * size = t - r
  BY <1>1, <1>2
<1> HIDE DEF d, t, n
<1>4. d >= 1 => d * size >= size
  BY <1>3
<1>5. d <= -1 => d * size <= -size
  BY <1>3
<1>6. d = 0 => d * size = 0
  BY <1>3
<1>7. d >= 1 \/ d <= -1 \/ d = 0
  BY <1>3
<1>8. t = r
  <2>1. t - r < size /\ t - r > -size /\ t \in Int /\ r \in Int
    BY <1>1
  <2>2. QED
    BY <1>3, <1>4, <1>5, <1>6, <1>7, <2>1
<1>9. QED
  BY <1>8 DEF n, t

\* The slot after that of a number is that of the next number.
LEMMA NextSlot ==
  ASSUME NEW size \in Nat \ {0}, NEW n \in Nat
  PROVE  ((n % size) + 1) % size = (n + 1) % size
<1> DEFINE r == n % size
<1>1. r \in 0 .. size - 1
  OBVIOUS
<1>2. PICK q \in Int : n = q * size + r
  <2>1. n = (n \div size) * size + r /\ (n \div size) \in Int
    OBVIOUS
  <2>2. QED
    BY <2>1
<1> HIDE DEF r
<1>3. CASE r + 1 < size
  <2>1. r + 1 \in 0 .. size - 1 /\ n + 1 = q * size + (r + 1)
    BY <1>1, <1>2, <1>3
  <2>2. (n + 1) % size = r + 1
    BY <2>1, Remainder
  <2>3. (r + 1) % size = r + 1
    <3>1. (0 * size + (r + 1)) % size = r + 1
      BY <2>1, Remainder
    <3>2. 0 * size + (r + 1) = r + 1
      BY <1>1
    <3>3. QED
      BY <3>1, <3>2
  <2>4. QED
    BY <2>2, <2>3 DEF r
<1>4. CASE r + 1 = size
  <2>1. n + 1 = (q + 1) * size + 0 /\ r + 1 = 1 * size + 0
    BY <1>1, <1>2, <1>4
  <2>2. 0 \in 0 .. size - 1 /\ q + 1 \in Int /\ 1 \in Int
    OBVIOUS
  <2>3. ((q + 1) * size + 0) % size = 0 /\ (1 * size + 0) % size = 0
    BY <2>2, Remainder
  <2>4. QED
    BY <2>1, <2>3 DEF r
<1>5. QED
  BY <1>1, <1>3, <1>4

-------------------------------------------------------------------------------
(* Channels *)

LEMMA AnySequence ==
  ASSUME NEW S, NEW channel \in Seq(S)
  PROVE  IsSequence(channel)
<1>1. Len(channel) \in Nat /\ channel \in [1 .. Len(channel) -> S]
  BY LenProperties
<1>2. channel \in [1 .. Len(channel) -> {channel[i] : i \in DOMAIN channel}]
  BY <1>1
<1>3. QED
  BY <1>1, <1>2, SeqDef DEF IsSequence

\* Netchan_Transmit: what is under way is what was, perhaps without the
\* oldest, and the new message at the end.
LEMMA SentProperties ==
  ASSUME NEW channel, IsSequence(channel), NEW capacity \in Nat \ {0}, NEW m
  PROVE  /\ IsSequence(Sent(channel, capacity, m))
         /\ \E d \in {0, 1} :
              /\ Len(channel) - d \in Nat
              /\ Len(Sent(channel, capacity, m)) = Len(channel) - d + 1
              /\ \A i \in 1 .. Len(channel) - d :
                    Sent(channel, capacity, m)[i] = channel[i + d]
              /\ Sent(channel, capacity, m)[Len(channel) - d + 1] = m
<1> DEFINE S == {channel[i] : i \in DOMAIN channel} \cup {m}
<1>1. channel \in Seq(S) /\ m \in S
  BY SeqMonotonic DEF IsSequence
<1> HIDE DEF S
<1>2. Len(channel) \in Nat
  BY <1>1, LenProperties
<1>3. CASE Len(channel) < capacity
  <2>1. Sent(channel, capacity, m) = Append(channel, m)
    BY <1>3 DEF Sent
  <2>2. IsSequence(Sent(channel, capacity, m))
    BY <1>1, <2>1, AppendProperties, AnySequence
  <2>3. /\ Len(Sent(channel, capacity, m)) = Len(channel) + 1
        /\ \A i \in 1 .. Len(channel) : Sent(channel, capacity, m)[i] = channel[i]
        /\ Sent(channel, capacity, m)[Len(channel) + 1] = m
    BY <1>1, <2>1, AppendProperties
  <2>4. QED
    BY <1>2, <2>2, <2>3
<1>4. CASE ~(Len(channel) < capacity)
  <2>1. Sent(channel, capacity, m) = Append(Tail(channel), m)
    BY <1>4 DEF Sent
  <2>2. Len(channel) \in Nat \ {0} /\ channel # <<>>
    BY <1>2, <1>4, EmptySeq
  <2>3. /\ Tail(channel) \in Seq(S)
        /\ Len(Tail(channel)) = Len(channel) - 1
        /\ \A i \in 1 .. Len(channel) - 1 : Tail(channel)[i] = channel[i + 1]
    BY <1>1, <2>2, HeadTailProperties
  <2>4. IsSequence(Sent(channel, capacity, m))
    BY <1>1, <2>1, <2>3, AppendProperties, AnySequence
  <2>5. /\ Len(Sent(channel, capacity, m)) = Len(channel) - 1 + 1
        /\ \A i \in 1 .. Len(channel) - 1 : Sent(channel, capacity, m)[i] = channel[i + 1]
        /\ Sent(channel, capacity, m)[Len(channel) - 1 + 1] = m
    <3> DEFINE t == Tail(channel)
    <3> HIDE DEF t
    <3>1. t \in Seq(S) /\ Len(t) = Len(channel) - 1
      BY <2>3 DEF t
    <3>2. /\ Len(Append(t, m)) = Len(t) + 1
          /\ \A i \in 1 .. Len(t) : Append(t, m)[i] = t[i]
          /\ Append(t, m)[Len(t) + 1] = m
      BY <1>1, <3>1, AppendProperties
    <3>3. QED
      BY <2>1, <2>3, <3>1, <3>2 DEF t
  <2>6. QED
    BY <2>2, <2>4, <2>5
<1>5. QED
  BY <1>3, <1>4

\* Netchan_Process: what is under way after message i was.
LEMMA AfterProperties ==
  ASSUME NEW channel, IsSequence(channel), NEW i \in 1 .. Len(channel)
  PROVE  /\ IsSequence(After(channel, i))
         /\ Len(channel) - i \in Nat
         /\ Len(After(channel, i)) = Len(channel) - i
         /\ \A k \in 1 .. Len(channel) - i :
               After(channel, i)[k] = channel[i + k]
<1> DEFINE S == {channel[k] : k \in DOMAIN channel}
<1>1. channel \in Seq(S)
  BY DEF IsSequence
<1> HIDE DEF S
<1>2. Len(channel) \in Nat /\ i \in Nat /\ i <= Len(channel)
  BY <1>1, LenProperties
<1>3. \A k \in i + 1 .. Len(channel) : channel[k] \in S
  <2>1. \A k \in i + 1 .. Len(channel) : k \in 1 .. Len(channel)
    BY <1>2
  <2>2. QED
    BY <1>1, <2>1, ElementOfSeq
<1>4. i + 1 \in Int /\ Len(channel) \in Int
  BY <1>2
<1>5. /\ After(channel, i) \in Seq(S)
      /\ Len(After(channel, i)) =
            IF i + 1 <= Len(channel) THEN Len(channel) - (i + 1) + 1 ELSE 0
      /\ \A k \in 1 .. Len(channel) - (i + 1) + 1 :
            After(channel, i)[k] = channel[(i + 1) + k - 1]
  BY <1>3, <1>4, SubSeqProperties DEF After
<1>6. \A k \in Nat : (i + 1) + k - 1 = i + k
  BY <1>2
<1>7. Len(channel) - (i + 1) + 1 = Len(channel) - i
  BY <1>2
<1>8. IsSequence(After(channel, i))
  BY <1>5, AnySequence
<1>9. ASSUME NEW k \in 1 .. Len(channel) - i
      PROVE  After(channel, i)[k] = channel[i + k]
  <2>1. k \in Nat /\ k \in 1 .. Len(channel) - (i + 1) + 1
    BY <1>2, <1>7
  <2>2. QED
    BY <1>5, <1>6, <2>1
<1>10. QED
  BY <1>2, <1>5, <1>8, <1>9
===============================================================================
