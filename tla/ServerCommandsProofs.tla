------------------------- MODULE ServerCommandsProofs -------------------------
(***************************************************************************)
(* A command keeps the number and the text it was first sent with, the     *)
(* client holds exactly those, and the two sides agree on every key, for   *)
(* every ring size, set of commands, bound and schedule, as long as no     *)
(* slot was overwritten and every acknowledgement was decoded; and whoever *)
(* executed them all has the configstrings of the server.                  *)
(***************************************************************************)
EXTENDS ServerCommands, SharedLemmas

USE RingAssumption, BoundsAssumption

-----------------------------------------------------------------------------
(* Slots and ranks *)

LEMMA SlotType ==
  ASSUME NEW n \in Nat
  PROVE  Slot(n) \in Slots
BY SlotInRing DEF Slot, Slots

LEMMA SlotsApart ==
  ASSUME NEW a \in Nat, NEW b \in Nat, a < b, b - a < RingSize
  PROVE  Slot(a) # Slot(b)
BY SlotsDiffer DEF Slot

LEMMA SlotAfter ==
  ASSUME NEW n \in Nat
  PROVE  Slot(Slot(n) + 1) = Slot(n + 1)
BY NextSlot DEF Slot

\* Numbers that span no more than the ring do not share slots.
LEMMA SpanApart ==
  ASSUME NEW low \in Nat, NEW high \in Nat, high - low <= RingSize,
         NEW a \in low + 1 .. high, NEW b \in low + 1 .. high, Slot(a) = Slot(b)
  PROVE  a = b
<1>1. a \in Nat /\ b \in Nat /\ a - b < RingSize /\ b - a < RingSize
  OBVIOUS
<1>2. ~(a < b) /\ ~(b < a)
  BY <1>1, SlotsApart
<1>3. QED
  BY <1>1, <1>2

LEMMA SameInterval ==
  ASSUME NEW k \in Nat, NEW n \in Nat, 1 .. k = 1 .. n
  PROVE  k = n
<1>1. ASSUME k < n PROVE FALSE
  <2>1. n \in 1 .. n /\ n \notin 1 .. k
    BY <1>1
  <2>2. QED
    BY <2>1
<1>2. ASSUME n < k PROVE FALSE
  <2>1. k \in 1 .. k /\ k \notin 1 .. n
    BY <1>2
  <2>2. QED
    BY <2>1
<1>3. QED
  BY <1>1, <1>2

LEMMA MinType ==
  ASSUME NEW S \in SUBSET Nat, S # {}
  PROVE  Min(S) \in S /\ \A n \in S : Min(S) <= n
BY LeastNumber DEF Min

LEMMA MaxType ==
  ASSUME NEW n \in Nat, NEW S \in SUBSET (0 .. n), S # {}
  PROVE  Max(S) \in S /\ \A m \in S : Max(S) >= m
BY GreatestNumber DEF Max

\* SV_CullIgnorableServerCommands moves what it keeps down, in order, without
\* gaps.
LEMMA Ranks ==
  ASSUME NEW a \in Nat, NEW b \in Nat, a <= b, NEW S \in SUBSET (a + 1 .. b)
  PROVE  /\ Cardinality(S) \in 0 .. b - a
         /\ \A n \in S : Rank(S, n) \in 1 .. Cardinality(S) /\ a + Rank(S, n) <= n
         /\ \A m, n \in S : m < n => Rank(S, m) < Rank(S, n)
         /\ \A k \in 1 .. Cardinality(S) : \E n \in S : Rank(S, n) = k
         /\ S = a + 1 .. b => /\ Cardinality(S) = b - a
                              /\ \A n \in S : a + Rank(S, n) = n
<1> DEFINE UpTo(n) == {m \in S : m <= n}
<1>0. \A m \in S : m \in Nat /\ a + 1 <= m /\ m <= b /\ m \in a .. b
  OBVIOUS
<1>1. ASSUME NEW n \in a .. b
      PROVE  /\ IsFiniteSet(a + 1 .. n)
             /\ Cardinality(a + 1 .. n) = n - a
  <2>1. a + 1 \in Int /\ n \in Int
    OBVIOUS
  <2> DEFINE low == a + 1
  <2>2. low \in Int /\ (IF low > n THEN 0 ELSE n - low + 1) = n - a
    BY <1>1
  <2> HIDE DEF low
  <2>3. /\ IsFiniteSet(low .. n)
        /\ Cardinality(low .. n) = IF low > n THEN 0 ELSE n - low + 1
    BY <2>1, <2>2, FS_Interval
  <2>4. QED
    BY <2>2, <2>3 DEF low
<1>2. IsFiniteSet(S) /\ Cardinality(S) \in Nat /\ Cardinality(S) <= b - a
  <2>1. IsFiniteSet(a + 1 .. b) /\ Cardinality(a + 1 .. b) = b - a
    BY <1>1
  <2>2. IsFiniteSet(S) /\ Cardinality(S) <= Cardinality(a + 1 .. b)
    BY <2>1, FS_Subset
  <2>3. QED
    BY <2>1, <2>2, FS_CardinalityType
<1>3. ASSUME NEW n \in a .. b
      PROVE  /\ IsFiniteSet(UpTo(n)) /\ Cardinality(UpTo(n)) \in Nat
             /\ Cardinality(UpTo(n)) <= Cardinality(S)
             /\ Cardinality(UpTo(n)) <= n - a
  <2>1. UpTo(n) \in SUBSET S /\ UpTo(n) \in SUBSET (a + 1 .. n)
    <3>1. \A m \in S : m <= n => m \in a + 1 .. n
      BY <1>0
    <3>2. QED
      BY <3>1
  <2> HIDE DEF UpTo
  <2>2. QED
    BY <1>1, <1>2, <2>1, FS_Subset, FS_CardinalityType
<1>4. ASSUME NEW n \in S
      PROVE  Cardinality(UpTo(n)) >= 1 /\ n \in a .. b
  <2>1. n \in a .. b /\ {n} \in SUBSET UpTo(n)
    OBVIOUS
  <2>2. Cardinality({n}) = 1
    BY FS_Singleton
  <2> HIDE DEF UpTo
  <2>3. Cardinality({n}) <= Cardinality(UpTo(n))
    BY <1>3, <2>1, FS_Subset
  <2>4. QED
    BY <1>3, <2>1, <2>2, <2>3
<1>5. ASSUME NEW m \in S, NEW n \in S, m < n
      PROVE  Cardinality(UpTo(m)) < Cardinality(UpTo(n))
  <2>1. UpTo(m) \in SUBSET UpTo(n) /\ n \in UpTo(n) /\ n \notin UpTo(m)
    <3>1. \A k \in S : k <= m => k <= n
      BY <1>0, <1>5
    <3>2. n <= n /\ ~(n <= m)
      BY <1>0, <1>5
    <3>3. QED
      BY <3>1, <3>2
  <2>2. m \in a .. b /\ n \in a .. b
    OBVIOUS
  <2> HIDE DEF UpTo
  <2>3. /\ Cardinality(UpTo(m)) <= Cardinality(UpTo(n))
        /\ Cardinality(UpTo(n)) = Cardinality(UpTo(m)) => UpTo(n) = UpTo(m)
    BY <1>3, <2>1, <2>2, FS_Subset
  <2>4. QED
    BY <1>3, <2>1, <2>2, <2>3
<1>6. ASSUME NEW k \in 1 .. Cardinality(S)
      PROVE  \E n \in S : Cardinality(UpTo(n)) = k
  <2> DEFINE Reaching == {n \in a .. b : Cardinality(UpTo(n)) >= k}
  <2>1. b \in Reaching
    <3>1. UpTo(b) = S
      BY <1>0
    <3>2. QED
      BY <1>2, <3>1
  <2>2. PICK x \in Reaching : \A n \in Reaching : x <= n
    <3>1. Reaching \in SUBSET Nat
      OBVIOUS
    <3> HIDE DEF Reaching
    <3>2. QED
      BY <2>1, <3>1, LeastNumber
  <2>3. x \in a .. b /\ Cardinality(UpTo(x)) >= k
    OBVIOUS
  <2>4. x # a
    <3>1. Cardinality(UpTo(a)) <= a - a
      BY <1>3
    <3>2. a \in a .. b
      OBVIOUS
    <3>3. QED
      BY <1>3, <2>3, <3>1, <3>2
  <2>5. x - 1 \in a .. b /\ ~(Cardinality(UpTo(x - 1)) >= k)
    <3>1. x - 1 \in a .. b /\ ~(x <= x - 1)
      BY <2>3, <2>4
    <3>2. x - 1 \notin Reaching
      BY <2>2, <3>1
    <3> HIDE DEF UpTo
    <3>3. QED
      BY <3>1, <3>2
  <2>6. UpTo(x) = IF x \in S THEN UpTo(x - 1) \cup {x} ELSE UpTo(x - 1)
    <3>1. \A m \in S : m <= x <=> m <= x - 1 \/ m = x
      BY <2>3
    <3>2. QED
      BY <3>1
  <2>7. Cardinality(UpTo(x - 1)) \in Nat /\ IsFiniteSet(UpTo(x - 1))
    BY <1>3, <2>5
  <2> HIDE DEF UpTo
  <2>8. x \in S /\ Cardinality(UpTo(x)) <= Cardinality(UpTo(x - 1)) + 1
    BY <2>3, <2>5, <2>6, <2>7, FS_AddElement
  <2>9. Cardinality(UpTo(x)) = k
    BY <1>3, <2>3, <2>5, <2>7, <2>8
  <2>10. QED
    BY <2>8, <2>9
<1>7. ASSUME S = a + 1 .. b
      PROVE  /\ Cardinality(S) = b - a
             /\ \A n \in S : Cardinality(UpTo(n)) = n - a
  <2>1. b \in a .. b
    OBVIOUS
  <2>2. ASSUME NEW n \in S
        PROVE  Cardinality(UpTo(n)) = n - a
    <3>1. UpTo(n) = a + 1 .. n /\ n \in a .. b
      BY <1>7
    <3>2. QED
      BY <1>1, <3>1
  <2>3. QED
    BY <1>1, <1>7, <2>1, <2>2
<1>8. \A n \in S : n \in Nat /\ Rank(S, n) = Cardinality(UpTo(n))
  BY DEF Rank
<1> HIDE DEF UpTo
<1>9. QED
  BY <1>2, <1>3, <1>4, <1>5, <1>6, <1>7, <1>8

-----------------------------------------------------------------------------
(* The server's queue *)

Entry == [text : Text, reliable : BOOLEAN]

\* The counters SV_AddServerCommand leaves alone.
SameCounts(new, cl) ==
    /\ new.reliableSent = cl.reliableSent
    /\ new.reliableAcknowledge = cl.reliableAcknowledge

\* Every reliable unsent command of cl is still to be sent in new, itself or
\* as one that supersedes it.
Survives(cl, new) ==
    \A n \in Unsent(cl) : Pending(cl, n).reliable =>
        \E k \in Unsent(new) :
            /\ Pending(new, k).reliable
            /\ Supersedes(Pending(new, k).text, Pending(cl, n).text)
                 \/ Pending(new, k).text = Pending(cl, n).text

LEMMA QueueFacts ==
  ASSUME NEW cl, NEW texts, QueueType(cl, texts)
  PROVE  /\ cl.reliableSent \in Nat /\ cl.reliableSequence \in Nat
         /\ cl.reliableAcknowledge \in Nat
         /\ cl.reliableSent <= cl.reliableSequence
         /\ cl.ring \in [Slots -> Entry]
         /\ \A n \in Nat : Slot(n) \in Slots /\ Pending(cl, n) \in Entry
         /\ Unsent(cl) \subseteq Nat
         /\ Len(texts) = cl.reliableSent
<1>1. /\ cl.reliableSent \in Nat /\ cl.reliableSequence \in Nat
      /\ cl.reliableAcknowledge \in Nat
      /\ cl.reliableSent <= cl.reliableSequence
      /\ cl.ring \in [Slots -> Entry]
      /\ Len(texts) = cl.reliableSent
  BY DEF QueueType, ClientRecord, Entry
<1>2. \A n \in Nat : Slot(n) \in Slots /\ Pending(cl, n) \in Entry
  BY <1>1, SlotType DEF Pending
<1>3. Unsent(cl) \subseteq Nat
  BY <1>1 DEF Unsent
<1>4. QED
  BY <1>1, <1>2, <1>3

Kept(cl) == {n \in Unsent(cl) : Pending(cl, n).reliable}
Place(cl, n) == cl.reliableSent + Rank(Kept(cl), n)

\* Cull, by its parts.
LEMMA CullParts ==
  ASSUME NEW cl, NEW texts, QueueType(cl, texts)
  PROVE  /\ QueueType(Cull(cl), texts)
         /\ SameCounts(Cull(cl), cl)
         /\ Cull(cl).deferredDrop = cl.deferredDrop
         /\ Cull(cl).reliableSequence = cl.reliableSent + Cardinality(Kept(cl))
         /\ Cull(cl).reliableSequence \in cl.reliableSent .. cl.reliableSequence
         /\ \A s \in Slots : Cull(cl).ring[s] =
               IF \E n \in Kept(cl) : Slot(Place(cl, n)) = s
                 THEN Pending(cl, CHOOSE n \in Kept(cl) : Slot(Place(cl, n)) = s)
                 ELSE cl.ring[s]
<1> DEFINE ring == [s \in Slots |->
              IF \E n \in Kept(cl) : Slot(Place(cl, n)) = s
                THEN Pending(cl, CHOOSE n \in Kept(cl) : Slot(Place(cl, n)) = s)
                ELSE cl.ring[s]]
           number == cl.reliableSequence
                       - (Cardinality(Unsent(cl)) - Cardinality(Kept(cl)))
<1>1. Cull(cl) = [cl EXCEPT !.reliableSequence = number, !.ring = ring]
  BY DEF Cull, Kept, Place
<1>2. /\ cl.reliableSent \in Nat /\ cl.reliableSequence \in Nat
      /\ cl.reliableSent <= cl.reliableSequence
      /\ cl.ring \in [Slots -> Entry]
      /\ \A n \in Unsent(cl) : Pending(cl, n) \in Entry
      /\ \A n \in Unsent(cl) : Slot(n) \in Slots
  BY QueueFacts
<1>3. /\ Kept(cl) \in SUBSET (cl.reliableSent + 1 .. cl.reliableSequence)
      /\ Unsent(cl) \in SUBSET (cl.reliableSent + 1 .. cl.reliableSequence)
      /\ Unsent(cl) = cl.reliableSent + 1 .. cl.reliableSequence
  BY DEF Kept, Unsent
<1>4. Cardinality(Kept(cl)) \in 0 .. cl.reliableSequence - cl.reliableSent
  BY <1>2, <1>3, Ranks
<1>5. Cardinality(Unsent(cl)) = cl.reliableSequence - cl.reliableSent
  BY <1>2, <1>3, Ranks
<1>6. number = cl.reliableSent + Cardinality(Kept(cl))
      /\ number \in cl.reliableSent .. cl.reliableSequence
  BY <1>2, <1>4, <1>5
<1>7. ASSUME NEW s \in Slots
      PROVE  ring[s] = cl.ring[s] \/ \E n \in Unsent(cl) : ring[s] = Pending(cl, n)
  BY DEF Kept
<1>8. ring \in [Slots -> Entry]
  BY <1>2, <1>7
<1>9. \A s \in Slots : ring[s].reliable => IsReliable(ring[s].text)
  <2>1. \A s \in Slots : cl.ring[s].reliable => IsReliable(cl.ring[s].text)
    BY DEF QueueType
  <2>2. \A n \in Unsent(cl) :
           Pending(cl, n).reliable => IsReliable(Pending(cl, n).text)
    BY <1>2, <2>1 DEF Pending
  <2> HIDE DEF ring
  <2>3. QED
    BY <1>7, <2>1, <2>2
<1> HIDE DEF ring, number
<1>10. /\ Cull(cl) \in ClientRecord /\ SameCounts(Cull(cl), cl)
       /\ Cull(cl).deferredDrop = cl.deferredDrop
       /\ Cull(cl).reliableSequence = number /\ Cull(cl).ring = ring
  <2>1. cl \in ClientRecord /\ number \in Nat
    BY <1>2, <1>6 DEF QueueType
  <2>2. QED
    BY <1>1, <1>8, <2>1 DEF ClientRecord, SameCounts, Entry
<1>11. QueueType(Cull(cl), texts)
  BY <1>6, <1>9, <1>10, <1>2 DEF QueueType, SameCounts
<1>12. QED
  BY <1>6, <1>10, <1>11 DEF ring

\* Culling keeps every reliable command, and of those that were sent the texts.
LEMMA CullKeeps ==
  ASSUME NEW cl, NEW texts, QueueType(cl, texts), QueueInv(cl, texts)
  PROVE  /\ QueueInv(Cull(cl), texts)
         /\ AllReliable(Cull(cl))
         /\ \A n \in Kept(cl) : /\ Place(cl, n) \in Unsent(Cull(cl))
                               /\ Pending(Cull(cl), Place(cl, n)) = Pending(cl, n)
         /\ \A k \in Unsent(Cull(cl)) : \E n \in Kept(cl) : Place(cl, n) = k
         /\ \A m, n \in Kept(cl) : m < n => Place(cl, m) < Place(cl, n)
<1> DEFINE new  == Cull(cl)
           sent == cl.reliableSent
           ack  == cl.reliableAcknowledge
           last == cl.reliableSequence
           kept == Kept(cl)
<1>1. /\ sent \in Nat /\ last \in Nat /\ ack \in Nat /\ sent <= last
      /\ ack <= sent /\ last - ack <= RingSize
      /\ \A n \in Nat : Slot(n) \in Slots
  BY QueueFacts DEF QueueInv, Backlog
<1>2. /\ new.reliableSent = sent /\ new.reliableAcknowledge = ack
      /\ new.reliableSequence = sent + Cardinality(kept)
      /\ new.reliableSequence \in sent .. last
      /\ \A s \in Slots : new.ring[s] =
            IF \E n \in kept : Slot(Place(cl, n)) = s
              THEN Pending(cl, CHOOSE n \in kept : Slot(Place(cl, n)) = s)
              ELSE cl.ring[s]
  BY CullParts DEF SameCounts
<1>3. kept \in SUBSET (sent + 1 .. last)
      /\ \A n \in kept : n \in Unsent(cl) /\ Pending(cl, n).reliable
  BY DEF Kept, Unsent
<1> HIDE DEF new, sent, ack, last, kept
<1>4. /\ \A n \in kept : Rank(kept, n) \in 1 .. Cardinality(kept)
                          /\ sent + Rank(kept, n) <= n
      /\ \A m, n \in kept : m < n => Rank(kept, m) < Rank(kept, n)
      /\ \A k \in 1 .. Cardinality(kept) : \E n \in kept : Rank(kept, n) = k
      /\ kept = sent + 1 .. last => /\ Cardinality(kept) = last - sent
                                    /\ \A n \in kept : sent + Rank(kept, n) = n
      /\ Cardinality(kept) \in 0 .. last - sent
  BY <1>1, <1>3, Ranks
<1>5. \A n \in kept : Place(cl, n) = sent + Rank(kept, n)
  BY DEF Place, sent, kept
<1>6. \A n \in kept : Place(cl, n) \in sent + 1 .. new.reliableSequence
                       /\ Place(cl, n) \in sent + 1 .. last
  <2> SUFFICES ASSUME NEW n \in kept
               PROVE  /\ Place(cl, n) \in sent + 1 .. new.reliableSequence
                      /\ Place(cl, n) \in sent + 1 .. last
    OBVIOUS
  <2>1. Place(cl, n) = sent + Rank(kept, n) /\ Rank(kept, n) \in 1 .. Cardinality(kept)
    BY <1>4, <1>5
  <2>2. /\ sent \in Nat /\ last \in Nat /\ sent <= last
        /\ Cardinality(kept) \in 0 .. last - sent
        /\ new.reliableSequence = sent + Cardinality(kept)
    BY <1>1, <1>2, <1>4
  <2>3. QED
    BY ONLY <2>1, <2>2
<1>7. ASSUME NEW m \in kept, NEW n \in kept,
             Slot(Place(cl, m)) = Slot(Place(cl, n))
      PROVE  m = n
  <2>1. last - sent <= RingSize
    BY <1>1
  <2>2. Place(cl, m) = Place(cl, n)
    BY <1>1, <1>6, <1>7, <2>1, SpanApart
  <2>3. Rank(kept, m) = Rank(kept, n) /\ Rank(kept, m) \in Nat
    BY <1>1, <1>4, <1>5, <2>2
  <2>4. m \in Nat /\ n \in Nat
    BY <1>1, <1>3
  <2>5. ~(m < n) /\ ~(n < m)
    BY <1>4, <2>3
  <2>6. QED
    BY <2>4, <2>5
<1>8. ASSUME NEW n \in kept
      PROVE  Pending(new, Place(cl, n)) = Pending(cl, n)
  <2> DEFINE s == Slot(Place(cl, n))
  <2>1. Place(cl, n) \in Nat
    BY <1>1, <1>6
  <2>2. s \in Slots
    BY <1>1, <2>1
  <2>3. \E m \in kept : Slot(Place(cl, m)) = s
    OBVIOUS
  <2>4. (CHOOSE m \in kept : Slot(Place(cl, m)) = s) = n
    BY <1>7, <2>3
  <2>5. new.ring[s] = Pending(cl, n)
    BY <1>2, <2>2, <2>3, <2>4
  <2>6. QED
    BY <2>5 DEF Pending
<1>9. Unsent(new) = sent + 1 .. new.reliableSequence
  BY <1>2 DEF Unsent
<1>10. ASSUME NEW k \in Unsent(new)
       PROVE  \E n \in kept : Place(cl, n) = k
  <2>1. k - sent \in 1 .. Cardinality(kept) /\ sent + (k - sent) = k
    BY <1>1, <1>2, <1>4, <1>9
  <2>2. PICK n \in kept : Rank(kept, n) = k - sent
    BY <1>4, <2>1
  <2>3. QED
    BY <1>5, <2>1, <2>2
<1>11. AllReliable(new)
  BY <1>3, <1>8, <1>10 DEF AllReliable
<1>12. \A n \in kept : /\ Place(cl, n) \in Unsent(new)
                        /\ Pending(new, Place(cl, n)) = Pending(cl, n)
  BY <1>6, <1>8, <1>9
<1>13. \A n \in 0 .. sent : n >= ack /\ n > last - RingSize =>
          Pending(cl, n).text = SentText(texts, n)
  BY DEF QueueInv, sent, ack, last
<1>14. ASSUME NEW n \in 0 .. sent, n >= ack, n > new.reliableSequence - RingSize
       PROVE  Pending(new, n).text = SentText(texts, n)
  <2>1. n \in Nat /\ Slot(n) \in Slots
    BY <1>1
  <2>2. CASE last - ack = RingSize
    <3>1. AllReliable(cl)
      BY <2>2 DEF QueueInv, Backlog, last, ack
    <3>2. kept = sent + 1 .. last
      BY <3>1 DEF AllReliable, kept, Kept, Unsent, sent, last
    <3>3. \A m \in kept : Place(cl, m) = m
      BY <1>4, <1>5, <3>2
    <3>4. new.reliableSequence = last
      BY <1>1, <1>2, <1>4, <3>2
    <3>5. new.ring[Slot(n)] = cl.ring[Slot(n)]
      <4> DEFINE here == \E m \in kept : Slot(Place(cl, m)) = Slot(n)
                 m0 == CHOOSE m \in kept : Slot(Place(cl, m)) = Slot(n)
      <4>1. CASE here
        <5>1. m0 \in kept /\ Slot(Place(cl, m0)) = Slot(n)
          BY <4>1
        <5>2. new.ring[Slot(n)] = Pending(cl, m0)
          BY <1>2, <2>1, <4>1
        <5> HIDE DEF m0
        <5>3. Slot(m0) = Slot(n)
          BY <3>3, <5>1
        <5>4. QED
          BY <5>2, <5>3 DEF Pending
      <4>2. CASE ~here
        BY <1>2, <2>1, <4>2
      <4>3. QED
        BY <4>1, <4>2
    <3>6. QED
      BY <1>13, <1>14, <3>4, <3>5 DEF Pending
  <2>3. CASE last - ack # RingSize
    <3>1. ASSUME NEW m \in kept
          PROVE  Slot(Place(cl, m)) # Slot(n)
      <4> DEFINE p == Place(cl, m)
      <4>1. p \in Nat /\ n < p /\ p - n < RingSize
        BY <1>1, <1>6, <1>14, <2>1, <2>3
      <4> HIDE DEF p
      <4>2. Slot(n) # Slot(p)
        BY <2>1, <4>1, SlotsApart
      <4>3. QED
        BY <4>2 DEF p
    <3>2. new.ring[Slot(n)] = cl.ring[Slot(n)]
      BY <1>2, <2>1, <3>1
    <3>3. n > last - RingSize
      BY <1>1, <1>14, <2>1, <2>3
    <3>4. QED
      BY <1>13, <1>14, <3>2, <3>3 DEF Pending
  <2>4. QED
    BY <2>2, <2>3
<1>15. QueueInv(new, texts)
  <2>1. new.reliableSequence - ack <= RingSize
    BY <1>1, <1>2
  <2>2. QED
    BY <1>1, <1>2, <1>11, <1>14, <2>1 DEF QueueInv, Backlog
<1>16. ASSUME NEW m \in kept, NEW n \in kept, m < n
       PROVE  Place(cl, m) < Place(cl, n)
  <2>1. Rank(kept, m) < Rank(kept, n) /\ Rank(kept, m) \in Int /\ Rank(kept, n) \in Int
    BY <1>4, <1>16
  <2>2. QED
    BY <1>1, <1>5, <2>1
<1>17. QED
  BY <1>10, <1>11, <1>12, <1>15, <1>16 DEF new, kept

Entered(cl, c) == Write(MakeRoom(cl, c), c)
Moved(cl, c) ==
    {Slot(n) : n \in Min(Replaceable(cl, c)) .. cl.reliableSequence - 1}

\* The end of SV_AddServerCommand, by its parts.
LEMMA EnteredParts ==
  ASSUME NEW cl, NEW texts, QueueType(cl, texts), NEW c \in Text
  PROVE  LET new  == Entered(cl, c)
             none == Replaceable(cl, c) = {}
             last == IF none THEN cl.reliableSequence + 1
                             ELSE cl.reliableSequence
         IN  /\ QueueType(new, texts)
             /\ SameCounts(new, cl)
             /\ new.reliableSequence = last
             /\ Backlog(new) <= RingSize =>
                   new.ring[Slot(last)] = [text |-> c, reliable |-> IsReliable(c)]
             /\ \A s \in Slots \ {Slot(last)} : new.ring[s] =
                   IF ~none /\ s \in Moved(cl, c) THEN cl.ring[Slot(s + 1)]
                                                 ELSE cl.ring[s]
<1> DEFINE none == Replaceable(cl, c) = {}
           last == IF none THEN cl.reliableSequence + 1 ELSE cl.reliableSequence
           room == MakeRoom(cl, c)
           shifted == [s \in Slots |-> IF s \in Moved(cl, c)
                                        THEN cl.ring[Slot(s + 1)] ELSE cl.ring[s]]
           overflow == Backlog(room) = RingSize + 1
           entry == IF overflow THEN [text |-> Drop, reliable |-> TRUE]
                                ELSE [text |-> c, reliable |-> IsReliable(c)]
           new == Entered(cl, c)
<1>1. /\ cl \in ClientRecord /\ cl.reliableSequence \in Nat
      /\ cl.ring \in [Slots -> Entry]
      /\ \A n \in Nat : Slot(n) \in Slots
      /\ \A s \in Slots : cl.ring[s].reliable => IsReliable(cl.ring[s].text)
  BY QueueFacts DEF QueueType
<1>2. \A s \in Slots : Slot(s + 1) \in Slots
  <2>1. \A s \in Slots : s + 1 \in Nat
    BY DEF Slots
  <2>2. QED
    BY <1>1, <2>1
<1>3. last \in Nat
  BY <1>1
<1>4. shifted \in [Slots -> Entry]
      /\ \A s \in Slots : shifted[s].reliable => IsReliable(shifted[s].text)
  BY <1>1, <1>2
<1>5. room = [cl EXCEPT !.reliableSequence = last,
                        !.ring = IF none THEN cl.ring ELSE shifted]
  <2>1. CASE none
    <3>1. room = [cl EXCEPT !.reliableSequence = @ + 1]
      BY <2>1 DEF MakeRoom
    <3>2. QED
      BY <1>1, <2>1, <3>1 DEF ClientRecord
  <2>2. CASE ~none
    <3>1. room = [cl EXCEPT !.ring = shifted]
      BY <2>2 DEF MakeRoom, Moved
    <3> HIDE DEF room, shifted
    <3>2. QED
      BY <1>1, <2>2, <3>1 DEF ClientRecord
  <2>3. QED
    BY <2>1, <2>2
<1> HIDE DEF last, shifted
<1>6. /\ room \in ClientRecord /\ SameCounts(room, cl)
      /\ room.reliableSequence = last
      /\ room.ring = IF none THEN cl.ring ELSE shifted
  BY <1>1, <1>3, <1>4, <1>5 DEF ClientRecord, SameCounts, Entry
<1> HIDE DEF room
<1>7. room.ring \in [Slots -> Entry]
      /\ \A s \in Slots : room.ring[s].reliable => IsReliable(room.ring[s].text)
  BY <1>1, <1>4, <1>6
<1>8. entry \in Entry /\ (entry.reliable => IsReliable(entry.text))
  <2>1. Drop \in Text /\ IsReliable(Drop)
    BY DEF Text, Drop, IsReliable
  <2>2. IsReliable(c) \in BOOLEAN
    BY DEF IsReliable
  <2>3. QED
    BY <2>1, <2>2 DEF Entry
<1>9. Slot(last) \in Slots
  BY <1>1, <1>3
<1> DEFINE ring == [room.ring EXCEPT ![Slot(last)] = entry]
           drop == room.deferredDrop \/ (overflow /\ room.state # "ZOMBIE")
<1> HIDE DEF entry
<1>10. ring \in [Slots -> Entry]
       /\ \A s \in Slots : ring[s].reliable => IsReliable(ring[s].text)
  BY <1>7, <1>8, <1>9
<1>11. new = [room EXCEPT !.ring = ring, !.deferredDrop = drop]
  BY <1>6 DEF Write, Entered, room, entry
<1>12. drop \in BOOLEAN
  OBVIOUS
<1> HIDE DEF ring, drop, overflow
<1>13. /\ new \in ClientRecord /\ SameCounts(new, room)
       /\ new.reliableSequence = last /\ new.ring = ring
  <2> HIDE DEF new
  <2>1. QED
    BY <1>6, <1>10, <1>11, <1>12 DEF ClientRecord, SameCounts, Entry
<1> HIDE DEF new
<1>14. SameCounts(new, cl)
  BY <1>6, <1>13 DEF SameCounts
<1>15. QueueType(new, texts)
  <2>1. cl.reliableSent <= last
    BY <1>1, QueueFacts DEF last
  <2>2. QED
    BY <1>10, <1>13, <1>14, <2>1 DEF QueueType, SameCounts
<1>16. ASSUME Backlog(new) <= RingSize
       PROVE  ring[Slot(last)] = [text |-> c, reliable |-> IsReliable(c)]
  <2>1. Backlog(new) = Backlog(room)
    BY <1>6, <1>13 DEF Backlog, SameCounts
  <2>2. ~overflow
    BY <1>16, <2>1 DEF overflow
  <2>3. QED
    BY <1>7, <1>9, <2>2 DEF ring, entry
<1>17. \A s \in Slots \ {Slot(last)} : ring[s] =
          IF ~none /\ s \in Moved(cl, c) THEN cl.ring[Slot(s + 1)] ELSE cl.ring[s]
  BY <1>6, <1>7 DEF ring, shifted
<1>18. QED
  BY <1>13, <1>14, <1>15, <1>16, <1>17 DEF new, last

\* Unless the ring overflows, a new command takes the place of nothing but
\* what it supersedes.
LEMMA EnteredKeeps ==
  ASSUME NEW cl, NEW texts, QueueType(cl, texts), QueueInv(cl, texts),
         NEW c \in Text, Backlog(Entered(cl, c)) <= RingSize,
         \/ Backlog(cl) < UnreliableLimit
         \/ AllReliable(cl) /\ IsReliable(c)
  PROVE  /\ QueueInv(Entered(cl, c), texts) /\ Survives(cl, Entered(cl, c))
         /\ \A p \in Unsent(Entered(cl, c)) : p # Entered(cl, c).reliableSequence =>
               Pending(Entered(cl, c), p) =
                  IF Replaceable(cl, c) = {} \/ p < Min(Replaceable(cl, c))
                  THEN Pending(cl, p) ELSE Pending(cl, p + 1)
<1> DEFINE new  == Entered(cl, c)
           none == Replaceable(cl, c) = {}
           last == cl.reliableSequence
           next == IF none THEN last + 1 ELSE last
           sent == cl.reliableSent
           ack  == cl.reliableAcknowledge
           q    == Min(Replaceable(cl, c))
           entry == [text |-> c, reliable |-> IsReliable(c)]
<1>1. /\ sent \in Nat /\ last \in Nat /\ ack \in Nat /\ sent <= last
      /\ ack <= sent /\ next \in Nat /\ last <= next
      /\ \A n \in Nat : Slot(n) \in Slots
  BY SMTT(20), QueueFacts DEF QueueInv
<1>2. /\ new.reliableSent = sent /\ new.reliableAcknowledge = ack
      /\ new.reliableSequence = next
      /\ new.ring[Slot(next)] = entry
      /\ \A s \in Slots \ {Slot(next)} : new.ring[s] =
            IF ~none /\ s \in Moved(cl, c) THEN cl.ring[Slot(s + 1)] ELSE cl.ring[s]
  BY EnteredParts DEF SameCounts
<1>3. next - ack <= RingSize
  BY <1>2 DEF Backlog
<1>4. ~none => /\ q \in Replaceable(cl, c) /\ q \in sent + 1 .. last
               /\ Pending(cl, q).reliable
               /\ Supersedes(c, Pending(cl, q).text)
  <2>1. Replaceable(cl, c) \in SUBSET Nat
    BY <1>1 DEF Replaceable, Unsent
  <2>2. ~none => q \in Replaceable(cl, c)
    BY <2>1, MinType
  <2>3. QED
    BY <2>2 DEF Replaceable, Unsent
<1>5. \A s : s \in Moved(cl, c) <=> \E n \in q .. last - 1 : s = Slot(n)
  BY DEF Moved
<1>6. /\ Unsent(new) = sent + 1 .. next
      /\ Unsent(cl) = sent + 1 .. last
      /\ Pending(new, next) = entry
  BY <1>2 DEF Unsent, Pending
<1> HIDE DEF new, none, last, sent, ack, q, entry
<1>7. ASSUME NEW p \in sent + 1 .. next, NEW r \in sent + 1 .. next,
             Slot(p) = Slot(r)
      PROVE  p = r
  <2>1. next - sent <= RingSize
    BY <1>1, <1>3
  <2> HIDE DEF next
  <2>2. QED
    BY <1>1, <1>7, <2>1, SpanApart
\* Where the commands still to be sent are now.
<1>8. ASSUME NEW p \in sent + 1 .. next, p # next
      PROVE  Pending(new, p) =
               IF none \/ p < q THEN Pending(cl, p) ELSE Pending(cl, p + 1)
  <2>1. p \in Nat /\ Slot(p) \in Slots /\ p \in sent + 1 .. last /\ p < next
    BY <1>1, <1>8
  <2>2. Slot(p) # Slot(next)
    <3>1. next \in sent + 1 .. next
      BY <1>1, <2>1
    <3>2. QED
      BY <1>7, <1>8, <3>1
  <2>3. CASE none
    BY <1>2, <2>1, <2>2, <2>3 DEF Pending
  <2>4. CASE ~none /\ p < q
    <3>1. Slot(p) \notin Moved(cl, c)
      <4> SUFFICES ASSUME NEW n \in q .. last - 1, Slot(p) = Slot(n)
                   PROVE  FALSE
        BY <1>5
      <4>1. n \in sent + 1 .. next /\ p # n
        BY <1>1, <1>4, <2>1, <2>4
      <4>2. QED
        BY <1>7, <4>1
    <3>2. QED
      BY <1>2, <2>1, <2>2, <2>4, <3>1 DEF Pending
  <2>5. CASE ~none /\ ~(p < q)
    <3>1. p \in q .. last - 1
      <4>1. next = last
        BY <2>5
      <4>2. p < last /\ q \in Nat
        BY <1>1, <1>4, <2>1, <2>5, <4>1
      <4>3. QED
        BY <1>1, <2>1, <2>5, <4>2
    <3>2. Slot(p) \in Moved(cl, c)
      BY <1>5, <3>1
    <3>3. new.ring[Slot(p)] = cl.ring[Slot(Slot(p) + 1)]
      BY <1>2, <2>1, <2>2, <2>5, <3>2
    <3>4. QED
      BY <2>1, <2>5, <3>3, SlotAfter DEF Pending
  <2>6. QED
    BY <2>3, <2>4, <2>5
\* No command that was sent has moved.
<1>9. ASSUME NEW n \in 0 .. sent, n >= ack, n > next - RingSize
      PROVE  Pending(new, n).text = SentText(texts, n)
  <2>1. n \in Nat /\ Slot(n) \in Slots /\ n > last - RingSize
    BY <1>1, <1>9
  <2>2. ASSUME NEW p \in sent + 1 .. next
        PROVE  Slot(p) # Slot(n)
    <3>1. p \in Nat /\ n < p /\ p - n < RingSize
      BY <1>1, <1>9, <2>1
    <3>2. QED
      BY <2>1, <3>1, SlotsApart
  <2>3. next = sent \/ next \in sent + 1 .. next
    BY <1>1
  <2>4. next # sent
    <3>1. none => next = last + 1
      OBVIOUS
    <3>2. ~none => next = last /\ sent < last
      BY <1>1, <1>4
    <3>3. QED
      BY <1>1, <3>1, <3>2
  <2>5. Slot(n) # Slot(next)
    BY <2>2, <2>3, <2>4
  <2>6. ~none => Slot(n) \notin Moved(cl, c)
    <3> SUFFICES ASSUME ~none, NEW m \in q .. last - 1, Slot(n) = Slot(m)
                 PROVE  FALSE
      BY <1>5
    <3>1. m \in sent + 1 .. next
      BY <1>1, <1>4
    <3>2. QED
      BY <2>2, <3>1
  <2>7. new.ring[Slot(n)] = cl.ring[Slot(n)]
    BY <1>2, <2>1, <2>5, <2>6
  <2>8. Pending(cl, n).text = SentText(texts, n)
    BY <1>9, <2>1 DEF QueueInv, sent, ack, last
  <2>9. QED
    BY <2>7, <2>8 DEF Pending
<1>10. ASSUME next - ack > UnreliableLimit
       PROVE  AllReliable(new)
  <2>1. AllReliable(cl) /\ IsReliable(c)
    <3>1. CASE Backlog(cl) < UnreliableLimit
      BY <1>1, <1>10, <3>1 DEF Backlog, last, ack
    <3>2. QED
      BY <3>1
  <2>2. \A p \in sent + 1 .. last : Pending(cl, p).reliable
    BY <1>6, <2>1 DEF AllReliable
  <2>3. ASSUME NEW p \in sent + 1 .. next
        PROVE  Pending(new, p).reliable
    <3>1. CASE p = next
      BY <1>6, <2>1, <3>1 DEF entry
    <3>2. CASE p # next
      <4>1. p \in sent + 1 .. last
        BY <1>1, <3>2
      <4>2. ~none => p + 1 \in sent + 1 .. last
        BY <1>1, <3>2
      <4>3. QED
        BY <1>8, <2>2, <3>2, <4>1, <4>2
    <3>3. QED
      BY <3>1, <3>2
  <2>4. QED
    BY <1>6, <2>3 DEF AllReliable
<1>11. QueueInv(new, texts)
  BY <1>1, <1>2, <1>3, <1>9, <1>10 DEF QueueInv, Backlog
<1>12. ASSUME NEW n \in sent + 1 .. last, Pending(cl, n).reliable
       PROVE  \E k \in sent + 1 .. next :
                 /\ Pending(new, k).reliable
                 /\ Supersedes(Pending(new, k).text, Pending(cl, n).text)
                      \/ Pending(new, k).text = Pending(cl, n).text
  <2>1. n \in Nat
    BY <1>1
  <2>2. CASE none \/ n < q
    <3>1. n \in sent + 1 .. next /\ n # next
      <4>1. none => next = last + 1
        OBVIOUS
      <4>2. ~none => next = last /\ q <= last
        BY <1>4
      <4>3. QED
        BY <1>1, <1>4, <2>2, <4>1, <4>2
    <3>2. Pending(new, n) = Pending(cl, n)
      BY <1>8, <2>2, <3>1
    <3>3. QED
      BY <1>12, <3>1, <3>2
  <2>3. CASE ~none /\ n = q
    <3>1. next \in sent + 1 .. next /\ next = last
      BY <1>1, <1>4, <2>3
    <3>2. Pending(new, next) = entry /\ entry.text = c
      BY <1>6 DEF entry
    <3>3. Supersedes(c, Pending(cl, n).text)
      BY <1>4, <2>3
    <3>4. IsReliable(Pending(cl, n).text)
      <4>1. Slot(n) \in Slots
        BY <1>1, <2>1
      <4>2. QED
        BY <1>12, <4>1 DEF QueueType, Pending
    <3>5. IsReliable(c)
      BY <3>3, <3>4 DEF IsReliable, Supersedes
    <3>6. QED
      BY <3>1, <3>2, <3>3, <3>5 DEF entry
  <2>4. CASE ~none /\ n > q
    <3>1. next = last /\ n - 1 \in sent + 1 .. next /\ n - 1 # next
          /\ ~(n - 1 < q) /\ n - 1 + 1 = n
      BY <1>1, <1>4, <2>1, <2>4
    <3>2. Pending(new, n - 1) = Pending(cl, n)
      BY <1>8, <2>4, <3>1
    <3>3. QED
      BY <1>12, <3>1, <3>2
  <2>5. QED
    <3>1. ~none => q \in Nat
      BY <1>1, <1>4
    <3>2. QED
      BY <2>1, <2>2, <2>3, <2>4, <3>1
<1>13. Survives(cl, new)
  BY <1>6, <1>12 DEF Survives
<1>14. \A p \in Unsent(new) : p # new.reliableSequence =>
          Pending(new, p) = IF none \/ p < q THEN Pending(cl, p) ELSE Pending(cl, p + 1)
  BY <1>2, <1>6, <1>8
<1>15. QED
  BY <1>11, <1>13, <1>14 DEF new, none, q

\* SV_AddServerCommand
LEMMA AddType ==
  ASSUME NEW cl, NEW texts, QueueType(cl, texts), NEW c \in Text
  PROVE  QueueType(Add(cl, c), texts) /\ SameCounts(Add(cl, c), cl)
<1> DEFINE crowded == Backlog(cl) >= UnreliableLimit \/ cl.state # "ACTIVE"
           culled == IF crowded THEN Cull(cl) ELSE cl
<1>1. QueueType(culled, texts) /\ SameCounts(culled, cl)
  BY CullParts DEF SameCounts
<1>2. Add(cl, c) = IF crowded /\ ~IsReliable(c) THEN culled ELSE Entered(culled, c)
  BY DEF Add, Entered
<1> HIDE DEF crowded, culled
<1>3. QueueType(Entered(culled, c), texts) /\ SameCounts(Entered(culled, c), culled)
  BY <1>1, EnteredParts
<1>4. QED
  BY <1>1, <1>2, <1>3 DEF SameCounts

LEMMA AddKeeps ==
  ASSUME NEW cl, NEW texts, QueueType(cl, texts), QueueInv(cl, texts),
         NEW c \in Text, Backlog(Add(cl, c)) <= RingSize
  PROVE  QueueInv(Add(cl, c), texts) /\ Survives(cl, Add(cl, c))
<1> DEFINE crowded == Backlog(cl) >= UnreliableLimit \/ cl.state # "ACTIVE"
<1>1. CASE ~crowded
  <2>1. Add(cl, c) = Entered(cl, c)
    BY <1>1 DEF Add, Entered
  <2>2. Backlog(cl) < UnreliableLimit
    BY <1>1, QueueFacts DEF Backlog
  <2>3. QED
    BY <2>1, <2>2, EnteredKeeps
<1>2. CASE crowded
  <2> DEFINE culled == Cull(cl)
  <2>1. /\ QueueType(culled, texts) /\ QueueInv(culled, texts) /\ AllReliable(culled)
        /\ \A n \in Kept(cl) : \E k \in Unsent(culled) :
              Pending(culled, k) = Pending(cl, n)
    BY CullParts, CullKeeps
  <2>2. Add(cl, c) = IF ~IsReliable(c) THEN culled ELSE Entered(culled, c)
    BY <1>2 DEF Add, Entered
  <2> HIDE DEF culled
  <2>3. \A n \in Unsent(cl) : Pending(cl, n).reliable => n \in Kept(cl)
    BY DEF Kept
  <2>4. CASE ~IsReliable(c)
    <3>1. Survives(cl, culled)
      BY <2>1, <2>3 DEF Survives
    <3>2. QED
      BY <2>1, <2>2, <2>4, <3>1
  <2>5. CASE IsReliable(c)
    <3>1. Add(cl, c) = Entered(culled, c)
      BY <2>2, <2>5
    <3>2. QueueInv(Entered(culled, c), texts) /\ Survives(culled, Entered(culled, c))
      BY <2>1, <2>5, <3>1, EnteredKeeps
    <3>3. Survives(cl, Entered(culled, c))
      BY <2>1, <2>3, <3>2 DEF Survives
    <3>4. QED
      BY <3>1, <3>2, <3>3
  <2>6. QED
    BY <2>4, <2>5
<1>3. QED
  BY <1>1, <1>2

LEMMA StaysInPlace ==
  ASSUME NEW cl, NEW new, new.ring = cl.ring,
         new.reliableSent = cl.reliableSent,
         new.reliableSequence = cl.reliableSequence
  PROVE  Survives(cl, new)
BY DEF Survives, Unsent, Pending

\* SV_DropClient
LEMMA DropType ==
  ASSUME NEW cl, NEW texts, QueueType(cl, texts)
  PROVE  QueueType(DropClient(cl), texts) /\ SameCounts(DropClient(cl), cl)
<1> DEFINE zombie == [cl EXCEPT !.state = "ZOMBIE", !.deferredDrop = FALSE]
<1>1. /\ QueueType(zombie, texts) /\ SameCounts(zombie, cl)
  BY DEF QueueType, ClientRecord, SameCounts
<1>2. Drop \in Text
  BY DEF Text
<1>3. DropClient(cl) = IF cl.state = "ZOMBIE" THEN cl ELSE Add(zombie, Drop)
  BY DEF DropClient
<1> HIDE DEF zombie
<1>4. QueueType(Add(zombie, Drop), texts) /\ SameCounts(Add(zombie, Drop), zombie)
  BY <1>1, <1>2, AddType
<1>5. QED
  BY <1>1, <1>3, <1>4 DEF SameCounts

LEMMA DropKeeps ==
  ASSUME NEW cl, NEW texts, QueueType(cl, texts), QueueInv(cl, texts),
         Backlog(DropClient(cl)) <= RingSize
  PROVE  QueueInv(DropClient(cl), texts) /\ Survives(cl, DropClient(cl))
<1> DEFINE zombie == [cl EXCEPT !.state = "ZOMBIE", !.deferredDrop = FALSE]
<1>1. /\ QueueType(zombie, texts)
      /\ zombie.ring = cl.ring /\ zombie.reliableSent = cl.reliableSent
      /\ zombie.reliableSequence = cl.reliableSequence
      /\ zombie.reliableAcknowledge = cl.reliableAcknowledge
  BY DEF QueueType, ClientRecord
<1>2. DropClient(cl) = IF cl.state = "ZOMBIE" THEN cl ELSE Add(zombie, Drop)
  BY DEF DropClient
<1> HIDE DEF zombie
<1>3. QueueInv(zombie, texts) /\ Survives(cl, zombie) /\ Survives(cl, cl)
  <2>1. QueueInv(zombie, texts)
    BY <1>1 DEF QueueInv, Backlog, AllReliable, Unsent, Pending
  <2>2. QED
    BY <1>1, <2>1, StaysInPlace
<1>4. CASE cl.state = "ZOMBIE"
  BY <1>2, <1>3, <1>4
<1>5. CASE cl.state # "ZOMBIE"
  <2>1. Drop \in Text /\ DropClient(cl) = Add(zombie, Drop)
    BY <1>2, <1>5 DEF Text
  <2>2. QueueInv(Add(zombie, Drop), texts) /\ Survives(zombie, Add(zombie, Drop))
    BY <1>1, <1>3, <2>1, AddKeeps
  <2>3. \A n : Pending(zombie, n) = Pending(cl, n)
    BY <1>1 DEF Pending
  <2>4. Survives(cl, Add(zombie, Drop))
    BY <1>1, <2>2, <2>3 DEF Survives, Unsent
  <2>5. QED
    BY <2>1, <2>2, <2>4
<1>6. QED
  BY <1>4, <1>5

\* Of a client, the queue is these four fields.
SameQueue(new, cl) ==
    /\ new.ring = cl.ring
    /\ new.reliableSequence = cl.reliableSequence
    /\ SameCounts(new, cl)

LEMMA QueueKept ==
  ASSUME NEW cl, NEW texts, QueueType(cl, texts),
         NEW new \in ClientRecord, SameQueue(new, cl)
  PROVE  /\ QueueType(new, texts)
         /\ QueueInv(cl, texts) => QueueInv(new, texts)
         /\ Survives(cl, new)
<1>1. QueueType(new, texts)
  BY DEF QueueType, SameQueue, SameCounts
<1>2. QueueInv(cl, texts) => QueueInv(new, texts)
  BY DEF QueueInv, SameQueue, SameCounts, Backlog, AllReliable, Unsent, Pending
<1>3. Survives(cl, new)
  BY StaysInPlace DEF SameQueue, SameCounts
<1>4. QED
  BY <1>1, <1>2, <1>3

\* RecordSent, after which texts are more.
Recorded(cl, texts) ==
    [n \in 1 .. cl.reliableSequence |->
        IF n <= Len(texts) THEN texts[n] ELSE Pending(cl, n).text]

\* SV_UpdateServerCommandsToClient: what was not sent before is now.
LEMMA MarkedType ==
  ASSUME NEW cl, NEW texts, QueueType(cl, texts)
  PROVE  LET new == MarkSent(cl)
             more == Recorded(cl, texts)
         IN  /\ QueueType(new, more)
             /\ new.reliableSent = cl.reliableSequence
             /\ new.reliableSequence = cl.reliableSequence
             /\ new.reliableAcknowledge = cl.reliableAcknowledge
             /\ new.ring = cl.ring
             /\ \A n \in 1 .. cl.reliableSent : more[n] = texts[n]
             /\ \A n \in cl.reliableSent + 1 .. cl.reliableSequence :
                   more[n] = Pending(cl, n).text
<1> DEFINE new == MarkSent(cl)
           more == Recorded(cl, texts)
           last == cl.reliableSequence
<1>1. /\ cl.reliableSent \in Nat /\ last \in Nat
      /\ cl.reliableSent <= last /\ Len(texts) = cl.reliableSent
      /\ \A n \in Nat : Pending(cl, n) \in Entry
      /\ texts \in Seq(Text)
  BY QueueFacts DEF QueueType
<1>2. \A n \in 1 .. Len(texts) : texts[n] \in Text
  BY <1>1, ElementOfSeq
<1>3. \A n \in 1 .. last :
         more[n] = IF n <= Len(texts) THEN texts[n] ELSE Pending(cl, n).text
  BY DEF Recorded
<1>4. more \in [1 .. last -> Text]
  <2>1. ASSUME NEW n \in 1 .. last
        PROVE  (IF n <= Len(texts) THEN texts[n] ELSE Pending(cl, n).text) \in Text
    <3>1. n \in Nat /\ n >= 1
      BY <1>1
    <3>2. CASE n <= Len(texts)
      BY <1>1, <1>2, <3>1, <3>2
    <3>3. CASE ~(n <= Len(texts))
      BY <1>1, <3>1, <3>3 DEF Entry
    <3>4. QED
      BY <3>2, <3>3
  <2>2. QED
    BY <2>1 DEF Recorded
<1> HIDE DEF more
<1>5. more \in Seq(Text) /\ Len(more) = last
  <2>1. more \in Seq(Text)
    <3>1. last \in Nat
      BY <1>1
    <3>2. QED
      BY ONLY <1>4, <3>1, SeqDef
  <2>2. DOMAIN more = 1 .. Len(more) /\ Len(more) \in Nat /\ DOMAIN more = 1 .. last
    BY <1>4, <2>1, LenProperties
  <2>3. Len(more) \in Nat /\ last \in Nat /\ 1 .. Len(more) = 1 .. last
    BY <1>1, <2>2
  <2> HIDE DEF last
  <2>4. QED
    BY <2>1, <2>3, SameInterval
<1>6. /\ new \in ClientRecord /\ new.reliableSent = last
      /\ new.reliableSequence = last /\ new.ring = cl.ring
      /\ new.reliableAcknowledge = cl.reliableAcknowledge
  BY DEF QueueType, ClientRecord, MarkSent
<1> HIDE DEF new
<1>7. QueueType(new, more)
  BY <1>1, <1>5, <1>6 DEF QueueType
<1>8. QED
  BY <1>1, <1>3, <1>6, <1>7 DEF new, more

LEMMA MarkedKeeps ==
  ASSUME NEW cl, NEW texts, QueueType(cl, texts), QueueInv(cl, texts)
  PROVE  LET new == MarkSent(cl)
             more == Recorded(cl, texts)
         IN  /\ QueueInv(new, more)
             /\ \A n \in Unacknowledged(cl) : Pending(cl, n).text = more[n]
<1> DEFINE new == MarkSent(cl)
           more == Recorded(cl, texts)
           last == cl.reliableSequence
           sent == cl.reliableSent
           ack == cl.reliableAcknowledge
<1>1. /\ sent \in Nat /\ last \in Nat /\ sent <= last /\ ack \in Nat
      /\ ack <= sent /\ last - ack <= RingSize
      /\ \A n \in 0 .. sent : n >= ack /\ n > last - RingSize =>
            Pending(cl, n).text = SentText(texts, n)
  BY QueueFacts DEF QueueInv, Backlog
<1>2. /\ new.reliableSent = last /\ new.reliableSequence = last
      /\ new.reliableAcknowledge = ack /\ new.ring = cl.ring
      /\ \A n \in 1 .. sent : more[n] = texts[n]
      /\ \A n \in sent + 1 .. last : more[n] = Pending(cl, n).text
  <2>1. /\ new.reliableSent = last /\ new.reliableSequence = last
        /\ new.reliableAcknowledge = ack /\ new.ring = cl.ring
    BY MarkedType
  <2>2. \A n \in 1 .. sent : more[n] = texts[n]
    BY MarkedType
  <2>3. \A n \in sent + 1 .. last : more[n] = Pending(cl, n).text
    BY MarkedType
  <2>4. QED
    BY <2>1, <2>2, <2>3
<1> HIDE DEF new, more, last, sent, ack
<1>3. ASSUME NEW n \in 0 .. last, n >= ack, n > last - RingSize
      PROVE  Pending(cl, n).text = SentText(more, n)
  <2>1. CASE n = 0
    BY <1>1, <1>3, <2>1 DEF SentText
  <2>2. CASE n # 0 /\ n <= sent
    <3>1. n \in 1 .. sent /\ n \in 0 .. sent
      BY <1>1, <2>2
    <3>2. QED
      BY <1>1, <1>2, <1>3, <2>2, <3>1 DEF SentText
  <2>3. CASE n > sent
    <3>1. n \in sent + 1 .. last /\ n # 0
      BY <1>1, <2>3
    <3>2. QED
      BY <1>2, <3>1 DEF SentText
  <2>4. QED
    BY <1>1, <2>1, <2>2, <2>3
<1>4. \A n : Pending(new, n) = Pending(cl, n)
  BY <1>2 DEF Pending
<1>5. AllReliable(new)
  BY <1>1, <1>2 DEF AllReliable, Unsent
<1>6. QueueInv(new, more)
  BY <1>1, <1>2, <1>3, <1>4, <1>5 DEF QueueInv, Backlog
<1>7. \A n \in Unacknowledged(cl) : Pending(cl, n).text = more[n]
  <2> SUFFICES ASSUME NEW n \in ack + 1 .. last
               PROVE  Pending(cl, n).text = more[n]
    BY DEF Unacknowledged, ack, last
  <2>1. n \in 0 .. last /\ n >= ack /\ n > last - RingSize /\ n # 0
    BY <1>1
  <2>2. QED
    BY <1>3, <2>1 DEF SentText
<1>8. QED
  BY <1>6, <1>7 DEF new, more

-----------------------------------------------------------------------------
(* Messages to the client *)

MessagesType(channel) ==
    IsSequence(channel) /\ \A i \in 1 .. Len(channel) : MessageType(channel[i])

LEMMA MessagesSent ==
  ASSUME NEW channel, MessagesType(channel), NEW m, MessageType(m)
  PROVE  MessagesType(Send(channel, m))
<1>1. PICK d \in {0, 1} :
         /\ Len(channel) - d \in Nat
         /\ Len(Send(channel, m)) = Len(channel) - d + 1
         /\ \A i \in 1 .. Len(channel) - d : Send(channel, m)[i] = channel[i + d]
         /\ Send(channel, m)[Len(channel) - d + 1] = m
  BY SentProperties, InFlightAssumption DEF MessagesType, Send
<1>2. IsSequence(Send(channel, m)) /\ Len(channel) \in Nat
  <2>1. IsSequence(Send(channel, m))
    BY SentProperties, InFlightAssumption DEF MessagesType, Send
  <2>2. Len(channel) \in Nat
    BY LenProperties DEF MessagesType, IsSequence
  <2>3. QED
    BY <2>1, <2>2
<1>3. ASSUME NEW i \in 1 .. Len(Send(channel, m))
      PROVE  MessageType(Send(channel, m)[i])
  <2>1. CASE i = Len(channel) - d + 1
    BY <1>1, <2>1
  <2>2. CASE i # Len(channel) - d + 1
    <3>1. i \in 1 .. Len(channel) - d /\ i + d \in 1 .. Len(channel)
      BY <1>1, <1>2, <2>2
    <3>2. QED
      BY <1>1, <3>1 DEF MessagesType
  <2>3. QED
    BY <2>1, <2>2
<1>4. QED
  BY <1>2, <1>3 DEF MessagesType

LEMMA MessagesReceived ==
  ASSUME NEW channel, MessagesType(channel), NEW i \in 1 .. Len(channel)
  PROVE  MessagesType(After(channel, i))
<1>1. /\ IsSequence(After(channel, i)) /\ Len(channel) - i \in Nat
      /\ Len(After(channel, i)) = Len(channel) - i
      /\ \A k \in 1 .. Len(channel) - i : After(channel, i)[k] = channel[i + k]
  BY AfterProperties DEF MessagesType
<1>2. Len(channel) \in Nat
  BY LenProperties DEF MessagesType, IsSequence
<1>3. \A k \in 1 .. Len(channel) - i : i + k \in 1 .. Len(channel)
  BY <1>1, <1>2
<1>4. QED
  BY <1>1, <1>3 DEF MessagesType

\* The server sends commands for the first time.
LEMMA ContinuesGrown ==
  ASSUME NEW m, NEW sent \in Nat, NEW sent2 \in Nat, sent <= sent2, MessageType(m),
         NEW texts, NEW texts2, \A n \in 1 .. sent : texts2[n] = texts[n],
         NEW number, Continues(m, sent, texts, number)
  PROVE  Continues(m, sent2, texts2, number)
<1>1. \A n \in DOMAIN m.commands : n \in 1 .. sent
  <2>1. m.sequence \in Nat /\ DOMAIN m.commands \subseteq 1 .. m.sequence
    BY DEF MessageType
  <2>2. QED
    BY <2>1 DEF Continues
<1>2. m.kind = "gamestate" => m.sequence <= sent2
  BY DEF Continues, MessageType
<1>3. QED
  BY <1>1, <1>2 DEF Continues

LEMMA ToClientGrown ==
  ASSUME NEW channel, MessagesType(channel),
         NEW sent \in Nat, NEW sent2 \in Nat, sent <= sent2,
         NEW texts, NEW texts2, \A n \in 1 .. sent : texts2[n] = texts[n],
         NEW number, ToClientInv(channel, sent, texts, number)
  PROVE  ToClientInv(channel, sent2, texts2, number)
BY ContinuesGrown DEF ToClientInv, MessagesType

\* SV_SendMessageToClient
LEMMA ToClientSent ==
  ASSUME NEW channel, MessagesType(channel), NEW m,
         NEW sent \in Nat, NEW texts, NEW number,
         ToClientInv(channel, sent, texts, number),
         Continues(m, sent, texts, number),
         m.kind = "gamestate" => m.sequence = sent
  PROVE  ToClientInv(Send(channel, m), sent, texts, number)
<1>1. PICK d \in {0, 1} :
         /\ Len(channel) - d \in Nat
         /\ Len(Send(channel, m)) = Len(channel) - d + 1
         /\ \A i \in 1 .. Len(channel) - d : Send(channel, m)[i] = channel[i + d]
         /\ Send(channel, m)[Len(channel) - d + 1] = m
  BY SentProperties, InFlightAssumption DEF MessagesType, Send
<1>2. Len(channel) \in Nat
  BY LenProperties DEF MessagesType, IsSequence
<1> DEFINE new == Send(channel, m)
           last == Len(channel) - d + 1
<1>3. \A i \in 1 .. Len(channel) - d : i + d \in 1 .. Len(channel)
  BY <1>1, <1>2
<1>4. \A i \in 1 .. Len(channel) :
         /\ Continues(channel[i], sent, texts, number)
         /\ channel[i].kind = "gamestate" =>
               \A j \in 1 .. i - 1 : UpToNumber(channel[j], channel[i].sequence)
  BY DEF ToClientInv
<1>5. ASSUME NEW i \in 1 .. last
      PROVE  /\ Continues(new[i], sent, texts, number)
             /\ new[i].kind = "gamestate" =>
                   \A j \in 1 .. i - 1 : UpToNumber(new[j], new[i].sequence)
  <2>1. CASE i = last
    <3>1. new[i] = m
      BY <1>1, <2>1
    <3>2. ASSUME m.kind = "gamestate", NEW j \in 1 .. i - 1
          PROVE  UpToNumber(new[j], m.sequence)
      <4>1. j \in 1 .. Len(channel) - d
        BY <1>1, <2>1
      <4>2. new[j] = channel[j + d] /\ j + d \in 1 .. Len(channel)
        BY <1>1, <1>3, <4>1
      <4>3. Continues(new[j], sent, texts, number)
        BY <1>4, <4>2
      <4>4. QED
        BY <3>2, <4>3 DEF Continues, UpToNumber
    <3>3. QED
      BY <3>1, <3>2
  <2>2. CASE i # last
    <3>1. i \in 1 .. Len(channel) - d /\ i + d \in 1 .. Len(channel)
          /\ new[i] = channel[i + d]
      <4>1. i \in Int /\ 1 <= i /\ i <= last /\ Len(channel) - d \in Nat
        BY <1>1
      <4>2. i \in 1 .. Len(channel) - d
        BY ONLY <1>2, <2>2, <4>1 DEF last
      <4>3. QED
        BY <1>1, <1>3, <4>2
    <3>2. ASSUME new[i].kind = "gamestate", NEW j \in 1 .. i - 1
          PROVE  UpToNumber(new[j], new[i].sequence)
      <4>1. j \in 1 .. Len(channel) - d /\ j + d \in 1 .. (i + d) - 1
        <5>1. d \in Int /\ d >= 0
          OBVIOUS
        <5>2. i \in 1 .. Len(channel) - d /\ Len(channel) - d \in Nat /\ j \in 1 .. i - 1
          BY <1>1, <3>1
        <5>3. QED
          BY ONLY <5>1, <5>2
      <4>2. new[j] = channel[j + d]
        BY <1>1, <4>1
      <4>3. UpToNumber(channel[j + d], channel[i + d].sequence)
        BY <1>4, <3>1, <3>2, <4>1
      <4>4. QED
        BY <3>1, <4>2, <4>3
    <3>3. QED
      BY <1>4, <3>1, <3>2
  <2>3. QED
    BY <2>1, <2>2
<1>6. QED
  BY <1>1, <1>5 DEF ToClientInv

\* CL_PacketEvent: message i takes the client to number2.
LEMMA ToClientReceived ==
  ASSUME NEW channel, MessagesType(channel), NEW i \in 1 .. Len(channel),
         NEW sent \in Nat, NEW texts, NEW number \in Nat,
         ToClientInv(channel, sent, texts, number),
         NEW number2 \in Nat, number <= number2,
         \/ number2 = number
         \/ number2 \in DOMAIN channel[i].commands
         \/ channel[i].kind = "gamestate" /\ number2 = channel[i].sequence
  PROVE  ToClientInv(After(channel, i), sent, texts, number2)
<1>1. /\ Len(channel) - i \in Nat
      /\ Len(After(channel, i)) = Len(channel) - i
      /\ \A k \in 1 .. Len(channel) - i : After(channel, i)[k] = channel[i + k]
  BY AfterProperties DEF MessagesType
<1>2. Len(channel) \in Nat
  BY LenProperties DEF MessagesType, IsSequence
<1>3. \A k \in 1 .. Len(channel) :
         /\ Continues(channel[k], sent, texts, number)
         /\ channel[k].kind = "gamestate" =>
               \A j \in 1 .. k - 1 : UpToNumber(channel[j], channel[k].sequence)
         /\ MessageType(channel[k])
  BY DEF ToClientInv, MessagesType
<1>4. ASSUME NEW k \in 1 .. Len(channel) - i
      PROVE  /\ Continues(channel[i + k], sent, texts, number2)
             /\ channel[i + k].kind = "gamestate" =>
                   \A j \in 1 .. k - 1 :
                      UpToNumber(channel[i + j], channel[i + k].sequence)
  <2>1. i + k \in 1 .. Len(channel) /\ i \in 1 .. (i + k) - 1
        /\ \A j \in 1 .. k - 1 : i + j \in 1 .. (i + k) - 1
    BY ONLY <1>1, <1>2
  <2> DEFINE m == channel[i + k]
  <2>2. Continues(m, sent, texts, number) /\ MessageType(m)
    BY <1>3, <2>1
  <2>3. ASSUME m.kind = "gamestate"
        PROVE  number2 <= m.sequence
    <3>1. UpToNumber(channel[i], m.sequence) /\ number <= m.sequence
      BY <1>3, <2>1, <2>2, <2>3 DEF Continues
    <3>2. QED
      BY <3>1 DEF UpToNumber
  <2> HIDE DEF m
  <2>4. \A n \in DOMAIN m.commands : n \in Nat
    BY <2>2 DEF MessageType
  <2>5. \A n \in Nat : number2 + 1 .. n \subseteq number + 1 .. n
    OBVIOUS
  <2>6. Continues(m, sent, texts, number2)
    <3>1. m.sequence \in Nat
      BY <2>2 DEF MessageType
    <3>2. \A n \in DOMAIN m.commands : number2 + 1 .. n \subseteq DOMAIN m.commands
      BY <2>2, <2>4, <2>5 DEF Continues
    <3>3. m.kind = "gamestate" =>
            number2 + 1 .. m.sequence \subseteq DOMAIN m.commands
      BY <2>2, <2>5, <3>1 DEF Continues
    <3>4. QED
      BY <2>2, <2>3, <3>2, <3>3 DEF Continues
  <2>7. m.kind = "gamestate" =>
           \A j \in 1 .. k - 1 : UpToNumber(channel[i + j], m.sequence)
    BY <1>3, <2>1 DEF m
  <2>8. QED
    BY <2>6, <2>7 DEF m
<1>5. ASSUME NEW k \in 1 .. Len(channel) - i, NEW j \in 1 .. k - 1
      PROVE  j \in 1 .. Len(channel) - i
  BY <1>1
<1>6. QED
  BY <1>1, <1>4, <1>5 DEF ToClientInv

-----------------------------------------------------------------------------
(* Packets to the server *)

PacketsType(channel) ==
    IsSequence(channel) /\ \A i \in 1 .. Len(channel) : PacketType(channel[i])

LEMMA PacketsSent ==
  ASSUME NEW channel, PacketsType(channel), NEW p, PacketType(p)
  PROVE  PacketsType(Send(channel, p))
<1>1. PICK d \in {0, 1} :
         /\ Len(channel) - d \in Nat
         /\ Len(Send(channel, p)) = Len(channel) - d + 1
         /\ \A i \in 1 .. Len(channel) - d : Send(channel, p)[i] = channel[i + d]
         /\ Send(channel, p)[Len(channel) - d + 1] = p
  BY SentProperties, InFlightAssumption DEF PacketsType, Send
<1>2. IsSequence(Send(channel, p)) /\ Len(channel) \in Nat
  <2>1. IsSequence(Send(channel, p))
    BY SentProperties, InFlightAssumption DEF PacketsType, Send
  <2>2. Len(channel) \in Nat
    BY LenProperties DEF PacketsType, IsSequence
  <2>3. QED
    BY <2>1, <2>2
<1>3. ASSUME NEW i \in 1 .. Len(Send(channel, p))
      PROVE  PacketType(Send(channel, p)[i])
  <2>1. CASE i = Len(channel) - d + 1
    BY <1>1, <2>1
  <2>2. CASE i # Len(channel) - d + 1
    <3>1. i \in 1 .. Len(channel) - d /\ i + d \in 1 .. Len(channel)
      BY <1>1, <1>2, <2>2
    <3>2. QED
      BY <1>1, <3>1 DEF PacketsType
  <2>3. QED
    BY <2>1, <2>2
<1>4. QED
  BY <1>2, <1>3 DEF PacketsType

LEMMA PacketsReceived ==
  ASSUME NEW channel, PacketsType(channel), NEW i \in 1 .. Len(channel)
  PROVE  PacketsType(After(channel, i))
<1>1. /\ IsSequence(After(channel, i)) /\ Len(channel) - i \in Nat
      /\ Len(After(channel, i)) = Len(channel) - i
      /\ \A k \in 1 .. Len(channel) - i : After(channel, i)[k] = channel[i + k]
  BY AfterProperties DEF PacketsType
<1>2. Len(channel) \in Nat
  BY LenProperties DEF PacketsType, IsSequence
<1>3. \A k \in 1 .. Len(channel) - i : i + k \in 1 .. Len(channel)
  BY <1>1, <1>2
<1>4. QED
  BY <1>1, <1>3 DEF PacketsType

\* The server sends more, or the client has received more.
LEMMA ToServerGrown ==
  ASSUME NEW channel, PacketsType(channel),
         NEW number \in Nat, NEW number2 \in Nat, number <= number2,
         NEW texts, NEW texts2, \A n \in 1 .. number : texts2[n] = texts[n],
         NEW ack, ToServerInv(channel, ack, texts, number)
  PROVE  ToServerInv(channel, ack, texts2, number2)
<1>1. ASSUME NEW n \in Nat, n <= number
      PROVE  SentText(texts2, n) = SentText(texts, n)
  BY <1>1 DEF SentText
<1>2. \A i \in 1 .. Len(channel) :
         channel[i].reliableAcknowledge \in Nat
  BY DEF PacketsType, PacketType
<1>3. \A n \in Nat : n <= number => n <= number2
  OBVIOUS
<1>4. QED
  BY <1>1, <1>2, <1>3 DEF ToServerInv

\* CL_WritePacket
LEMMA ToServerSent ==
  ASSUME NEW channel, PacketsType(channel), NEW p,
         NEW ack \in Nat, NEW texts, NEW number \in Nat, ack <= number,
         p.reliableAcknowledge = number, p.key = SentText(texts, number),
         ToServerInv(channel, ack, texts, number)
  PROVE  ToServerInv(Send(channel, p), ack, texts, number)
<1>1. PICK d \in {0, 1} :
         /\ Len(channel) - d \in Nat
         /\ Len(Send(channel, p)) = Len(channel) - d + 1
         /\ \A i \in 1 .. Len(channel) - d : Send(channel, p)[i] = channel[i + d]
         /\ Send(channel, p)[Len(channel) - d + 1] = p
  BY SentProperties, InFlightAssumption DEF PacketsType, Send
<1>2. Len(channel) \in Nat
  BY LenProperties DEF PacketsType, IsSequence
<1> DEFINE new == Send(channel, p)
           last == Len(channel) - d + 1
<1>3. ASSUME NEW i \in 1 .. last, i # last
      PROVE  /\ i \in 1 .. Len(channel) - d
             /\ i + d \in 1 .. Len(channel)
             /\ new[i] = channel[i + d]
  BY <1>1, <1>2, <1>3
<1>4. new[last] = p
  BY <1>1
<1> HIDE DEF new
<1>5. ASSUME NEW i \in 1 .. last
      PROVE  /\ ack <= new[i].reliableAcknowledge
             /\ new[i].reliableAcknowledge <= number
             /\ new[i].key = SentText(texts, new[i].reliableAcknowledge)
             /\ \A j \in 1 .. i - 1 :
                   new[j].reliableAcknowledge <= new[i].reliableAcknowledge
  <2>1. CASE i = last
    <3>1. ASSUME NEW j \in 1 .. i - 1
          PROVE  new[j].reliableAcknowledge <= number
      <4>1. j \in 1 .. last /\ j # last
        BY <1>1, <1>2, <2>1
      <4>2. QED
        BY <1>3, <4>1 DEF ToServerInv
    <3>2. QED
      BY <1>4, <2>1, <3>1
  <2>2. CASE i # last
    <3>1. i + d \in 1 .. Len(channel) /\ new[i] = channel[i + d]
      BY <1>3, <2>2
    <3>2. ASSUME NEW j \in 1 .. i - 1
          PROVE  new[j].reliableAcknowledge <= new[i].reliableAcknowledge
      <4>1. j \in 1 .. last /\ j # last /\ j + d \in 1 .. (i + d) - 1
        BY <1>1, <1>2, <2>2
      <4>2. new[j] = channel[j + d]
        BY <1>3, <4>1
      <4>3. QED
        BY <3>1, <4>1, <4>2 DEF ToServerInv
    <3>3. QED
      BY <3>1, <3>2 DEF ToServerInv
  <2>3. QED
    BY <2>1, <2>2
<1>6. QED
  BY <1>1, <1>5 DEF ToServerInv, new

\* SV_PacketEvent: the packets behind number i acknowledge no less than it.
LEMMA ToServerReceived ==
  ASSUME NEW channel, PacketsType(channel), NEW i \in 1 .. Len(channel),
         NEW ack, NEW texts, NEW number, ToServerInv(channel, ack, texts, number)
  PROVE  ToServerInv(After(channel, i), channel[i].reliableAcknowledge,
                     texts, number)
<1>1. /\ Len(channel) - i \in Nat
      /\ Len(After(channel, i)) = Len(channel) - i
      /\ \A k \in 1 .. Len(channel) - i : After(channel, i)[k] = channel[i + k]
  BY AfterProperties DEF PacketsType
<1>2. Len(channel) \in Nat
  BY LenProperties DEF PacketsType, IsSequence
<1>3. ASSUME NEW k \in 1 .. Len(channel) - i
      PROVE  /\ i + k \in 1 .. Len(channel) /\ i \in 1 .. (i + k) - 1
             /\ \A j \in 1 .. k - 1 : /\ i + j \in 1 .. (i + k) - 1
                                      /\ j \in 1 .. Len(channel) - i
  BY ONLY <1>1, <1>2, i \in 1 .. Len(channel)
<1>4. PICK new : new = After(channel, i)
  OBVIOUS
<1>5. /\ Len(new) = Len(channel) - i
      /\ \A k \in 1 .. Len(new) : new[k] = channel[i + k]
  BY <1>1, <1>4
<1>6. ASSUME NEW k \in 1 .. Len(new), NEW j \in 1 .. k - 1
      PROVE  new[j].reliableAcknowledge <= new[k].reliableAcknowledge
  BY <1>3, <1>5 DEF ToServerInv
<1>7. ASSUME NEW k \in 1 .. Len(new)
      PROVE  /\ channel[i].reliableAcknowledge <= new[k].reliableAcknowledge
             /\ new[k].reliableAcknowledge <= number
             /\ new[k].key = SentText(texts, new[k].reliableAcknowledge)
  <2>1. /\ i + k \in 1 .. Len(channel) /\ i \in 1 .. (i + k) - 1
        /\ new[k] = channel[i + k]
    BY <1>3, <1>5
  <2>2. QED
    BY <2>1 DEF ToServerInv
<1>8. ToServerInv(new, channel[i].reliableAcknowledge, texts, number)
  BY ONLY <1>6, <1>7 DEF ToServerInv
<1>9. QED
  BY <1>4, <1>8

-----------------------------------------------------------------------------
(* What the client holds *)

Holds(commands, number, texts) ==
    \A n \in 0 .. number :
        n > number - RingSize => commands[Slot(n)] = SentText(texts, n)

\* CL_ParseCommandString over a message that goes on where the client stands.
LEMMA StoredHolds ==
  ASSUME NEW m, MessageType(m), NEW sent \in Nat, NEW texts,
         serverCommandSequence \in Nat,
         Continues(m, sent, texts, serverCommandSequence),
         Holds(serverCommands, serverCommandSequence, texts),
         NEW number \in Nat, serverCommandSequence <= number,
         \A n \in DOMAIN m.commands : n <= number,
         serverCommandSequence + 1 .. number \subseteq DOMAIN m.commands
  PROVE  Holds(Stored(m), number, texts)
<1> DEFINE old == serverCommandSequence
<1>1. \A n \in DOMAIN m.commands : n \in Nat /\ m.commands[n] = texts[n]
  <2>1. m.sequence \in Nat
    BY DEF MessageType
  <2>2. QED
    BY <2>1 DEF MessageType, Continues
<1>2. \A n \in News(m) : n \in Nat /\ n > old /\ n <= number /\ n \in DOMAIN m.commands
  BY <1>1 DEF News
<1>3. ASSUME NEW n \in 0 .. number, n > number - RingSize
      PROVE  Stored(m)[Slot(n)] = SentText(texts, n)
  <2> DEFINE here == {k \in News(m) : Slot(k) = Slot(n)}
  <2>1. Slot(n) \in Slots
    BY SlotType
  <2>2. Stored(m)[Slot(n)] =
          IF here = {} THEN serverCommands[Slot(n)] ELSE m.commands[Max(here)]
    BY <2>1 DEF Stored
  <2>3. \A k \in here : k \in Nat /\ k <= n /\ k > old /\ k \in DOMAIN m.commands
    <3> SUFFICES ASSUME NEW k \in here, k > n PROVE FALSE
      BY <1>2
    <3>1. k \in Nat /\ k <= number /\ Slot(k) = Slot(n) /\ n \in Nat
      BY <1>2
    <3>2. n < k /\ k - n < RingSize
      BY <1>3, <3>1
    <3>3. Slot(n) # Slot(k)
      BY <3>1, <3>2, SlotsApart
    <3>4. QED
      BY <3>1, <3>3
  <2>4. CASE n > old
    <3>1. n \in old + 1 .. number
      BY <2>4
    <3>2. n \in here
      BY <2>4, <3>1 DEF News
    <3>3. here \in SUBSET (0 .. number) /\ here # {}
      BY <1>2, <3>2
    <3> HIDE DEF here
    <3>4. Max(here) \in here /\ \A k \in here : Max(here) >= k
      BY <3>3, MaxType
    <3>5. Max(here) = n
      <4> DEFINE k == Max(here)
      <4>1. k \in here /\ k >= n /\ n \in Nat
        BY <3>2, <3>4
      <4> HIDE DEF k
      <4>2. k \in Nat /\ k <= n
        BY <2>3, <4>1
      <4>3. QED
        BY <4>1, <4>2 DEF k
    <3>6. Stored(m)[Slot(n)] = m.commands[n] /\ n \in DOMAIN m.commands /\ n # 0
      BY <2>2, <2>3, <2>4, <3>2, <3>5
    <3>7. QED
      BY <1>1, <3>6 DEF SentText
  <2>5. CASE ~(n > old)
    <3>1. here = {}
      BY <2>3, <2>5
    <3>2. n \in 0 .. old /\ n > old - RingSize
      BY <1>3, <2>5
    <3>3. QED
      BY <2>2, <3>1, <3>2 DEF Holds
  <2>6. QED
    BY <2>4, <2>5
<1>4. QED
  BY <1>3 DEF Holds

-----------------------------------------------------------------------------
(* Steps of the server *)

\* SV_PacketEvent: an acknowledgement moves nothing in the queue.
LEMMA AcknowledgedKeeps ==
  ASSUME NEW cl, NEW texts, QueueType(cl, texts), NEW n \in Nat
  PROVE  LET new == [cl EXCEPT !.reliableAcknowledge = n]
         IN  /\ QueueType(new, texts)
             /\ new.ring = cl.ring
             /\ new.reliableSequence = cl.reliableSequence
             /\ new.reliableSent = cl.reliableSent
             /\ new.reliableAcknowledge = n
             /\ QueueInv(cl, texts) /\ n >= cl.reliableAcknowledge
                  /\ n <= cl.reliableSent => QueueInv(new, texts)
<1> DEFINE new == [cl EXCEPT !.reliableAcknowledge = n]
<1>1. /\ new \in ClientRecord /\ new.ring = cl.ring
      /\ new.reliableSequence = cl.reliableSequence
      /\ new.reliableSent = cl.reliableSent
      /\ new.reliableAcknowledge = n
  BY DEF QueueType, ClientRecord
<1> HIDE DEF new
<1>2. QueueType(new, texts)
  BY <1>1 DEF QueueType
<1>3. ASSUME QueueInv(cl, texts), n >= cl.reliableAcknowledge,
             n <= cl.reliableSent
      PROVE  QueueInv(new, texts)
  <2>1. cl.reliableSequence \in Nat /\ cl.reliableAcknowledge \in Nat
        /\ cl.reliableSent \in Nat
    BY QueueFacts
  <2>2. Backlog(new) <= Backlog(cl) /\ Backlog(cl) \in Int /\ Backlog(new) \in Int
    BY <1>1, <1>3, <2>1 DEF Backlog
  <2>3. Backlog(new) > UnreliableLimit => AllReliable(new)
    BY <1>1, <1>3, <2>2 DEF QueueInv, AllReliable, Unsent, Pending
  <2>4. ASSUME NEW k \in 0 .. new.reliableSent, k >= new.reliableAcknowledge,
               k > new.reliableSequence - RingSize
        PROVE  Pending(new, k).text = SentText(texts, k)
    <3>1. k \in 0 .. cl.reliableSent /\ k >= cl.reliableAcknowledge
          /\ k > cl.reliableSequence - RingSize
      BY <1>1, <1>3, <2>1, <2>4
    <3>2. Pending(new, k) = Pending(cl, k)
      BY <1>1 DEF Pending
    <3>3. QED
      BY <1>3, <3>1, <3>2 DEF QueueInv
  <2>5. QED
    BY <1>1, <1>3, <2>2, <2>3, <2>4 DEF QueueInv
<1>4. QED
  BY <1>1, <1>2, <1>3 DEF new

LEMMA ServerType ==
  ASSUME StreamType, UNCHANGED clientVars, map' \in Nat,
         configstrings' \in [Index -> Value],
         QueueType(client', firstSent'), MessagesType(toClient'),
         PacketsType(toServer'), intact' \in BOOLEAN, carried' \in BOOLEAN
  PROVE  StreamType'
<1>1. /\ client' \in ClientRecord /\ firstSent' \in Seq(Text)
      /\ {intact', carried'} \subseteq BOOLEAN
  BY DEF QueueType
<1>2. TypeOK'
  BY <1>1 DEF StreamType, TypeOK, clientVars
<1>3. QED
  BY <1>2 DEF StreamType, MessagesType, PacketsType

LEMMA ServerInv ==
  ASSUME StreamType, StreamInv, UNCHANGED clientVars,
         QueueInv(client', firstSent'), QueueType(client', firstSent'),
         client'.reliableAcknowledge <= serverCommandSequence,
         client.reliableSent <= client'.reliableSent,
         \A n \in 1 .. client.reliableSent : firstSent'[n] = firstSent[n],
         ToClientInv(toClient', client'.reliableSent, firstSent',
                     serverCommandSequence),
         ToServerInv(toServer', client'.reliableAcknowledge, firstSent',
                     serverCommandSequence)
  PROVE  StreamInv'
<1>1. /\ client.reliableSent \in Nat /\ client'.reliableSent \in Nat
      /\ serverCommandSequence \in Nat
      /\ serverCommandSequence <= client.reliableSent
  <2>1. client.reliableSent \in Nat /\ client'.reliableSent \in Nat
    BY QueueFacts DEF StreamType
  <2>2. QED
    BY <2>1 DEF StreamType, TypeOK, StreamInv
<1>2. serverCommandSequence <= client'.reliableSent
  BY <1>1
<1>3. \A n \in 0 .. serverCommandSequence :
         SentText(firstSent', n) = SentText(firstSent, n)
  BY <1>1 DEF SentText
<1>4. HeldInv'
  BY <1>1, <1>3 DEF StreamInv, HeldInv, clientVars
<1>5. QED
  BY <1>1, <1>2, <1>4 DEF StreamInv, clientVars

\* A reliable unsent command goes out or survives.
Stays(cl, new) ==
    \A n \in Unsent(cl) : Pending(cl, n).reliable =>
        \/ n <= new.reliableSent
        \/ \E k \in Unsent(new) :
             /\ Pending(new, k).reliable
             /\ Supersedes(Pending(new, k).text, Pending(cl, n).text)
                  \/ Pending(new, k).text = Pending(cl, n).text

StepKeeps == IInv' /\ (intact' => Stays(client, client'))

LEMMA IssueStep ==
  ASSUME IInv, NEW cl, QueueType(cl, firstSent), SameCounts(cl, client),
         QueueInv(client, firstSent) /\ Backlog(cl) <= RingSize
           => QueueInv(cl, firstSent) /\ Survives(client, cl),
         configstrings' \in [Index -> Value], Issue(cl)
  PROVE  StepKeeps
<1>1. /\ StreamType /\ client' = cl /\ UNCHANGED clientVars
      /\ UNCHANGED <<map, firstSent, carried, toClient, toServer>>
      /\ intact' = (intact /\ Backlog(cl) <= RingSize)
  BY DEF IInv, Issue
<1>2. /\ map \in Nat /\ MessagesType(toClient) /\ PacketsType(toServer)
      /\ intact \in BOOLEAN /\ carried \in BOOLEAN
      /\ client.reliableSent \in Nat
  <2>1. client.reliableSent \in Nat
    BY <1>1, QueueFacts DEF StreamType
  <2>2. intact \in BOOLEAN /\ carried \in BOOLEAN
    BY <1>1 DEF StreamType, TypeOK
  <2>3. QED
    BY <1>1, <2>1, <2>2 DEF StreamType, TypeOK, MessagesType, PacketsType
<1>3. StreamType'
  <2>1. intact' \in BOOLEAN
    BY <1>1, <1>2
  <2>2. QED
    BY <1>1, <1>2, <2>1, ServerType
<1>4. ASSUME intact' PROVE StreamInv' /\ Survives(client, client')
  <2>1. intact /\ Backlog(cl) <= RingSize
    BY <1>1, <1>4
  <2>2. StreamInv /\ QueueInv(client, firstSent)
    BY <2>1 DEF IInv, StreamInv
  <2>3. QueueInv(client', firstSent') /\ Survives(client, client')
    BY <1>1, <2>1, <2>2
  <2>4. /\ client'.reliableAcknowledge = client.reliableAcknowledge
        /\ client'.reliableSent = client.reliableSent
    BY <1>1 DEF SameCounts
  <2>5. /\ client'.reliableAcknowledge <= serverCommandSequence
        /\ client.reliableSent <= client'.reliableSent
        /\ \A n \in 1 .. client.reliableSent : firstSent'[n] = firstSent[n]
        /\ ToClientInv(toClient', client'.reliableSent, firstSent',
                       serverCommandSequence)
        /\ ToServerInv(toServer', client'.reliableAcknowledge, firstSent',
                       serverCommandSequence)
    BY <1>1, <1>2, <2>2, <2>4 DEF StreamInv
  <2>6. StreamInv'
    BY <1>1, <2>2, <2>3, <2>5, ServerInv
  <2>7. QED
    BY <2>3, <2>6
<1>5. QED
  BY <1>3, <1>4 DEF IInv, StepKeeps, Survives, Stays

LEMMA SendServerCommandStep ==
  ASSUME IInv, NEW c \in Command, SendServerCommand(c)
  PROVE  StepKeeps
<1>1. c \in Text /\ QueueType(client, firstSent)
  BY DEF Text, IInv, StreamType
<1>2. configstrings' \in [Index -> Value] /\ Issue(Add(client, c))
  BY DEF SendServerCommand, IInv, StreamType, TypeOK
<1>3. QueueType(Add(client, c), firstSent) /\ SameCounts(Add(client, c), client)
  BY <1>1, AddType
<1>4. QueueInv(client, firstSent) /\ Backlog(Add(client, c)) <= RingSize
        => QueueInv(Add(client, c), firstSent) /\ Survives(client, Add(client, c))
  BY <1>1, AddKeeps
<1>5. QED
  BY <1>2, <1>3, <1>4, IssueStep

LEMMA SetConfigstringStep ==
  ASSUME IInv, NEW i \in Index, NEW v \in Value, SetConfigstring(i, v)
  PROVE  StepKeeps
<1> DEFINE c == ConfigCommand(i, v)
<1>1. c \in Text /\ QueueType(client, firstSent)
  BY DEF Text, IInv, StreamType
<1>2. configstrings' \in [Index -> Value]
  BY DEF SetConfigstring, IInv, StreamType, TypeOK
<1>3. Issue(Add(client, c)) \/ Issue(client)
  BY DEF SetConfigstring
<1> HIDE DEF c
<1>4. CASE Issue(Add(client, c))
  <2>1. QueueType(Add(client, c), firstSent) /\ SameCounts(Add(client, c), client)
    BY <1>1, AddType
  <2>2. QueueInv(client, firstSent) /\ Backlog(Add(client, c)) <= RingSize
          => QueueInv(Add(client, c), firstSent) /\ Survives(client, Add(client, c))
    BY <1>1, AddKeeps
  <2>3. QED
    BY <1>2, <1>4, <2>1, <2>2, IssueStep
<1>5. CASE Issue(client)
  <2>1. Survives(client, client) /\ SameCounts(client, client)
    BY StaysInPlace DEF SameCounts
  <2>2. QED
    BY <1>1, <1>2, <1>5, <2>1, IssueStep
<1>6. QED
  BY <1>3, <1>4, <1>5

LEMMA DisconnectStep ==
  ASSUME IInv, Disconnect
  PROVE  StepKeeps
<1>1. QueueType(client, firstSent)
  BY DEF IInv, StreamType
<1>2. configstrings' \in [Index -> Value] /\ Issue(DropClient(client))
  BY DEF Disconnect, IInv, StreamType, TypeOK
<1>3. QueueType(DropClient(client), firstSent)
      /\ SameCounts(DropClient(client), client)
  BY <1>1, DropType
<1>4. QueueInv(client, firstSent) /\ Backlog(DropClient(client)) <= RingSize
        => QueueInv(DropClient(client), firstSent)
           /\ Survives(client, DropClient(client))
  BY <1>1, DropKeeps
<1>5. QED
  BY <1>2, <1>3, <1>4, IssueStep

\* SV_SpawnServer
LEMMA SpawnServerStep ==
  ASSUME IInv, SpawnServer
  PROVE  StepKeeps
<1>1. StreamType /\ QueueType(client, firstSent)
  BY DEF IInv, StreamType
<1>2. client' \in ClientRecord /\ SameQueue(client', client)
  BY <1>1 DEF SpawnServer, QueueType, ClientRecord, SameQueue, SameCounts
<1>3. /\ UNCHANGED <<firstSent, intact, toClient, toServer>>
      /\ UNCHANGED clientVars
      /\ configstrings' \in [Index -> Value]
      /\ map' = map + 1
      /\ carried' = (carried \/ executed # client.reliableSequence)
  BY DEF SpawnServer
<1>4. /\ QueueType(client', firstSent') /\ Survives(client, client')
      /\ QueueInv(client, firstSent) => QueueInv(client', firstSent')
  BY <1>1, <1>2, <1>3, QueueKept
<1>5. /\ map \in Nat /\ MessagesType(toClient) /\ PacketsType(toServer)
      /\ intact \in BOOLEAN /\ carried \in BOOLEAN
      /\ client.reliableSent \in Nat
  <2>1. client.reliableSent \in Nat
    BY <1>1, QueueFacts
  <2>2. intact \in BOOLEAN /\ carried \in BOOLEAN
    BY <1>1 DEF StreamType, TypeOK
  <2>3. QED
    BY <1>1, <2>1, <2>2 DEF StreamType, TypeOK, MessagesType, PacketsType
<1>6. StreamType'
  <2>1. carried' \in BOOLEAN
    BY <1>3
  <2>2. map' \in Nat /\ intact' \in BOOLEAN
    BY <1>3, <1>5
  <2>3. QED
    BY <1>1, <1>3, <1>4, <1>5, <2>1, <2>2, ServerType
<1>7. ASSUME intact' PROVE StreamInv'
  <2>1. StreamInv
    BY <1>3, <1>7 DEF IInv
  <2>2. /\ client'.reliableAcknowledge = client.reliableAcknowledge
        /\ client'.reliableSent = client.reliableSent
    BY <1>2 DEF SameQueue, SameCounts
  <2>3. /\ QueueInv(client', firstSent')
        /\ client'.reliableAcknowledge <= serverCommandSequence
        /\ client.reliableSent <= client'.reliableSent
        /\ \A n \in 1 .. client.reliableSent : firstSent'[n] = firstSent[n]
        /\ ToClientInv(toClient', client'.reliableSent, firstSent',
                       serverCommandSequence)
        /\ ToServerInv(toServer', client'.reliableAcknowledge, firstSent',
                       serverCommandSequence)
    BY <1>3, <1>4, <1>5, <2>1, <2>2 DEF StreamInv
  <2>4. QED
    BY <1>1, <1>3, <1>4, <2>1, <2>3, ServerInv
<1>8. QED
  BY <1>4, <1>6, <1>7 DEF IInv, StepKeeps, Survives, Stays

-----------------------------------------------------------------------------
(* The server sends *)

\* The record that Transmit sends.
MessageOf(cl, kind, commands) ==
    [num |-> cl.outgoingSequence, kind |-> kind, commands |-> commands,
     map |-> map, sequence |-> cl.reliableSequence,
     configstrings |-> configstrings]

Kinds == {"commands", "snapshot", "gamestate", "truncated"}

\* The commands of a message are pending ones that were not acknowledged.
Carries(cl, commands) ==
    /\ DOMAIN commands \subseteq Unacknowledged(cl)
    /\ \A n \in DOMAIN commands : commands[n] = Pending(cl, n).text

\* SV_SendMessageToClient, with the drop that was deferred.
LEMMA Transmitted ==
  ASSUME NEW cl, NEW texts, QueueType(cl, texts), map \in Nat,
         MessagesType(toClient),
         NEW kind \in Kinds, NEW commands, Carries(cl, commands),
         Transmit(cl, kind, commands)
  PROVE  /\ QueueType(client', texts) /\ SameCounts(client', cl)
         /\ MessageType(MessageOf(cl, kind, commands))
         /\ toClient' = Send(toClient, MessageOf(cl, kind, commands))
         /\ MessagesType(toClient')
         /\ intact \in BOOLEAN => intact' \in BOOLEAN
         /\ intact' => intact
         /\ intact' /\ QueueInv(cl, texts) =>
               QueueInv(client', texts) /\ Survives(cl, client')
<1> DEFINE left == IF cl.deferredDrop THEN DropClient(cl) ELSE cl
           new == [left EXCEPT !.outgoingSequence = @ + 1]
           m == MessageOf(cl, kind, commands)
<1>1. /\ client' = new
      /\ intact' = (intact /\ Backlog(left) <= RingSize)
      /\ toClient' = Send(toClient, m)
  BY DEF Transmit, MessageOf
<1>2. QueueType(left, texts) /\ SameCounts(left, cl)
  <2>1. QueueType(DropClient(cl), texts) /\ SameCounts(DropClient(cl), cl)
    BY DropType
  <2>2. QED
    BY <2>1 DEF SameCounts
<1>3. QueueInv(cl, texts) /\ Backlog(left) <= RingSize
        => QueueInv(left, texts) /\ Survives(cl, left)
  <2>1. Survives(cl, cl)
    BY StaysInPlace
  <2>2. CASE cl.deferredDrop
    BY <2>2, DropKeeps
  <2>3. CASE ~cl.deferredDrop
    BY <2>1, <2>3
  <2>4. QED
    BY <2>2, <2>3
<1> HIDE DEF left
<1>4. new \in ClientRecord /\ SameQueue(new, left)
  <2>1. left \in ClientRecord
    BY <1>2 DEF QueueType
  <2>2. left.outgoingSequence + 1 \in Nat
    BY <2>1 DEF ClientRecord
  <2>3. new = [left EXCEPT !.outgoingSequence = left.outgoingSequence + 1]
    OBVIOUS
  <2>4. new \in ClientRecord
    BY <2>1, <2>2, <2>3 DEF ClientRecord
  <2>5. SameQueue(new, left)
    BY <2>1, <2>3 DEF ClientRecord, SameQueue, SameCounts
  <2>6. QED
    BY <2>4, <2>5
<1> HIDE DEF new
<1>5. /\ QueueType(new, texts)
      /\ QueueInv(left, texts) => QueueInv(new, texts)
  BY <1>2, <1>4, QueueKept
<1>6. SameCounts(new, cl)
  BY <1>2, <1>4 DEF SameQueue, SameCounts
<1>7. ASSUME Survives(cl, left) PROVE Survives(cl, new)
  BY <1>4, <1>7 DEF Survives, SameQueue, SameCounts, Unsent, Pending
<1>8. MessageType(m)
  <2>1. /\ cl.reliableSequence \in Nat /\ cl.reliableAcknowledge \in Nat
        /\ \A n \in Nat : Pending(cl, n).text \in Text
    BY QueueFacts DEF Entry
  <2>2. cl.outgoingSequence \in Nat
    BY DEF QueueType, ClientRecord
  <2>3. \A n \in DOMAIN commands : n \in 1 .. cl.reliableSequence
    BY <2>1 DEF Carries, Unacknowledged
  <2>4. \A n \in DOMAIN commands : commands[n] \in Text
    BY <2>1, <2>3 DEF Carries
  <2>5. QED
    BY <2>1, <2>2, <2>3, <2>4 DEF MessageType, MessageOf, Kinds
<1> HIDE DEF m
<1>9. MessagesType(toClient')
  BY <1>1, <1>8, MessagesSent
<1>10. /\ intact \in BOOLEAN => intact' \in BOOLEAN
       /\ intact' => intact /\ Backlog(left) <= RingSize
  BY <1>1
<1>11. QED
  BY <1>1, <1>3, <1>5, <1>6, <1>7, <1>8, <1>9, <1>10 DEF m

\* The commands of a message start after the last one acknowledged, without
\* gaps; a gamestate that fits has them all.
WithoutGaps(cl, kind, commands) ==
    /\ \A n \in DOMAIN commands :
          cl.reliableAcknowledge + 1 .. n \subseteq DOMAIN commands
    /\ kind = "gamestate" => DOMAIN commands = Unacknowledged(cl)

\* A message that goes out with everything the queue of cl holds.
LEMMA MarkedSend ==
  ASSUME StreamType, NEW cl, QueueType(cl, firstSent),
         NEW primed \in ClientRecord, SameQueue(primed, MarkSent(cl)),
         NEW kind \in Kinds, NEW commands, Carries(cl, commands),
         RecordSent(cl), Transmit(primed, kind, commands)
  PROVE  /\ QueueType(client', firstSent')
         /\ client'.reliableAcknowledge = cl.reliableAcknowledge
         /\ client'.reliableSent = cl.reliableSequence
         /\ \A n \in 1 .. cl.reliableSent : firstSent'[n] = firstSent[n]
         /\ MessagesType(toClient')
         /\ intact' \in BOOLEAN
         /\ intact' => intact
         /\ intact' /\ QueueInv(cl, firstSent) =>
               QueueInv(client', firstSent') /\ Stays(cl, client')
         /\ /\ QueueInv(cl, firstSent)
            /\ ToClientInv(toClient, cl.reliableSent, firstSent,
                           serverCommandSequence)
            /\ cl.reliableAcknowledge <= serverCommandSequence
            /\ serverCommandSequence <= cl.reliableSent
            /\ WithoutGaps(cl, kind, commands)
           => ToClientInv(toClient', client'.reliableSent, firstSent',
                          serverCommandSequence)
<1> DEFINE marked == MarkSent(cl)
           more == Recorded(cl, firstSent)
<1>1. /\ map \in Nat /\ MessagesType(toClient) /\ intact \in BOOLEAN
      /\ serverCommandSequence \in Nat
  <2>1. intact \in BOOLEAN
    BY DEF StreamType, TypeOK
  <2>2. QED
    BY <2>1 DEF StreamType, TypeOK, MessagesType
<1>2. firstSent' = more
  BY DEF RecordSent, Recorded
<1>3. /\ cl.reliableSent \in Nat /\ cl.reliableSequence \in Nat
      /\ cl.reliableAcknowledge \in Nat /\ cl.reliableSent <= cl.reliableSequence
  BY QueueFacts
<1>4. QueueType(marked, more)
  BY MarkedType
<1>5. /\ marked.reliableSent = cl.reliableSequence
      /\ marked.reliableSequence = cl.reliableSequence
      /\ marked.reliableAcknowledge = cl.reliableAcknowledge
      /\ marked.ring = cl.ring
  BY MarkedType
<1>6. \A n \in 1 .. cl.reliableSent : more[n] = firstSent[n]
  BY MarkedType
<1>7. ASSUME QueueInv(cl, firstSent)
      PROVE  /\ QueueInv(marked, more)
             /\ \A n \in Unacknowledged(cl) : Pending(cl, n).text = more[n]
  <2>1. QueueInv(marked, more)
    BY <1>7, MarkedKeeps
  <2>2. \A n \in Unacknowledged(cl) : Pending(cl, n).text = more[n]
    BY <1>7, MarkedKeeps
  <2>3. QED
    BY <2>1, <2>2
<1> HIDE DEF marked, more
<1>8. /\ QueueType(primed, more)
      /\ QueueInv(marked, more) => QueueInv(primed, more)
  <2>1. SameQueue(primed, marked)
    BY DEF marked
  <2>2. QED
    BY <1>4, <2>1, QueueKept
<1>9. /\ primed.ring = cl.ring
      /\ primed.reliableSequence = cl.reliableSequence
      /\ primed.reliableSent = cl.reliableSequence
      /\ primed.reliableAcknowledge = cl.reliableAcknowledge
  BY <1>5 DEF SameQueue, SameCounts, marked
<1>10. Carries(primed, commands)
  BY <1>9 DEF Carries, Unacknowledged, Pending
<1> DEFINE m == MessageOf(primed, kind, commands)
<1>11. /\ QueueType(client', more) /\ SameCounts(client', primed)
       /\ MessageType(m) /\ toClient' = Send(toClient, m)
       /\ MessagesType(toClient')
       /\ intact \in BOOLEAN => intact' \in BOOLEAN
       /\ intact' => intact
       /\ intact' /\ QueueInv(primed, more) =>
             QueueInv(client', more) /\ Survives(primed, client')
  BY <1>1, <1>8, <1>10, Transmitted
<1>12. /\ client'.reliableAcknowledge = cl.reliableAcknowledge
       /\ client'.reliableSent = cl.reliableSequence
  BY <1>9, <1>11 DEF SameCounts
<1>13. Stays(cl, client')
  BY <1>3, <1>12 DEF Stays, Unsent
<1>14. ASSUME QueueInv(cl, firstSent),
              ToClientInv(toClient, cl.reliableSent, firstSent,
                          serverCommandSequence),
              cl.reliableAcknowledge <= serverCommandSequence,
              serverCommandSequence <= cl.reliableSent,
              WithoutGaps(cl, kind, commands)
       PROVE  ToClientInv(toClient', cl.reliableSequence, more,
                          serverCommandSequence)
  <2> DEFINE last == cl.reliableSequence
  <2>1. ToClientInv(toClient, last, more, serverCommandSequence)
    BY <1>1, <1>3, <1>6, <1>14, ToClientGrown
  <2>2. /\ m.commands = commands /\ m.kind = kind /\ m.sequence = last
    BY <1>9 DEF MessageOf
  <2> HIDE DEF m
  <2>3. \A n \in Nat : serverCommandSequence + 1 .. n
                         \subseteq cl.reliableAcknowledge + 1 .. n
    BY <1>1, <1>3, <1>14
  <2>4. \A n \in DOMAIN commands : n \in Nat /\ n <= last /\ commands[n] = more[n]
    BY <1>3, <1>7, <1>14 DEF Carries, Unacknowledged
  <2>5. \A n \in DOMAIN commands :
           serverCommandSequence + 1 .. n \subseteq DOMAIN commands
    BY <2>3, <2>4, <1>14 DEF WithoutGaps
  <2>6. ASSUME kind = "gamestate"
        PROVE  serverCommandSequence + 1 .. last \subseteq DOMAIN commands
    BY <1>3, <1>14, <2>3, <2>6 DEF WithoutGaps, Unacknowledged
  <2>7. serverCommandSequence <= last
    BY <1>1, <1>3, <1>14
  <2>8. Continues(m, last, more, serverCommandSequence)
    BY <1>3, <2>2, <2>4, <2>5, <2>6, <2>7 DEF Continues
  <2>9. ToClientInv(Send(toClient, m), last, more, serverCommandSequence)
    <3>1. last \in Nat
      BY <1>3
    <3> HIDE DEF last
    <3>2. m.kind = "gamestate" => m.sequence = last
      BY <2>2
    <3>3. QED
      BY <1>1, <2>1, <2>8, <3>1, <3>2, ToClientSent
  <2>10. QED
    BY <1>11, <2>9
<1> HIDE DEF m
<1>15. /\ QueueType(client', firstSent') /\ MessagesType(toClient')
       /\ \A n \in 1 .. cl.reliableSent : firstSent'[n] = firstSent[n]
       /\ intact' \in BOOLEAN /\ (intact' => intact)
  <2>1. intact' \in BOOLEAN
    BY <1>1, <1>11
  <2>2. QED
    BY <1>2, <1>6, <1>11, <2>1
<1>16. intact' /\ QueueInv(cl, firstSent)
         => QueueInv(client', firstSent') /\ Stays(cl, client')
  BY <1>2, <1>7, <1>8, <1>11, <1>13
<1>17. /\ QueueInv(cl, firstSent)
       /\ ToClientInv(toClient, cl.reliableSent, firstSent,
                      serverCommandSequence)
       /\ cl.reliableAcknowledge <= serverCommandSequence
       /\ serverCommandSequence <= cl.reliableSent
       /\ WithoutGaps(cl, kind, commands)
      => ToClientInv(toClient', client'.reliableSent, firstSent',
                     serverCommandSequence)
  BY <1>2, <1>12, <1>14
<1>18. QED
  BY <1>12, <1>15, <1>16, <1>17

\* SV_UpdateServerCommandsToClient and its variant that prevents overflow
LEMMA RepeatedCarries ==
  ASSUME NEW cl, NEW texts, QueueType(cl, texts)
  PROVE  /\ Carries(cl, Repeated(cl)) /\ Carries(cl, Fitting(cl))
         /\ \A kind \in Kinds : WithoutGaps(cl, kind, Repeated(cl))
         /\ WithoutGaps(cl, "commands", Fitting(cl))
<1>1. cl.reliableSequence \in Nat /\ cl.reliableAcknowledge \in Nat
  BY QueueFacts
<1>2. Carries(cl, Repeated(cl)) /\ Carries(cl, Fitting(cl))
  BY DEF Carries, Repeated, Fitting
<1>3. \A kind \in Kinds : WithoutGaps(cl, kind, Repeated(cl))
  BY <1>1 DEF WithoutGaps, Repeated, Unacknowledged
<1>4. WithoutGaps(cl, "commands", Fitting(cl))
  BY <1>1 DEF WithoutGaps, Fitting, Unacknowledged
<1>5. QED
  BY <1>2, <1>3, <1>4

\* A step that sends everything in the queue; the packet that caused it, if
\* any, is what cl acknowledges.
LEMMA SentStep ==
  ASSUME IInv, NEW cl, QueueType(cl, firstSent),
         cl.reliableSent = client.reliableSent, cl.ring = client.ring,
         cl.reliableSequence = client.reliableSequence,
         PacketsType(toServer'),
         intact => /\ QueueInv(cl, firstSent)
                   /\ cl.reliableAcknowledge <= serverCommandSequence
                   /\ ToServerInv(toServer', cl.reliableAcknowledge, firstSent,
                                  serverCommandSequence),
         UNCHANGED clientVars, UNCHANGED <<map, configstrings, carried>>,
         NEW primed \in ClientRecord, SameQueue(primed, MarkSent(cl)),
         NEW kind \in Kinds, NEW commands, Carries(cl, commands),
         WithoutGaps(cl, kind, commands),
         RecordSent(cl), Transmit(primed, kind, commands)
  PROVE  StepKeeps
<1>1. /\ StreamType /\ map \in Nat /\ configstrings \in [Index -> Value]
      /\ carried \in BOOLEAN /\ serverCommandSequence \in Nat
  <2>1. carried \in BOOLEAN
    BY DEF IInv, StreamType, TypeOK
  <2>2. QED
    BY <2>1 DEF IInv, StreamType, TypeOK
<1>2. /\ cl.reliableSent \in Nat /\ cl.reliableSequence \in Nat
      /\ cl.reliableSent <= cl.reliableSequence
  BY QueueFacts
<1>3. /\ QueueType(client', firstSent')
      /\ client'.reliableAcknowledge = cl.reliableAcknowledge
      /\ client'.reliableSent = cl.reliableSequence
      /\ \A n \in 1 .. cl.reliableSent : firstSent'[n] = firstSent[n]
      /\ MessagesType(toClient')
      /\ intact' \in BOOLEAN
      /\ intact' => intact
  BY <1>1, MarkedSend
<1>4. intact' /\ QueueInv(cl, firstSent)
        => QueueInv(client', firstSent') /\ Stays(cl, client')
  BY <1>1, MarkedSend
<1>5. StreamType'
  <2>1. carried' \in BOOLEAN
    BY <1>1
  <2>2. map' \in Nat /\ configstrings' \in [Index -> Value]
    BY <1>1
  <2>3. intact' \in BOOLEAN
    BY <1>3
  <2>4. QED
    BY <1>1, <1>3, <2>1, <2>2, <2>3, ServerType
<1>6. ASSUME intact' PROVE StreamInv' /\ Stays(client, client')
  <2>1. StreamInv /\ intact
    BY <1>3, <1>6 DEF IInv
  <2>2. /\ QueueInv(cl, firstSent)
        /\ cl.reliableAcknowledge <= serverCommandSequence
        /\ serverCommandSequence <= cl.reliableSent
        /\ ToClientInv(toClient, cl.reliableSent, firstSent,
                       serverCommandSequence)
        /\ ToServerInv(toServer', cl.reliableAcknowledge, firstSent,
                       serverCommandSequence)
    BY <2>1 DEF StreamInv
  <2>3. QueueInv(client', firstSent') /\ Stays(cl, client')
    BY <1>4, <1>6, <2>2
  <2>4. ToClientInv(toClient', client'.reliableSent, firstSent',
                    serverCommandSequence)
    BY <1>1, <2>2, MarkedSend
  <2>5. \A n \in 1 .. serverCommandSequence : firstSent'[n] = firstSent[n]
    BY <1>1, <1>2, <1>3, <2>2
  <2>6. ToServerInv(toServer', client'.reliableAcknowledge, firstSent',
                    serverCommandSequence)
    <3>1. serverCommandSequence <= serverCommandSequence
      BY <1>1
    <3>2. ToServerInv(toServer', cl.reliableAcknowledge, firstSent',
                      serverCommandSequence)
      BY <1>1, <2>2, <2>5, <3>1, ToServerGrown
    <3>3. QED
      BY <1>3, <3>2
  <2>7. /\ client'.reliableAcknowledge <= serverCommandSequence
        /\ client.reliableSent <= client'.reliableSent
        /\ \A n \in 1 .. client.reliableSent : firstSent'[n] = firstSent[n]
    BY <1>2, <1>3, <2>2
  <2>8. StreamInv'
    BY <1>1, <1>3, <2>1, <2>3, <2>4, <2>6, <2>7, ServerInv
  <2>9. Stays(client, client')
    BY <2>3 DEF Stays, Unsent, Pending
  <2>10. QED
    BY <2>8, <2>9
<1>7. QED
  BY <1>5, <1>6 DEF IInv, StepKeeps

\* SV_SendClientSnapshot to a client that is not in the game
LEMMA EmptyMessageStep ==
  ASSUME IInv, Transmit(client, "commands", <<>>),
         UNCHANGED <<firstSent, map, configstrings, carried, toServer>>,
         UNCHANGED clientVars
  PROVE  StepKeeps
<1>1. /\ StreamType /\ QueueType(client, firstSent) /\ map \in Nat
      /\ configstrings \in [Index -> Value]
      /\ MessagesType(toClient) /\ PacketsType(toServer)
      /\ carried \in BOOLEAN /\ intact \in BOOLEAN
      /\ client.reliableSent \in Nat
  <2>1. carried \in BOOLEAN /\ intact \in BOOLEAN
    BY DEF IInv, StreamType, TypeOK
  <2>2. StreamType /\ QueueType(client, firstSent)
    BY DEF IInv, StreamType
  <2>3. client.reliableSent \in Nat
    BY <2>2, QueueFacts
  <2>4. QED
    BY <2>1, <2>2, <2>3 DEF StreamType, TypeOK, MessagesType, PacketsType
<1>2. Carries(client, <<>>) /\ "commands" \in Kinds
  BY DEF Carries, Kinds
<1> DEFINE m == MessageOf(client, "commands", <<>>)
<1>3. /\ QueueType(client', firstSent) /\ SameCounts(client', client)
      /\ toClient' = Send(toClient, m) /\ MessagesType(toClient')
      /\ MessageType(m)
      /\ intact \in BOOLEAN => intact' \in BOOLEAN
      /\ intact' => intact
      /\ intact' /\ QueueInv(client, firstSent) =>
            QueueInv(client', firstSent) /\ Survives(client, client')
  BY <1>1, <1>2, Transmitted
<1>4. StreamType'
  <2>1. carried' \in BOOLEAN /\ intact' \in BOOLEAN
    BY <1>1, <1>3
  <2>2. map' \in Nat /\ configstrings' \in [Index -> Value]
    BY <1>1
  <2>3. QueueType(client', firstSent') /\ PacketsType(toServer')
    BY <1>1, <1>3
  <2>4. QED
    BY <1>1, <1>3, <2>1, <2>2, <2>3, ServerType
<1>5. ASSUME intact' PROVE StreamInv' /\ Survives(client, client')
  <2>1. StreamInv /\ QueueInv(client, firstSent)
    BY <1>3, <1>5 DEF IInv, StreamInv
  <2>2. QueueInv(client', firstSent') /\ Survives(client, client')
    BY <1>3, <1>5, <2>1
  <2>3. m.kind = "commands" /\ DOMAIN m.commands = {}
    BY DEF MessageOf
  <2> HIDE DEF m
  <2>4. Continues(m, client.reliableSent, firstSent, serverCommandSequence)
    BY <2>3 DEF Continues
  <2>5. ToClientInv(toClient', client.reliableSent, firstSent,
                    serverCommandSequence)
    <3>1. ToClientInv(toClient, client.reliableSent, firstSent,
                      serverCommandSequence)
      BY <2>1 DEF StreamInv
    <3>2. m.kind = "gamestate" => m.sequence = client.reliableSent
      BY <2>3
    <3>3. ToClientInv(Send(toClient, m), client.reliableSent, firstSent,
                      serverCommandSequence)
      BY <1>1, <2>4, <3>1, <3>2, ToClientSent
    <3>4. QED
      BY <1>3, <3>3
  <2>6. /\ client'.reliableAcknowledge = client.reliableAcknowledge
        /\ client'.reliableSent = client.reliableSent
    BY <1>3 DEF SameCounts
  <2>7. /\ client'.reliableAcknowledge <= serverCommandSequence
        /\ client.reliableSent <= client'.reliableSent
        /\ \A n \in 1 .. client.reliableSent : firstSent'[n] = firstSent[n]
        /\ ToClientInv(toClient', client'.reliableSent, firstSent',
                       serverCommandSequence)
        /\ ToServerInv(toServer', client'.reliableAcknowledge, firstSent',
                       serverCommandSequence)
    BY <1>1, <2>1, <2>5, <2>6 DEF StreamInv
  <2>8. QueueType(client', firstSent')
    BY <1>3
  <2>9. StreamInv'
    BY <1>1, <2>1, <2>2, <2>7, <2>8, ServerInv
  <2>10. QED
    BY <2>2, <2>9
<1>6. QED
  BY <1>4, <1>5 DEF IInv, StepKeeps, Survives, Stays

LEMMA SendClientSnapshotStep ==
  ASSUME IInv, SendClientSnapshot
  PROVE  StepKeeps
<1>1. /\ StreamType /\ QueueType(client, firstSent) /\ PacketsType(toServer)
  BY DEF IInv, StreamType, PacketsType
<1>2. UNCHANGED <<map, configstrings, carried, toServer>> /\ UNCHANGED clientVars
  BY DEF SendClientSnapshot
<1>3. /\ MarkSent(client) \in ClientRecord
      /\ SameQueue(MarkSent(client), MarkSent(client))
  <2>1. QueueType(MarkSent(client), Recorded(client, firstSent))
    BY <1>1, MarkedType
  <2>2. QED
    BY <2>1 DEF QueueType, SameQueue, SameCounts
<1>4. intact => /\ QueueInv(client, firstSent)
                /\ client.reliableAcknowledge <= serverCommandSequence
                /\ ToServerInv(toServer', client.reliableAcknowledge, firstSent,
                               serverCommandSequence)
  BY <1>2 DEF IInv, StreamInv
<1>5. PacketsType(toServer')
  BY <1>1, <1>2
<1>6. /\ "commands" \in Kinds /\ "snapshot" \in Kinds
      /\ Carries(client, Repeated(client)) /\ Carries(client, Fitting(client))
      /\ WithoutGaps(client, "snapshot", Repeated(client))
      /\ WithoutGaps(client, "commands", Fitting(client))
  BY <1>1, RepeatedCarries DEF Kinds
<1>7. CASE RecordSent(client)
           /\ Transmit(MarkSent(client), "snapshot", Repeated(client))
  BY <1>1, <1>2, <1>3, <1>4, <1>5, <1>6, <1>7, SentStep
<1>8. CASE RecordSent(client)
           /\ Transmit(MarkSent(client), "commands", Fitting(client))
  BY <1>1, <1>2, <1>3, <1>4, <1>5, <1>6, <1>8, SentStep
<1>9. CASE Transmit(client, "commands", <<>>) /\ UNCHANGED firstSent
  BY <1>2, <1>9, EmptyMessageStep
<1>10. QED
  BY <1>7, <1>8, <1>9 DEF SendClientSnapshot

-----------------------------------------------------------------------------
(* The server receives *)

\* SV_SendClientGameState
LEMMA GameStateStep ==
  ASSUME IInv, NEW cl, QueueType(cl, firstSent),
         cl.reliableSent = client.reliableSent, cl.ring = client.ring,
         cl.reliableSequence = client.reliableSequence,
         PacketsType(toServer'),
         intact => /\ QueueInv(cl, firstSent)
                   /\ cl.reliableAcknowledge <= serverCommandSequence
                   /\ ToServerInv(toServer', cl.reliableAcknowledge, firstSent,
                                  serverCommandSequence),
         UNCHANGED clientVars, UNCHANGED <<map, configstrings, carried>>,
         SendClientGameState(cl)
  PROVE  StepKeeps
<1> DEFINE primed == [MarkSent(cl) EXCEPT
                        !.state = "PRIMED",
                        !.gamestateMessageNum = cl.outgoingSequence]
<1>1. primed \in ClientRecord /\ SameQueue(primed, MarkSent(cl))
  <2>1. QueueType(MarkSent(cl), Recorded(cl, firstSent))
    BY MarkedType
  <2>2. MarkSent(cl) \in ClientRecord
    BY <2>1 DEF QueueType
  <2>3. cl.outgoingSequence \in Nat /\ cl.outgoingSequence \in Int
    BY DEF QueueType, ClientRecord
  <2>4. primed \in ClientRecord
    BY <2>2, <2>3 DEF ClientRecord
  <2>5. SameQueue(primed, MarkSent(cl))
    BY <2>2 DEF ClientRecord, SameQueue, SameCounts
  <2>6. QED
    BY <2>4, <2>5
<1>2. /\ RecordSent(cl)
      /\ \/ Transmit(primed, "gamestate", Repeated(cl))
         \/ Transmit(primed, "truncated", Repeated(cl))
  BY DEF SendClientGameState
<1> HIDE DEF primed
<1>3. /\ "gamestate" \in Kinds /\ "truncated" \in Kinds
      /\ Carries(cl, Repeated(cl))
      /\ WithoutGaps(cl, "gamestate", Repeated(cl))
      /\ WithoutGaps(cl, "truncated", Repeated(cl))
  BY RepeatedCarries DEF Kinds
<1>4. CASE Transmit(primed, "gamestate", Repeated(cl))
  BY <1>1, <1>2, <1>3, <1>4, SentStep
<1>5. CASE Transmit(primed, "truncated", Repeated(cl))
  BY <1>1, <1>2, <1>3, <1>5, SentStep
<1>6. QED
  BY <1>2, <1>4, <1>5

\* SV_UserMove, or a packet that only acknowledges
LEMMA MoveStep ==
  ASSUME IInv, NEW cl, QueueType(cl, firstSent),
         cl.reliableSent = client.reliableSent, cl.ring = client.ring,
         cl.reliableSequence = client.reliableSequence,
         PacketsType(toServer'),
         intact => /\ QueueInv(cl, firstSent)
                   /\ cl.reliableAcknowledge <= serverCommandSequence
                   /\ ToServerInv(toServer', cl.reliableAcknowledge, firstSent,
                                  serverCommandSequence),
         UNCHANGED clientVars, UNCHANGED <<map, configstrings, carried>>,
         client' = cl \/ client' = UserMove(cl),
         UNCHANGED <<firstSent, intact, toClient>>
  PROVE  StepKeeps
<1>1. /\ StreamType /\ map \in Nat /\ configstrings \in [Index -> Value]
      /\ MessagesType(toClient) /\ carried \in BOOLEAN /\ intact \in BOOLEAN
  <2>1. carried \in BOOLEAN /\ intact \in BOOLEAN
    BY DEF IInv, StreamType, TypeOK
  <2>2. QED
    BY <2>1 DEF IInv, StreamType, TypeOK, MessagesType
<1>2. client' \in ClientRecord /\ SameQueue(client', cl)
  <2>1. cl \in ClientRecord
    BY DEF QueueType
  <2>2. UserMove(cl) \in ClientRecord /\ SameQueue(UserMove(cl), cl)
    BY <2>1 DEF UserMove, ClientRecord, SameQueue, SameCounts
  <2>3. QED
    BY <2>1, <2>2 DEF SameQueue, SameCounts
<1>3. /\ QueueType(client', firstSent) /\ Survives(cl, client')
      /\ QueueInv(cl, firstSent) => QueueInv(client', firstSent)
  BY <1>2, QueueKept
<1>4. /\ client'.reliableAcknowledge = cl.reliableAcknowledge
      /\ client'.reliableSent = client.reliableSent
      /\ client.reliableSent \in Nat
  <2>1. cl.reliableSent \in Nat
    BY QueueFacts
  <2>2. QED
    BY <1>2, <2>1 DEF SameQueue, SameCounts
<1>5. StreamType'
  <2>1. carried' \in BOOLEAN /\ intact' \in BOOLEAN
    BY <1>1
  <2>2. map' \in Nat /\ configstrings' \in [Index -> Value]
    BY <1>1
  <2>3. QueueType(client', firstSent') /\ MessagesType(toClient')
    BY <1>1, <1>3
  <2>4. QED
    BY <1>1, <2>1, <2>2, <2>3, ServerType
<1>6. ASSUME intact' PROVE StreamInv'
  <2>1. StreamInv /\ intact
    BY <1>6 DEF IInv
  <2>2. /\ QueueInv(client', firstSent')
        /\ QueueType(client', firstSent')
        /\ client'.reliableAcknowledge <= serverCommandSequence
        /\ client.reliableSent <= client'.reliableSent
        /\ \A n \in 1 .. client.reliableSent : firstSent'[n] = firstSent[n]
        /\ ToClientInv(toClient', client'.reliableSent, firstSent',
                       serverCommandSequence)
        /\ ToServerInv(toServer', client'.reliableAcknowledge, firstSent',
                       serverCommandSequence)
    BY <1>3, <1>4, <2>1 DEF StreamInv
  <2>3. QED
    BY <1>1, <2>1, <2>2, ServerInv
<1>7. Stays(client, client')
  BY <1>3 DEF Survives, Stays, Unsent, Pending
<1>8. QED
  BY <1>5, <1>6, <1>7 DEF IInv, StepKeeps

LEMMA ReceiveFromClientStep ==
  ASSUME IInv, NEW i \in 1 .. Len(toServer), ReceiveFromClient(i)
  PROVE  StepKeeps
<1> DEFINE m == toServer[i]
           cl == [client EXCEPT !.reliableAcknowledge = m.reliableAcknowledge]
<1>1. /\ StreamType /\ QueueType(client, firstSent) /\ PacketsType(toServer)
      /\ m.reliableAcknowledge \in Nat
  BY DEF IInv, StreamType, PacketsType, PacketType
<1>2. /\ toServer' = After(toServer, i) /\ UNCHANGED clientVars
      /\ UNCHANGED <<map, configstrings, carried>>
  BY DEF ReceiveFromClient
<1>3. PacketsType(toServer')
  BY <1>1, <1>2, PacketsReceived
<1>4. /\ QueueType(cl, firstSent) /\ cl.ring = client.ring
      /\ cl.reliableSequence = client.reliableSequence
      /\ cl.reliableSent = client.reliableSent
      /\ cl.reliableAcknowledge = m.reliableAcknowledge
  BY <1>1, AcknowledgedKeeps
<1>5. QueueInv(client, firstSent)
        /\ m.reliableAcknowledge >= client.reliableAcknowledge
        /\ m.reliableAcknowledge <= client.reliableSent
        => QueueInv(cl, firstSent)
  BY <1>1, AcknowledgedKeeps
<1>6. ASSUME intact
      PROVE  /\ QueueInv(cl, firstSent)
             /\ cl.reliableAcknowledge <= serverCommandSequence
             /\ ToServerInv(toServer', cl.reliableAcknowledge, firstSent,
                            serverCommandSequence)
  <2>1. StreamInv /\ QueueInv(client, firstSent)
    BY <1>6 DEF IInv, StreamInv
  <2>2. ToServerInv(toServer, client.reliableAcknowledge, firstSent,
                    serverCommandSequence)
    BY <2>1 DEF StreamInv
  <2>3. /\ client.reliableAcknowledge <= m.reliableAcknowledge
        /\ m.reliableAcknowledge <= serverCommandSequence
    BY <2>2 DEF ToServerInv
  <2>4. /\ client.reliableAcknowledge \in Nat /\ client.reliableSent \in Nat
        /\ serverCommandSequence \in Nat
        /\ serverCommandSequence <= client.reliableSent
    <3>1. client.reliableAcknowledge \in Nat /\ client.reliableSent \in Nat
      BY <1>1, QueueFacts
    <3>2. QED
      BY <1>1, <2>1, <3>1 DEF StreamType, TypeOK, StreamInv
  <2>5. QueueInv(cl, firstSent)
    BY <1>1, <1>5, <2>1, <2>3, <2>4
  <2>6. ToServerInv(After(toServer, i), m.reliableAcknowledge, firstSent,
                    serverCommandSequence)
    BY <1>1, <2>2, ToServerReceived
  <2>7. QED
    BY <1>2, <1>4, <2>3, <2>5, <2>6
<1>7. \/ Execute(cl, m)
      \/ /\ client' = [client EXCEPT !.reliableAcknowledge = @ + Backlog(client)]
         /\ intact' = FALSE
         /\ UNCHANGED <<firstSent, toClient>>
  BY DEF ReceiveFromClient
<1> HIDE DEF cl, m
<1>8. CASE Execute(cl, m)
  <2>1. \/ SendClientGameState(cl)
        \/ /\ client' = cl \/ client' = UserMove(cl)
           /\ UNCHANGED <<firstSent, intact, toClient>>
    BY <1>8 DEF Execute
  <2>2. CASE SendClientGameState(cl)
    BY <1>2, <1>3, <1>4, <1>6, <2>2, GameStateStep
  <2>3. CASE /\ client' = cl \/ client' = UserMove(cl)
             /\ UNCHANGED <<firstSent, intact, toClient>>
    BY <1>2, <1>3, <1>4, <1>6, <2>3, MoveStep
  <2>4. QED
    BY <2>1, <2>2, <2>3
<1>9. CASE /\ client' = [client EXCEPT !.reliableAcknowledge = @ + Backlog(client)]
           /\ intact' = FALSE
           /\ UNCHANGED <<firstSent, toClient>>
  <2>1. /\ client.reliableAcknowledge \in Nat /\ client.reliableSequence \in Nat
    BY <1>1, QueueFacts
  <2> DEFINE n == client.reliableSequence
  <2>2. client' = [client EXCEPT !.reliableAcknowledge = n]
    <3>1. client.reliableAcknowledge + Backlog(client) = n
      BY <2>1 DEF Backlog
    <3>2. QED
      BY <1>9, <3>1
  <2>3. n \in Nat
    BY <2>1
  <2> HIDE DEF n
  <2>4. QueueType(client', firstSent)
    BY <1>1, <2>2, <2>3, AcknowledgedKeeps
  <2>5. carried \in BOOLEAN
    BY <1>1 DEF StreamType, TypeOK
  <2>6. /\ map' \in Nat /\ configstrings' \in [Index -> Value]
        /\ MessagesType(toClient') /\ QueueType(client', firstSent')
    BY <1>1, <1>2, <1>9, <2>4 DEF StreamType, TypeOK, MessagesType
  <2>7. StreamType'
    <3>1. carried' \in BOOLEAN
      BY <1>2, <2>5
    <3>2. intact' \in BOOLEAN
      BY <1>9
    <3>3. QED
      BY <1>1, <1>2, <1>3, <2>6, <3>1, <3>2, ServerType
  <2>8. QED
    BY <1>9, <2>7 DEF IInv, StepKeeps
<1>10. QED
  BY <1>7, <1>8, <1>9

-----------------------------------------------------------------------------
(* Steps of the client *)

LEMMA ClientStep ==
  ASSUME IInv, UNCHANGED serverVars,
         MessagesType(toClient'), PacketsType(toServer'),
         serverId' \in Nat, serverMessageSequence' \in Nat,
         serverCommandSequence' \in Nat, serverCommands' \in [Slots -> Text],
         snapshot' \in Nat, executed' \in Nat,
         intact => /\ serverCommandSequence <= serverCommandSequence'
                   /\ serverCommandSequence' <= client.reliableSent
                   /\ executed' <= serverCommandSequence'
                   /\ snapshot' <= serverCommandSequence'
                   /\ ToClientInv(toClient', client.reliableSent, firstSent,
                                  serverCommandSequence')
                   /\ ToServerInv(toServer', client.reliableAcknowledge,
                                  firstSent, serverCommandSequence')
                   /\ HeldInv'
  PROVE  StepKeeps
<1>1. StreamType /\ client' = client /\ firstSent' = firstSent
      /\ intact' = intact /\ carried' = carried /\ map' = map
      /\ configstrings' = configstrings
  BY DEF IInv, serverVars, historyVars
<1>2. TypeOK'
  <2>1. {intact', carried'} \subseteq BOOLEAN
    BY <1>1 DEF StreamType, TypeOK
  <2>2. firstSent' \in Seq(Text)
    BY <1>1 DEF StreamType, TypeOK
  <2>3. QED
    BY <1>1, <2>1, <2>2 DEF StreamType, TypeOK
<1>3. StreamType'
  <2>1. QueueType(client', firstSent')
    BY <1>1 DEF StreamType
  <2>2. QED
    BY <1>2, <2>1 DEF StreamType, MessagesType, PacketsType
<1>4. ASSUME intact' PROVE StreamInv'
  <2>1. StreamInv /\ intact
    BY <1>1, <1>4 DEF IInv
  <2>2. QueueInv(client', firstSent')
    BY <1>1, <2>1 DEF StreamInv
  <2>3. client.reliableAcknowledge <= serverCommandSequence'
    <3>1. /\ client.reliableAcknowledge \in Nat /\ serverCommandSequence \in Nat
          /\ client.reliableAcknowledge <= serverCommandSequence
      <4>1. client.reliableAcknowledge \in Nat
        BY <1>1, QueueFacts DEF StreamType
      <4>2. QED
        BY <1>1, <2>1, <4>1 DEF StreamType, TypeOK, StreamInv
    <3>2. QED
      BY <2>1, <3>1
  <2>4. QED
    BY <1>1, <2>1, <2>2, <2>3 DEF StreamInv
<1>5. Stays(client, client')
  <2>1. Survives(client, client')
    BY <1>1, StaysInPlace
  <2>2. QED
    BY <2>1 DEF Survives, Stays
<1>6. QED
  BY <1>3, <1>4, <1>5 DEF IInv, StepKeeps

\* CL_ParseCommandString: what a message has for the client.
LEMMA NewsFacts ==
  ASSUME StreamType, NEW m, MessageType(m)
  PROVE  /\ News(m) \subseteq 0 .. m.sequence
         /\ m.sequence \in Nat
         /\ Stored(m) \in [Slots -> Text]
         /\ Newest(m) \in Nat /\ serverCommandSequence <= Newest(m)
         /\ \A n \in DOMAIN m.commands : n <= Newest(m)
         /\ \/ Newest(m) = serverCommandSequence
            \/ Newest(m) \in DOMAIN m.commands
<1>1. /\ m.sequence \in Nat /\ serverCommandSequence \in Nat
      /\ serverCommands \in [Slots -> Text]
      /\ \A n \in DOMAIN m.commands : n \in 1 .. m.sequence /\ m.commands[n] \in Text
  BY DEF StreamType, TypeOK, MessageType
<1>2. \A n \in News(m) : /\ n \in DOMAIN m.commands /\ n \in 0 .. m.sequence
                         /\ n > serverCommandSequence
  BY <1>1 DEF News
<1>3. Stored(m) \in [Slots -> Text]
  <2> SUFFICES ASSUME NEW s \in Slots
               PROVE  Stored(m)[s] \in Text
    BY DEF Stored
  <2> DEFINE here == {n \in News(m) : Slot(n) = s}
  <2>1. Stored(m)[s] =
          IF here = {} THEN serverCommands[s] ELSE m.commands[Max(here)]
    BY DEF Stored
  <2>2. here \in SUBSET (0 .. m.sequence) /\ \A n \in here : n \in DOMAIN m.commands
    BY <1>2
  <2> HIDE DEF here
  <2>3. here # {} => Max(here) \in here
    BY <1>1, <2>2, MaxType
  <2>4. QED
    BY <1>1, <2>1, <2>2, <2>3
<1>4. CASE News(m) = {}
  <2>1. Newest(m) = serverCommandSequence
    BY <1>4 DEF Newest
  <2>2. \A n \in DOMAIN m.commands : n <= serverCommandSequence
    BY <1>1, <1>4 DEF News
  <2>3. QED
    BY <1>1, <1>2, <1>3, <2>1, <2>2
<1>5. CASE News(m) # {}
  <2> DEFINE k == Newest(m)
  <2>1. k = Max(News(m))
    BY <1>5 DEF Newest
  <2>2. News(m) \in SUBSET (0 .. m.sequence)
    BY <1>2
  <2>3. Max(News(m)) \in News(m) /\ \A n \in News(m) : Max(News(m)) >= n
    BY <1>1, <1>5, <2>2, MaxType
  <2>4. k \in News(m) /\ \A n \in News(m) : k >= n
    BY <2>1, <2>3
  <2> HIDE DEF k
  <2>5. /\ k \in Nat /\ serverCommandSequence <= k /\ k \in DOMAIN m.commands
    BY <1>1, <1>2, <2>4
  <2>6. ASSUME NEW n \in DOMAIN m.commands PROVE n <= k
    <3>1. CASE n > serverCommandSequence
      <4>1. k >= n /\ n \in Nat
        BY <1>1, <2>4, <3>1 DEF News
      <4>2. QED
        BY <2>5, <4>1
    <3>2. CASE ~(n > serverCommandSequence)
      BY <1>1, <2>5, <3>2
    <3>3. QED
      BY <3>1, <3>2
  <2>7. QED
    BY <1>1, <1>2, <1>3, <2>5, <2>6 DEF k
<1>6. QED
  BY <1>4, <1>5

LEMMA ReceiveFromServerStep ==
  ASSUME IInv, NEW i \in 1 .. Len(toClient), ReceiveFromServer(i)
  PROVE  StepKeeps
<1> DEFINE m == toClient[i]
           old == serverCommandSequence
           new == serverCommandSequence'
           sent == client.reliableSent
<1>1. /\ StreamType /\ MessagesType(toClient) /\ PacketsType(toServer)
      /\ MessageType(m)
  BY DEF IInv, StreamType, MessagesType, PacketsType
<1>2. /\ toClient' = After(toClient, i)
      /\ serverMessageSequence' = m.num
      /\ serverCommands' = Stored(m)
      /\ UNCHANGED serverVars /\ UNCHANGED <<toServer, executed>>
      /\ failure = "none"
      /\ \/ ParseCommands(m) \/ ParseSnapshot(m)
         \/ ParseGamestate(m) \/ ParseTruncated(m)
  BY DEF ReceiveFromServer
<1>3. MessagesType(toClient') /\ PacketsType(toServer')
  <2>1. MessagesType(toClient')
    BY <1>1, <1>2, MessagesReceived
  <2>2. QED
    BY <1>1, <1>2, <2>1
<1>4. /\ m.sequence \in Nat /\ m.num \in Nat /\ m.map \in Nat
      /\ Stored(m) \in [Slots -> Text]
      /\ Newest(m) \in Nat /\ old <= Newest(m)
      /\ \A n \in DOMAIN m.commands : n <= Newest(m)
      /\ Newest(m) = old \/ Newest(m) \in DOMAIN m.commands
  BY <1>1, NewsFacts DEF MessageType
<1>5. /\ serverId \in Nat /\ old \in Nat /\ snapshot \in Nat /\ executed \in Nat
      /\ sent \in Nat
  <2>1. sent \in Nat
    BY <1>1, QueueFacts DEF StreamType
  <2>2. QED
    BY <1>1, <2>1 DEF StreamType, TypeOK
<1> HIDE DEF m, old, sent
<1>6. /\ new = Newest(m) \/ (m.kind = "gamestate" /\ new = m.sequence)
           \/ (m.kind = "truncated" /\ new = old)
      /\ serverId' \in Nat /\ new \in Nat /\ snapshot' \in Nat
      /\ snapshot' \in {0, snapshot, new}
      /\ failure' = IF m.kind = "truncated" THEN "bad gamestate" ELSE "none"
  <2>1. CASE ParseCommands(m)
    BY <1>2, <1>4, <1>5, <2>1 DEF ParseCommands
  <2>2. CASE ParseSnapshot(m)
    BY <1>2, <1>4, <1>5, <2>2 DEF ParseSnapshot
  <2>3. CASE ParseGamestate(m)
    BY <1>2, <1>4, <1>5, <2>3 DEF ParseGamestate
  <2>4. CASE ParseTruncated(m)
    BY <1>2, <1>4, <1>5, <2>4 DEF ParseTruncated, old
  <2>5. QED
    BY <1>2, <2>1, <2>2, <2>3, <2>4
<1> HIDE DEF new
<1>7. ASSUME intact
      PROVE  /\ old <= new /\ new <= sent
             /\ executed' <= new /\ snapshot' <= new
             /\ ToClientInv(toClient', sent, firstSent, new)
             /\ ToServerInv(toServer', client.reliableAcknowledge, firstSent, new)
             /\ HeldInv'
  <2>1. /\ StreamInv
        /\ ToClientInv(toClient, sent, firstSent, old)
        /\ ToServerInv(toServer, client.reliableAcknowledge, firstSent, old)
        /\ old <= sent /\ executed <= old /\ snapshot <= old
    BY <1>7 DEF IInv, StreamInv, old, sent
  <2>2. Continues(m, sent, firstSent, old)
    BY <2>1 DEF ToClientInv, m
  <2>3. /\ old <= new /\ new <= sent
        /\ \/ new = old
           \/ new \in DOMAIN m.commands
           \/ m.kind = "gamestate" /\ new = m.sequence
    <3>1. CASE new = Newest(m)
      BY <1>4, <2>1, <2>2, <3>1 DEF Continues
    <3>2. CASE m.kind = "gamestate" /\ new = m.sequence
      BY <2>2, <3>2 DEF Continues
    <3>3. CASE m.kind = "truncated" /\ new = old
      BY <1>5, <2>1, <3>3
    <3>4. QED
      BY <1>6, <3>1, <3>2, <3>3
  <2>4. executed' <= new /\ snapshot' <= new
    <3>1. executed' = executed
      BY <1>2
    <3>2. executed <= new /\ snapshot <= new /\ 0 <= new /\ new <= new
      <4>1. new \in Nat /\ old <= new
        BY <1>6, <2>3
      <4>2. executed <= old /\ snapshot <= old
        BY <2>1
      <4>3. QED
        BY <1>5, <4>1, <4>2
    <3>3. QED
      BY <1>6, <3>1, <3>2
  <2>5. ToClientInv(toClient', sent, firstSent, new)
    <3>1. \/ new = old
          \/ new \in DOMAIN toClient[i].commands
          \/ toClient[i].kind = "gamestate" /\ new = toClient[i].sequence
      BY <2>3 DEF m
    <3>2. ToClientInv(After(toClient, i), sent, firstSent, new)
      BY <1>1, <1>5, <1>6, <2>1, <2>3, <3>1, ToClientReceived
    <3>3. QED
      BY <1>2, <3>2
  <2>6. ToServerInv(toServer', client.reliableAcknowledge, firstSent, new)
    <3>1. \A n \in 1 .. old : firstSent[n] = firstSent[n]
      OBVIOUS
    <3>2. ToServerInv(toServer, client.reliableAcknowledge, firstSent, new)
      BY <1>1, <1>5, <1>6, <2>1, <2>3, <3>1, ToServerGrown
    <3>3. QED
      BY <1>2, <3>2
  <2>7. ASSUME m.kind # "truncated"
        PROVE  Holds(Stored(m), new, firstSent)
    <3>1. Holds(serverCommands, serverCommandSequence, firstSent)
      BY <1>2, <2>1 DEF StreamInv, HeldInv, Holds
    <3>2. /\ \A n \in DOMAIN m.commands : n <= new
          /\ old + 1 .. new \subseteq DOMAIN m.commands
      <4>1. CASE new = Newest(m)
        <5>1. CASE Newest(m) = old
          BY <1>4, <1>5, <4>1, <5>1
        <5>2. CASE Newest(m) \in DOMAIN m.commands
          BY <1>4, <2>2, <4>1, <5>2 DEF Continues
        <5>3. QED
          BY <1>4, <5>1, <5>2
      <4>2. CASE m.kind = "gamestate" /\ new = m.sequence
        BY <1>1, <1>4, <2>2, <4>2 DEF Continues, MessageType
      <4>3. QED
        BY <1>6, <2>7, <4>1, <4>2
    <3>3. /\ serverCommandSequence \in Nat /\ serverCommandSequence <= new
          /\ Continues(m, sent, firstSent, serverCommandSequence)
          /\ serverCommandSequence + 1 .. new \subseteq DOMAIN m.commands
      BY <1>5, <2>2, <2>3, <3>2 DEF old
    <3>4. QED
      BY <1>1, <1>5, <1>6, <3>1, <3>2, <3>3, StoredHolds
  <2>8. HeldInv'
    <3>1. firstSent' = firstSent
      BY <1>2 DEF serverVars, historyVars
    <3>2. QED
      BY <1>2, <1>6, <2>7, <3>1 DEF HeldInv, Holds, new
  <2>9. QED
    BY <2>3, <2>4, <2>5, <2>6, <2>8
<1>8. /\ serverMessageSequence' \in Nat /\ serverCommands' \in [Slots -> Text]
      /\ executed' \in Nat
  BY <1>2, <1>4, <1>5
<1>9. QED
  BY <1>2, <1>3, <1>6, <1>7, <1>8, ClientStep DEF old, new, sent

LEMMA SendPacketStep ==
  ASSUME IInv, SendPacket
  PROVE  StepKeeps
<1> DEFINE p == [serverId |-> serverId,
                 messageAcknowledge |-> serverMessageSequence,
                 reliableAcknowledge |-> serverCommandSequence,
                 key |-> serverCommands[Slot(serverCommandSequence)],
                 move |-> serverId # 0]
<1>1. /\ toServer' = Send(toServer, p) /\ failure = "none"
      /\ UNCHANGED serverVars /\ UNCHANGED clientVars /\ UNCHANGED toClient
  BY DEF SendPacket
<1>2. /\ p.reliableAcknowledge = serverCommandSequence
      /\ p.key = serverCommands[Slot(serverCommandSequence)]
  OBVIOUS
<1> HIDE DEF p
<1>3. /\ StreamType /\ MessagesType(toClient) /\ PacketsType(toServer)
      /\ serverCommandSequence \in Nat /\ client.reliableAcknowledge \in Nat
  <2>1. client.reliableAcknowledge \in Nat
    BY QueueFacts DEF IInv, StreamType
  <2>2. QED
    BY <2>1 DEF IInv, StreamType, TypeOK, MessagesType, PacketsType
<1>4. PacketType(p)
  BY <1>2, <1>3 DEF PacketType
<1>5. PacketsType(toServer') /\ MessagesType(toClient')
  <2>1. PacketsType(toServer')
    BY <1>1, <1>3, <1>4, PacketsSent
  <2>2. QED
    BY <1>1, <1>3, <2>1
<1>6. /\ serverId' = serverId /\ serverMessageSequence' = serverMessageSequence
      /\ serverCommandSequence' = serverCommandSequence
      /\ serverCommands' = serverCommands /\ snapshot' = snapshot
      /\ executed' = executed /\ failure' = failure
  BY <1>1 DEF clientVars
<1>7. /\ serverId' \in Nat /\ serverMessageSequence' \in Nat
      /\ serverCommandSequence' \in Nat /\ serverCommands' \in [Slots -> Text]
      /\ snapshot' \in Nat /\ executed' \in Nat
  BY <1>3, <1>6 DEF StreamType, TypeOK
<1>8. ASSUME intact
      PROVE  /\ serverCommandSequence <= serverCommandSequence'
             /\ serverCommandSequence' <= client.reliableSent
             /\ executed' <= serverCommandSequence'
             /\ snapshot' <= serverCommandSequence'
             /\ ToClientInv(toClient', client.reliableSent, firstSent,
                            serverCommandSequence')
             /\ ToServerInv(toServer', client.reliableAcknowledge, firstSent,
                            serverCommandSequence')
             /\ HeldInv'
  <2>1. StreamInv
    BY <1>8 DEF IInv
  <2>2. Holds(serverCommands, serverCommandSequence, firstSent)
    BY <1>1, <2>1 DEF StreamInv, HeldInv, Holds
  <2>3. serverCommands[Slot(serverCommandSequence)] =
           SentText(firstSent, serverCommandSequence)
    <3>1. /\ serverCommandSequence \in 0 .. serverCommandSequence
          /\ serverCommandSequence > serverCommandSequence - RingSize
      BY <1>3
    <3>2. QED
      BY <2>2, <3>1 DEF Holds
  <2>4. ToServerInv(toServer, client.reliableAcknowledge, firstSent,
                    serverCommandSequence)
        /\ client.reliableAcknowledge <= serverCommandSequence
    BY <2>1 DEF StreamInv
  <2>5. ToServerInv(Send(toServer, p), client.reliableAcknowledge, firstSent,
                    serverCommandSequence)
    <3>1. p.key = SentText(firstSent, serverCommandSequence)
      BY <1>2, <2>3
    <3>2. QED
      BY <1>2, <1>3, <2>4, <3>1, ToServerSent
  <2>6. HeldInv'
    <3>1. firstSent' = firstSent
      BY <1>1 DEF serverVars, historyVars
    <3>2. QED
      BY <1>6, <2>1, <3>1 DEF StreamInv, HeldInv
  <2>7. QED
    BY <1>1, <1>3, <1>6, <2>1, <2>5, <2>6 DEF StreamInv
<1>9. QED
  BY <1>1, <1>5, <1>7, <1>8, ClientStep

\* CG_ExecuteNewServerCommands
LEMMA ExecuteNewServerCommandsStep ==
  ASSUME IInv, ExecuteNewServerCommands
  PROVE  StepKeeps
<1> DEFINE drops == {n \in executed + 1 .. snapshot : Held(n).type = "w"}
           last == IF drops = {} THEN snapshot ELSE Min(drops)
<1>1. /\ failure = "none" /\ executed < snapshot
      /\ UNCHANGED serverVars /\ UNCHANGED <<toClient, toServer>>
      /\ serverId' = serverId /\ serverMessageSequence' = serverMessageSequence
      /\ serverCommandSequence' = serverCommandSequence
      /\ serverCommands' = serverCommands /\ snapshot' = snapshot
  BY DEF ExecuteNewServerCommands
<1>2. executed' = executed \/ executed' = last
  BY DEF ExecuteNewServerCommands
<1>3. failure' # "bad gamestate"
  BY DEF ExecuteNewServerCommands
<1>4. /\ StreamType /\ MessagesType(toClient) /\ PacketsType(toServer)
      /\ executed \in Nat /\ snapshot \in Nat /\ serverCommandSequence \in Nat
  BY DEF IInv, StreamType, TypeOK, MessagesType, PacketsType
<1>5. last \in Nat /\ last <= snapshot
  <2>1. \A n \in drops : n \in Nat /\ n <= snapshot
    BY <1>4
  <2> HIDE DEF drops
  <2>2. drops \in SUBSET Nat
    BY <2>1
  <2>3. drops # {} => Min(drops) \in drops
    BY <2>2, MinType
  <2>4. QED
    BY <1>4, <2>1, <2>3
<1> HIDE DEF drops, last
<1>6. executed' \in Nat /\ executed' <= snapshot
  BY <1>1, <1>2, <1>4, <1>5
<1>7. /\ serverId' \in Nat /\ serverMessageSequence' \in Nat
      /\ serverCommandSequence' \in Nat /\ serverCommands' \in [Slots -> Text]
      /\ snapshot' \in Nat
      /\ MessagesType(toClient') /\ PacketsType(toServer')
  BY <1>1, <1>4 DEF StreamType, TypeOK
<1>8. ASSUME intact
      PROVE  /\ serverCommandSequence <= serverCommandSequence'
             /\ serverCommandSequence' <= client.reliableSent
             /\ executed' <= serverCommandSequence'
             /\ snapshot' <= serverCommandSequence'
             /\ ToClientInv(toClient', client.reliableSent, firstSent,
                            serverCommandSequence')
             /\ ToServerInv(toServer', client.reliableAcknowledge, firstSent,
                            serverCommandSequence')
             /\ HeldInv'
  <2>1. StreamInv
    BY <1>8 DEF IInv
  <2>2. HeldInv'
    <3>1. firstSent' = firstSent
      BY <1>1 DEF serverVars, historyVars
    <3>2. QED
      BY <1>1, <2>1, <3>1 DEF StreamInv, HeldInv
  <2>3. executed' <= serverCommandSequence'
    <3>1. snapshot <= serverCommandSequence
      BY <2>1 DEF StreamInv
    <3>2. QED
      BY <1>1, <1>4, <1>6, <3>1
  <2>4. serverCommandSequence <= serverCommandSequence'
    BY <1>1, <1>4
  <2>5. QED
    BY <1>1, <2>1, <2>2, <2>3, <2>4 DEF StreamInv
<1>9. QED
  BY <1>1, <1>6, <1>7, <1>8, ClientStep

-----------------------------------------------------------------------------
(* The stream *)

LEMMA Initially ==
  Init => IInv
<1> SUFFICES ASSUME Init PROVE IInv
  OBVIOUS
<1>1. /\ client.reliableSequence = 0 /\ client.reliableSent = 0
      /\ client.reliableAcknowledge = 0
      /\ client.ring = [s \in Slots |-> [text |-> NoText, reliable |-> FALSE]]
      /\ firstSent = <<>> /\ toClient = <<>> /\ toServer = <<>>
      /\ serverCommandSequence = 0 /\ snapshot = 0 /\ executed = 0
      /\ serverCommands = [s \in Slots |-> NoText] /\ intact = TRUE
  BY DEF Init
<1>2. NoText \in Text
  BY DEF Text
<1>3. client \in ClientRecord
  BY <1>2 DEF Init, ClientRecord
<1>4. firstSent \in Seq(Text) /\ Len(firstSent) = 0
  BY <1>1, EmptySeq
<1>5. TypeOK
  <2>1. {intact, carried} \subseteq BOOLEAN
    BY DEF Init
  <2>2. serverCommands \in [Slots -> Text]
    BY <1>1, <1>2
  <2>3. configstrings \in [Index -> Value]
    BY DEF Init
  <2>4. map \in Nat /\ serverId \in Nat /\ serverMessageSequence \in Nat
    BY DEF Init
  <2>5. QED
    BY <1>1, <1>3, <1>4, <2>1, <2>2, <2>3, <2>4 DEF TypeOK
<1>6. QueueType(client, firstSent)
  BY <1>1, <1>3, <1>4 DEF QueueType
<1>7. IsSequence(toClient) /\ IsSequence(toServer)
      /\ Len(toClient) = 0 /\ Len(toServer) = 0
  <2>1. toClient \in Seq(Text) /\ toServer \in Seq(Text)
        /\ Len(toClient) = 0 /\ Len(toServer) = 0
    BY <1>1, EmptySeq
  <2>2. QED
    BY <2>1, AnySequence
<1>8. StreamType
  BY <1>5, <1>6, <1>7 DEF StreamType
<1>9. Slot(0) \in Slots
  BY SlotType
<1>10. QueueInv(client, firstSent)
  <2>1. Pending(client, 0).text = NoText
    BY <1>1, <1>9 DEF Pending
  <2>2. AllReliable(client)
    BY <1>1 DEF AllReliable, Unsent
  <2>3. QED
    BY <1>1, <2>1, <2>2 DEF QueueInv, Backlog, SentText
<1>11. HeldInv
  <2>1. serverCommands[Slot(0)] = NoText
    BY <1>1, <1>9
  <2>2. SentText(firstSent, 0) = NoText
    BY DEF SentText
  <2>3. \A n \in 0 .. serverCommandSequence : n = 0
    BY <1>1
  <2>4. QED
    BY <2>1, <2>2, <2>3 DEF HeldInv
<1>12. StreamInv
  BY <1>1, <1>7, <1>10, <1>11 DEF StreamInv, ToClientInv, ToServerInv
<1>13. QED
  BY <1>8, <1>12 DEF IInv

LEMMA Step ==
  IInv /\ [Next]_vars => StepKeeps
<1> SUFFICES ASSUME IInv, [Next]_vars PROVE StepKeeps
  OBVIOUS
<1>1. ASSUME NEW c \in Command, SendServerCommand(c) PROVE StepKeeps
  BY <1>1, SendServerCommandStep
<1>2. ASSUME NEW i \in Index, NEW v \in Value, SetConfigstring(i, v)
      PROVE  StepKeeps
  BY <1>2, SetConfigstringStep
<1>3. CASE Disconnect
  BY <1>3, DisconnectStep
<1>4. CASE SpawnServer
  BY <1>4, SpawnServerStep
<1>5. CASE SendClientSnapshot
  BY <1>5, SendClientSnapshotStep
<1>6. ASSUME NEW i \in 1 .. Len(toServer), ReceiveFromClient(i) PROVE StepKeeps
  BY <1>6, ReceiveFromClientStep
<1>7. ASSUME NEW i \in 1 .. Len(toClient), ReceiveFromServer(i) PROVE StepKeeps
  BY <1>7, ReceiveFromServerStep
<1>8. CASE SendPacket
  BY <1>8, SendPacketStep
<1>9. CASE ExecuteNewServerCommands
  BY <1>9, ExecuteNewServerCommandsStep
<1>10. CASE UNCHANGED vars
  <2>1. IInv'
    BY <1>10 DEF IInv, StreamType, StreamInv, TypeOK, QueueType, QueueInv, Backlog,
                 AllReliable, Unsent, Pending, HeldInv, vars, serverVars,
                 historyVars, clientVars
  <2>2. Survives(client, client')
    BY <1>10, StaysInPlace DEF vars, serverVars
  <2>3. QED
    BY <2>1, <2>2 DEF StepKeeps, Survives, Stays
<1>11. QED
  BY <1>1, <1>2, <1>3, <1>4, <1>5, <1>6, <1>7, <1>8, <1>9, <1>10 DEF Next

\* The queue, the messages under way and the texts that the client holds stay
\* consistent in every step of SV_AddServerCommand, of its senders and of the
\* two packet handlers, until a slot is overwritten unacknowledged.
THEOREM Invariance ==
  Spec => []IInv
<1>1. Init => IInv
  BY Initially
<1>2. IInv /\ [Next]_vars => IInv'
  BY Step DEF StepKeeps
<1>3. QED
  BY <1>1, <1>2, PTL DEF Spec

\* The counters of the stream keep their types and their order, whatever is
\* lost and however the server crowds its ring (SV_AddServerCommand,
\* SV_PacketEvent, CL_ParseServerMessage).
THEOREM CountersStayOrdered ==
  Spec => []WellFormed
<1>1. IInv => WellFormed
  BY DEF IInv, StreamType, StreamInv, QueueType, QueueInv, WellFormed, CountersOrdered
<1>2. QED
  BY <1>1, Invariance, PTL

\* A command that went out is neither replaced nor culled nor renumbered
\* (SV_AddServerCommand, SV_CullIgnorableServerCommands), and the client holds
\* it as it was sent until it needs the slot (CL_ParseCommandString).
THEOREM SentStaysSent ==
  Spec => []RingHeld
<1>1. IInv => SentIsFrozen
  <2> SUFFICES ASSUME IInv, intact, NEW n \in 1 .. Len(firstSent),
                      n >= client.reliableAcknowledge,
                      n > client.reliableSequence - RingSize
               PROVE  Pending(client, n).text = firstSent[n]
    BY DEF SentIsFrozen
  <2>1. QueueInv(client, firstSent) /\ Len(firstSent) = client.reliableSent
    BY DEF IInv, StreamType, StreamInv, QueueType
  <2>2. client.reliableSent \in Nat
    BY QueueFacts DEF IInv, StreamType
  <2>3. n \in 0 .. client.reliableSent /\ n # 0
    BY <2>1, <2>2
  <2>4. QED
    BY <2>1, <2>3 DEF QueueInv, SentText
<1>2. IInv => HoldsWhatWasSent
  <2> SUFFICES ASSUME IInv, intact, failure # "bad gamestate",
                      NEW n \in executed + 1 .. serverCommandSequence,
                      n > serverCommandSequence - RingSize
               PROVE  serverCommands[Slot(n)] = firstSent[n]
    BY DEF HoldsWhatWasSent, Faithful
  <2>1. executed \in Nat /\ serverCommandSequence \in Nat
    BY DEF IInv, StreamType, TypeOK
  <2>2. \A k \in executed + 1 .. serverCommandSequence :
           k \in 0 .. serverCommandSequence /\ k # 0
    BY ONLY <2>1
  <2>3. QED
    BY <2>2 DEF IInv, StreamInv, HeldInv, SentText
<1>3. QED
  BY <1>1, <1>2, Invariance, PTL DEF RingHeld

\* Whenever SV_PacketEvent decodes a packet, the text it takes from its ring
\* is the one CL_WritePacket encoded with, whatever was lost or replaced.
THEOREM SameKey ==
  Spec => []KeysAgree
<1>1. IInv => KeysAgree
  <2> SUFFICES ASSUME IInv, intact, NEW i \in 1 .. Len(toServer),
                      Decodable(client, toServer[i])
               PROVE  toServer[i].key =
                        Pending(client, toServer[i].reliableAcknowledge).text
    BY DEF KeysAgree
  <2> DEFINE n == toServer[i].reliableAcknowledge
  <2>1. /\ client.reliableAcknowledge <= n /\ n <= serverCommandSequence
        /\ toServer[i].key = SentText(firstSent, n)
        /\ serverCommandSequence <= client.reliableSent
    BY DEF IInv, StreamInv, ToServerInv
  <2>2. /\ n \in Nat /\ serverCommandSequence \in Nat
        /\ client.reliableSent \in Nat /\ client.reliableSequence \in Nat
    <3>1. client.reliableSent \in Nat /\ client.reliableSequence \in Nat
      BY QueueFacts DEF IInv, StreamType
    <3>2. QED
      BY <3>1 DEF IInv, StreamType, TypeOK, PacketType
  <2>3. client.reliableSequence - n < RingSize
    BY DEF Decodable
  <2> HIDE DEF n
  <2>4. n \in 0 .. client.reliableSent /\ n > client.reliableSequence - RingSize
    <3>1. n <= client.reliableSent
      BY ONLY <2>1, <2>2
    <3>2. n > client.reliableSequence - RingSize
      BY <2>2, <2>3, RingAssumption
    <3>3. QED
      BY <2>2, <3>1, <3>2
  <2>5. Pending(client, n).text = SentText(firstSent, n)
    BY <2>1, <2>4 DEF IInv, StreamInv, QueueInv
  <2>6. QED
    BY <2>1, <2>5 DEF n
<1>2. QED
  BY <1>1, Invariance, PTL

\* SV_AddServerCommand loses no reliable command: culling keeps it, and what
\* replaces it says the same and is reliable too.
THEOREM ReliableIsKept ==
  Spec => ReliableStays
<1>1. IInv /\ [Next]_vars =>
        [\A n \in Unsent(client) :
           LET entry == Pending(client, n)
           IN  (entry.reliable /\ intact') =>
                 \/ n <= client'.reliableSent
                 \/ \E k \in Unsent(client') :
                      /\ Pending(client', k).reliable
                      /\ Supersedes(Pending(client', k).text, entry.text)
                         \/ Pending(client', k).text = entry.text]_client
  BY Step DEF StepKeeps, Stays
<1>2. QED
  BY <1>1, Invariance, PTL DEF Spec, ReliableStays

-----------------------------------------------------------------------------
(* The client's configstrings *)

Sets(text, i) == text.type = "d" /\ text.key = i

\* Of the commands still to be sent, n is the last that sets configstring i.
LastUnsent(cl, i, n) ==
    /\ Sets(Pending(cl, n).text, i)
    /\ \A m \in Unsent(cl) : m > n => ~Sets(Pending(cl, m).text, i)

\* The change from cl to new loses no configstring and none's last value.
KeepsSets(cl, new, i) ==
    /\ \A n \in Unsent(cl) : Sets(Pending(cl, n).text, i) =>
          \E k \in Unsent(new) : Sets(Pending(new, k).text, i)
    /\ \A k \in Unsent(new) : LastUnsent(new, i, k) =>
          \E n \in Unsent(cl) : /\ LastUnsent(cl, i, n)
                                /\ Pending(cl, n).text = Pending(new, k).text

\* SV_SetConfigstring's commands are reliable, so they are not culled.
Settled(cl) ==
    \A n \in Unsent(cl) : Pending(cl, n).text.type = "d" => Pending(cl, n).reliable

LEMMA CullSets ==
  ASSUME NEW cl, NEW texts, QueueType(cl, texts), QueueInv(cl, texts), Settled(cl),
         NEW i
  PROVE  KeepsSets(cl, Cull(cl), i) /\ Settled(Cull(cl))
<1>1. PICK new : new = Cull(cl)
  OBVIOUS
<1>2. /\ AllReliable(new)
      /\ \A n \in Kept(cl) : /\ Place(cl, n) \in Unsent(new)
                            /\ Pending(new, Place(cl, n)) = Pending(cl, n)
      /\ \A k \in Unsent(new) : \E n \in Kept(cl) : Place(cl, n) = k
      /\ \A m, n \in Kept(cl) : m < n => Place(cl, m) < Place(cl, n)
  BY <1>1, CullKeeps
<1>3. \A n \in Unsent(cl) : Sets(Pending(cl, n).text, i) => n \in Kept(cl)
  BY DEF Settled, Sets, Kept
<1>4. \A n \in Unsent(cl) : Sets(Pending(cl, n).text, i) =>
          \E k \in Unsent(new) : Sets(Pending(new, k).text, i)
  BY <1>2, <1>3
<1>5. ASSUME NEW k \in Unsent(new), LastUnsent(new, i, k)
      PROVE  \E n \in Unsent(cl) : /\ LastUnsent(cl, i, n)
                                   /\ Pending(cl, n).text = Pending(new, k).text
  <2>1. PICK n \in Kept(cl) : Place(cl, n) = k
    BY <1>2
  <2>2. n \in Unsent(cl) /\ Pending(cl, n) = Pending(new, k)
    BY <1>2, <2>1 DEF Kept
  <2>3. ASSUME NEW m \in Unsent(cl), m > n, Sets(Pending(cl, m).text, i)
        PROVE  FALSE
    <3>1. m \in Kept(cl) /\ n < m
      <4>1. m \in Nat /\ n \in Nat
        BY <2>2, QueueFacts
      <4>2. QED
        BY <1>3, <2>3, <4>1
    <3>2. /\ Place(cl, m) \in Unsent(new) /\ Place(cl, n) < Place(cl, m)
          /\ Sets(Pending(new, Place(cl, m)).text, i)
      BY <1>2, <2>3, <3>1
    <3>3. Place(cl, m) > k
      <4>1. new.reliableSent \in Nat /\ new.reliableSequence \in Nat
        <5>1. QueueType(new, texts)
          BY <1>1, CullParts
        <5>2. QED
          BY <5>1, QueueFacts
      <4>2. Place(cl, m) \in Nat /\ k \in Nat
        BY <3>2, <4>1 DEF Unsent
      <4>3. QED
        BY <2>1, <3>2, <4>2
    <3>4. QED
      BY <1>5, <3>2, <3>3 DEF LastUnsent
  <2>4. LastUnsent(cl, i, n)
    BY <1>5, <2>2, <2>3 DEF LastUnsent
  <2>5. QED
    BY <2>2, <2>4
<1>6. Settled(new)
  BY <1>2 DEF Settled, AllReliable
<1>7. QED
  BY <1>1, <1>4, <1>5, <1>6 DEF KeepsSets

LEMMA KeepsTransitive ==
  ASSUME NEW a, NEW b, NEW c, NEW i, KeepsSets(a, b, i), KeepsSets(b, c, i)
  PROVE  KeepsSets(a, c, i)
<1>1. \A n \in Unsent(a) : Sets(Pending(a, n).text, i) =>
         \E k \in Unsent(c) : Sets(Pending(c, k).text, i)
  BY DEF KeepsSets
<1>2. ASSUME NEW k \in Unsent(c), LastUnsent(c, i, k)
      PROVE  \E n \in Unsent(a) : /\ LastUnsent(a, i, n)
                                  /\ Pending(a, n).text = Pending(c, k).text
  <2>1. PICK m \in Unsent(b) : /\ LastUnsent(b, i, m)
                               /\ Pending(b, m).text = Pending(c, k).text
    BY <1>2 DEF KeepsSets
  <2>2. PICK n \in Unsent(a) : /\ LastUnsent(a, i, n)
                               /\ Pending(a, n).text = Pending(b, m).text
    BY <2>1 DEF KeepsSets
  <2>3. QED
    BY <2>1, <2>2
<1>3. QED
  BY <1>1, <1>2 DEF KeepsSets

\* A new command replaces the setting of a configstring only by a new one.
LEMMA EnteredSets ==
  ASSUME NEW cl, NEW texts, QueueType(cl, texts), QueueInv(cl, texts), Settled(cl),
         NEW c \in Text, Backlog(Entered(cl, c)) <= RingSize,
         \/ Backlog(cl) < UnreliableLimit
         \/ AllReliable(cl) /\ IsReliable(c)
  PROVE  LET new == Entered(cl, c)
         IN  /\ Settled(new)
             /\ new.reliableSequence \in Unsent(new)
             /\ Pending(new, new.reliableSequence).text = c
             /\ \A i : ~Sets(c, i) => KeepsSets(cl, new, i)
<1> DEFINE none == Replaceable(cl, c) = {}
           q == Min(Replaceable(cl, c))
<1>1. PICK new : new = Entered(cl, c)
  OBVIOUS
<1>2. PICK last : last = cl.reliableSequence
  OBVIOUS
<1>3. PICK next : next = new.reliableSequence
  OBVIOUS
<1>4. PICK sent : sent = cl.reliableSent
  OBVIOUS
<1>5. /\ sent \in Nat /\ last \in Nat /\ sent <= last
  BY <1>2, <1>4, QueueFacts
<1>6. /\ new.reliableSent = sent
      /\ next = IF none THEN last + 1 ELSE last
      /\ new.ring[Slot(next)] = [text |-> c, reliable |-> IsReliable(c)]
  BY <1>1, <1>2, <1>3, <1>4, EnteredParts DEF SameCounts
<1>7. \A p \in Unsent(new) : p # next =>
         Pending(new, p) = IF none \/ p < q THEN Pending(cl, p) ELSE Pending(cl, p + 1)
  BY <1>1, <1>3, EnteredKeeps
<1>8. ~none => q \in sent + 1 .. last /\ Supersedes(c, Pending(cl, q).text)
  <2>1. Replaceable(cl, c) \in SUBSET Nat
    BY <1>4, <1>5, QueueFacts DEF Replaceable
  <2>2. ~none => q \in Replaceable(cl, c)
    BY <2>1, MinType
  <2>3. QED
    BY <1>2, <1>4, <2>2 DEF Replaceable, Unsent
<1>9. /\ Unsent(new) = sent + 1 .. next /\ Unsent(cl) = sent + 1 .. last
      /\ Pending(new, next) = [text |-> c, reliable |-> IsReliable(c)]
  BY <1>2, <1>3, <1>4, <1>6 DEF Unsent, Pending
<1> HIDE DEF none, q
<1>10. next \in sent + 1 .. next /\ (none => next = last + 1) /\ (~none => next = last)
  BY <1>5, <1>6, <1>8
<1>11. ASSUME NEW p \in sent + 1 .. next, p # next
       PROVE  \E n \in sent + 1 .. last :
                 /\ Pending(new, p) = Pending(cl, n)
                 /\ n = IF none \/ p < q THEN p ELSE p + 1
  <2>1. CASE none \/ p < q
    <3>1. p \in sent + 1 .. last
      BY <1>5, <1>10, <1>11
    <3>2. QED
      BY <1>7, <1>9, <1>11, <2>1, <3>1
  <2>2. CASE ~(none \/ p < q)
    <3>1. p + 1 \in sent + 1 .. last
      BY <1>5, <1>10, <1>11, <2>2
    <3>2. QED
      BY <1>7, <1>9, <1>11, <2>2, <3>1
  <2>3. QED
    BY <2>1, <2>2
<1>12. Settled(new)
  <2>1. ASSUME NEW p \in sent + 1 .. next, Pending(new, p).text.type = "d"
        PROVE  Pending(new, p).reliable
    <3>1. CASE p = next
      <4>1. Pending(new, p).text = c /\ Pending(new, p).reliable = IsReliable(c)
        BY <1>9, <3>1
      <4>2. IsReliable(c)
        BY <2>1, <4>1 DEF IsReliable
      <4>3. QED
        BY <4>1, <4>2
    <3>2. CASE p # next
      BY <1>9, <1>11, <2>1, <3>2 DEF Settled
    <3>3. QED
      BY <3>1, <3>2
  <2>2. QED
    BY <1>9, <2>1 DEF Settled
<1>13. ASSUME NEW i, ~Sets(c, i)
       PROVE  KeepsSets(cl, new, i)
  \* where each setting of i went
  <2>1. ASSUME NEW n \in sent + 1 .. last, Sets(Pending(cl, n).text, i)
        PROVE  \E p \in sent + 1 .. next :
                  /\ Pending(new, p) = Pending(cl, n) /\ p # next
                  /\ n = IF none \/ p < q THEN p ELSE p + 1
    <3>1. ~none => n # q
      <4> SUFFICES ASSUME ~none, n = q PROVE FALSE
        OBVIOUS
      <4>1. Supersedes(c, Pending(cl, n).text)
        BY <1>8
      <4>2. QED
        BY <1>13, <2>1, <4>1 DEF Supersedes, Sets
    <3>2. CASE none \/ n < q
      <4>1. n \in sent + 1 .. next /\ n # next
        BY <1>5, <1>8, <1>10, <3>2
      <4>2. QED
        BY <1>7, <1>9, <3>2, <4>1
    <3>3. CASE ~none /\ ~(n < q)
      <4>1. n - 1 \in sent + 1 .. next /\ n - 1 # next /\ ~(n - 1 < q) /\ n - 1 + 1 = n
        BY <1>5, <1>8, <1>10, <3>1, <3>3
      <4>2. QED
        BY <1>7, <1>9, <3>3, <4>1
    <3>4. QED
      BY <3>2, <3>3
  <2>2. \A n \in Unsent(cl) : Sets(Pending(cl, n).text, i) =>
           \E k \in Unsent(new) : Sets(Pending(new, k).text, i)
    BY <1>9, <2>1
  <2>3. ASSUME NEW k \in Unsent(new), LastUnsent(new, i, k)
        PROVE  \E n \in Unsent(cl) : /\ LastUnsent(cl, i, n)
                                     /\ Pending(cl, n).text = Pending(new, k).text
    <3>1. Sets(Pending(new, k).text, i) /\ k \in sent + 1 .. next
      BY <1>9, <2>3 DEF LastUnsent
    <3>2. k # next
      BY <1>9, <1>13, <3>1
    <3>3. PICK n \in sent + 1 .. last :
             /\ Pending(new, k) = Pending(cl, n)
             /\ n = IF none \/ k < q THEN k ELSE k + 1
      BY <1>11, <3>1, <3>2
    <3>4. ASSUME NEW m \in sent + 1 .. last, m > n, Sets(Pending(cl, m).text, i)
          PROVE  FALSE
      <4>1. PICK p \in sent + 1 .. next :
               /\ Pending(new, p) = Pending(cl, m) /\ p # next
               /\ m = IF none \/ p < q THEN p ELSE p + 1
        BY <2>1, <3>4
      <4>2. p > k
        BY <1>5, <1>8, <3>3, <3>4, <4>1
      <4>3. QED
        BY <1>9, <2>3, <3>4, <4>1, <4>2 DEF LastUnsent
    <3>5. LastUnsent(cl, i, n)
      BY <1>9, <3>1, <3>3, <3>4 DEF LastUnsent
    <3>6. QED
      BY <1>9, <3>3, <3>5
  <2>4. QED
    BY <2>2, <2>3 DEF KeepsSets
<1>14. QED
  BY <1>1, <1>3, <1>9, <1>10, <1>12, <1>13

\* SV_AddServerCommand
LEMMA AddSets ==
  ASSUME NEW cl, NEW texts, QueueType(cl, texts), QueueInv(cl, texts), Settled(cl),
         NEW c \in Text, Backlog(Add(cl, c)) <= RingSize
  PROVE  LET new == Add(cl, c)
         IN  /\ Settled(new)
             /\ \A i : ~Sets(c, i) => KeepsSets(cl, new, i)
             /\ IsReliable(c) => /\ new.reliableSequence \in Unsent(new)
                                 /\ Pending(new, new.reliableSequence).text = c
<1> DEFINE crowded == Backlog(cl) >= UnreliableLimit \/ cl.state # "ACTIVE"
<1>1. CASE ~crowded
  <2>1. Add(cl, c) = Entered(cl, c)
    BY <1>1 DEF Add, Entered
  <2>2. Backlog(cl) < UnreliableLimit
    BY <1>1, QueueFacts DEF Backlog
  <2>3. QED
    BY <2>1, <2>2, EnteredSets
<1>2. CASE crowded
  <2>1. PICK culled : culled = Cull(cl)
    OBVIOUS
  <2>2. Add(cl, c) = IF ~IsReliable(c) THEN culled ELSE Entered(culled, c)
    BY <1>2, <2>1 DEF Add, Entered
  <2>3. /\ QueueType(culled, texts) /\ QueueInv(culled, texts) /\ AllReliable(culled)
        /\ Settled(culled)
    BY <2>1, CullParts, CullKeeps, CullSets
  <2>4. \A i : KeepsSets(cl, culled, i)
    BY <2>1, CullSets
  <2>5. CASE ~IsReliable(c)
    BY <2>2, <2>3, <2>4, <2>5
  <2>6. CASE IsReliable(c)
    <3>1. PICK new : new = Entered(culled, c)
      OBVIOUS
    <3>2. Add(cl, c) = new
      BY <2>2, <2>6, <3>1
    <3>3. /\ Settled(new)
          /\ new.reliableSequence \in Unsent(new)
          /\ Pending(new, new.reliableSequence).text = c
          /\ \A i : ~Sets(c, i) => KeepsSets(culled, new, i)
      <4>1. Backlog(Entered(culled, c)) <= RingSize
        BY <3>1, <3>2
      <4>2. QED
        BY <2>3, <2>6, <3>1, <4>1, EnteredSets
    <3>4. \A i : ~Sets(c, i) => KeepsSets(cl, new, i)
      BY <2>4, <3>3, KeepsTransitive
    <3>5. QED
      BY <3>2, <3>3, <3>4
  <2>7. QED
    BY <2>5, <2>6
<1>3. QED
  BY <1>1, <1>2

\* Adding a command changes neither the state nor what was sent.
LEMMA AddState ==
  ASSUME NEW cl \in ClientRecord, NEW c
  PROVE  Add(cl, c).state = cl.state
BY DEF ClientRecord, Add, Write, MakeRoom, Cull

\* The text of command n: the one it was sent with, or will be if nothing
\* changes.
StreamText(cl, texts, n) ==
    IF n <= cl.reliableSent THEN texts[n] ELSE Pending(cl, n).text

\* Nothing after command k sets configstring i.
NoneSet(cl, texts, i, k) ==
    \A n \in k + 1 .. cl.reliableSequence : ~Sets(StreamText(cl, texts, n), i)

\* Command n is the last to set configstring i.
LastSet(cl, texts, i, n) ==
    Sets(StreamText(cl, texts, n), i) /\ NoneSet(cl, texts, i, n)

\* After command k, the last to set a configstring sets it to what it is.
UpToDate(cl, texts, strings, k) ==
    \A i \in Index : \A n \in k + 1 .. cl.reliableSequence :
        LastSet(cl, texts, i, n) => StreamText(cl, texts, n).value = strings[i]

\* The commands after k make strings out of base.
LeadsTo(base, cl, texts, strings, k) ==
    \A i \in Index : NoneSet(cl, texts, i, k) => base[i] = strings[i]

SameStream(cl, texts, new, more) ==
    /\ new.reliableSequence = cl.reliableSequence
    /\ \A n \in 1 .. cl.reliableSequence :
          StreamText(new, more, n) = StreamText(cl, texts, n)

LEMMA StreamKept ==
  ASSUME NEW cl, NEW texts, NEW new, NEW more, SameStream(cl, texts, new, more),
         cl.reliableSequence \in Nat, NEW k \in Nat
  PROVE  /\ \A i : NoneSet(new, more, i, k) <=> NoneSet(cl, texts, i, k)
         /\ \A strings : UpToDate(cl, texts, strings, k) =>
                            UpToDate(new, more, strings, k)
         /\ \A base, strings : LeadsTo(base, cl, texts, strings, k) =>
                                  LeadsTo(base, new, more, strings, k)
<1>1. PICK last \in Nat : last = cl.reliableSequence /\ last = new.reliableSequence
  BY DEF SameStream
<1>2. \A n \in 1 .. last : StreamText(new, more, n) = StreamText(cl, texts, n)
  BY <1>1 DEF SameStream
<1>3. ASSUME NEW j \in Nat, NEW i
      PROVE  NoneSet(new, more, i, j) <=> NoneSet(cl, texts, i, j)
  <2>1. \A n \in j + 1 .. last : n \in 1 .. last
    BY <1>1
  <2>2. QED
    BY <1>1, <1>2, <2>1 DEF NoneSet
<1>4. ASSUME NEW strings, UpToDate(cl, texts, strings, k)
      PROVE  UpToDate(new, more, strings, k)
  <2>1. ASSUME NEW i \in Index, NEW n \in k + 1 .. last, LastSet(new, more, i, n)
        PROVE  StreamText(new, more, n).value = strings[i]
    <3>1. n \in 1 .. last /\ n \in Nat
      BY <1>1
    <3>2. LastSet(cl, texts, i, n)
      BY <1>2, <1>3, <2>1, <3>1 DEF LastSet
    <3>3. QED
      BY <1>1, <1>2, <1>4, <3>1, <3>2 DEF UpToDate
  <2>2. QED
    BY <1>1, <2>1 DEF UpToDate
<1>5. ASSUME NEW base, NEW strings, LeadsTo(base, cl, texts, strings, k)
      PROVE  LeadsTo(base, new, more, strings, k)
  BY <1>3, <1>5 DEF LeadsTo
<1>6. QED
  BY <1>3, <1>4, <1>5

\* What was sent is the same, and what was not has lost no setting of i.
LEMMA StreamChanged ==
  ASSUME NEW cl, NEW texts, NEW new, cl.reliableSent \in Nat,
         cl.reliableSequence \in Nat, new.reliableSequence \in Nat,
         new.reliableSent = cl.reliableSent, NEW i, KeepsSets(cl, new, i),
         cl.reliableSent <= cl.reliableSequence,
         cl.reliableSent <= new.reliableSequence,
         NEW k \in Nat, k <= cl.reliableSent
  PROVE  /\ NoneSet(new, texts, i, k) => NoneSet(cl, texts, i, k)
         /\ \A n \in k + 1 .. new.reliableSequence : LastSet(new, texts, i, n) =>
               \E m \in k + 1 .. cl.reliableSequence :
                  /\ LastSet(cl, texts, i, m)
                  /\ StreamText(cl, texts, m) = StreamText(new, texts, n)
<1>1. PICK sent \in Nat : sent = cl.reliableSent
  OBVIOUS
<1>2. PICK last \in Nat : last = cl.reliableSequence
  OBVIOUS
<1>3. PICK next \in Nat : next = new.reliableSequence
  OBVIOUS
<1>4. sent <= last /\ sent <= next /\ k <= sent
  BY <1>1, <1>2, <1>3
<1>5. /\ \A n \in 1 .. sent : StreamText(new, texts, n) = texts[n]
                              /\ StreamText(cl, texts, n) = texts[n]
      /\ \A n \in sent + 1 .. last : StreamText(cl, texts, n) = Pending(cl, n).text
      /\ \A n \in sent + 1 .. next : StreamText(new, texts, n) = Pending(new, n).text
      /\ Unsent(cl) = sent + 1 .. last /\ Unsent(new) = sent + 1 .. next
  BY <1>1, <1>2, <1>3 DEF StreamText, Unsent
<1>6. ASSUME NEW j \in 0 .. sent, NoneSet(new, texts, i, j)
      PROVE  NoneSet(cl, texts, i, j)
  <2>1. ASSUME NEW n \in j + 1 .. last, Sets(StreamText(cl, texts, n), i)
        PROVE  FALSE
    <3>1. CASE n <= sent
      <4>1. n \in 1 .. sent /\ n \in j + 1 .. next
        BY <1>4, <3>1
      <4>2. Sets(StreamText(new, texts, n), i)
        BY <1>5, <2>1, <4>1
      <4>3. QED
        BY <1>3, <1>6, <4>1, <4>2 DEF NoneSet
    <3>2. CASE n > sent
      <4>1. n \in sent + 1 .. last
        BY <3>2
      <4>2. Sets(Pending(cl, n).text, i)
        BY <1>5, <2>1, <4>1
      <4>3. PICK p \in sent + 1 .. next : Sets(Pending(new, p).text, i)
        BY <1>5, <4>1, <4>2 DEF KeepsSets
      <4>4. p \in j + 1 .. next /\ Sets(StreamText(new, texts, p), i)
        BY <1>5, <4>3
      <4>5. QED
        BY <1>3, <1>6, <4>4 DEF NoneSet
    <3>3. QED
      BY <3>1, <3>2
  <2>2. QED
    BY <1>2, <2>1 DEF NoneSet
<1>7. ASSUME NEW n \in k + 1 .. next, LastSet(new, texts, i, n)
      PROVE  \E m \in k + 1 .. last : /\ LastSet(cl, texts, i, m)
                                      /\ StreamText(cl, texts, m) = StreamText(new, texts, n)
  <2>1. Sets(StreamText(new, texts, n), i) /\ NoneSet(new, texts, i, n)
    BY <1>7 DEF LastSet
  <2>2. CASE n <= sent
    <3>1. n \in 1 .. sent /\ n \in 0 .. sent /\ n \in k + 1 .. last
      BY <1>4, <2>2
    <3>2. NoneSet(cl, texts, i, n)
      BY <1>6, <2>1, <3>1
    <3>3. QED
      BY <1>5, <2>1, <3>1, <3>2 DEF LastSet
  <2>3. CASE n > sent
    <3>1. n \in sent + 1 .. next
      BY <2>3
    <3>2. LastUnsent(new, i, n)
      <4>1. Sets(Pending(new, n).text, i)
        BY <1>5, <2>1, <3>1
      <4>2. ASSUME NEW m \in Unsent(new), m > n PROVE ~Sets(Pending(new, m).text, i)
        <5>1. m \in sent + 1 .. next /\ m \in n + 1 .. next
          <6>1. m \in sent + 1 .. next
            BY <1>5
          <6>2. QED
            BY <3>1, <4>2, <6>1
        <5>2. QED
          BY <1>3, <1>5, <2>1, <5>1 DEF NoneSet
      <4>3. QED
        BY <4>1, <4>2 DEF LastUnsent
    <3>3. PICK m \in sent + 1 .. last :
             LastUnsent(cl, i, m) /\ Pending(cl, m).text = Pending(new, n).text
      BY <1>5, <3>1, <3>2 DEF KeepsSets
    <3>4. NoneSet(cl, texts, i, m)
      <4>1. ASSUME NEW p \in m + 1 .. last PROVE ~Sets(StreamText(cl, texts, p), i)
        <5>1. p \in sent + 1 .. last /\ p > m
          BY <3>3
        <5>2. QED
          BY <1>5, <3>3, <5>1 DEF LastUnsent
      <4>2. QED
        BY <1>2, <4>1 DEF NoneSet
    <3>5. Sets(StreamText(cl, texts, m), i)
      BY <1>5, <3>3 DEF LastUnsent
    <3>6. m \in k + 1 .. last
      BY <1>4, <3>3
    <3>7. QED
      BY <1>5, <3>1, <3>3, <3>4, <3>5, <3>6 DEF LastSet
  <2>4. QED
    BY <2>2, <2>3
<1>8. k \in 0 .. sent
  BY <1>4
<1>9. QED
  BY <1>2, <1>3, <1>6, <1>7, <1>8

\* SV_UpdateServerCommandsToClient makes commands sent and changes none.
LEMMA MarkedStream ==
  ASSUME NEW cl, NEW texts, QueueType(cl, texts)
  PROVE  SameStream(cl, texts, MarkSent(cl), Recorded(cl, texts))
<1>1. PICK new : new = MarkSent(cl)
  OBVIOUS
<1>2. PICK more : more = Recorded(cl, texts)
  OBVIOUS
<1>3. PICK last : last = cl.reliableSequence
  OBVIOUS
<1>4. PICK sent : sent = cl.reliableSent
  OBVIOUS
<1>5. last \in Nat /\ sent \in Nat /\ sent <= last /\ Len(texts) = sent
  BY <1>3, <1>4, QueueFacts
<1>6. new.reliableSequence = last /\ new.reliableSent = last
  BY <1>1, <1>3, MarkedType
<1>7. ASSUME NEW n \in 1 .. last
      PROVE  StreamText(new, more, n) = StreamText(cl, texts, n)
  <2>1. StreamText(new, more, n) = more[n]
    BY <1>5, <1>6 DEF StreamText
  <2>2. more[n] = IF n <= sent THEN texts[n] ELSE Pending(cl, n).text
    BY <1>2, <1>3, <1>5 DEF Recorded
  <2>3. QED
    BY <1>4, <2>1, <2>2 DEF StreamText
<1>8. QED
  BY <1>1, <1>2, <1>3, <1>6, <1>7 DEF SameStream

\* A message of SV_SendClientGameState or SV_SendClientSnapshot is of a map
\* the server has loaded; a client that was not sent the map's gamestate yet
\* finds none under way.
OfMap(m, number, state) ==
    /\ m.map <= number
    /\ m.configstrings = [i \in Index |-> m.configstrings[i]]
    /\ state = "CONNECTED" /\ m.kind = "gamestate" => m.map < number

MapInv ==
    /\ gameState = [i \in Index |-> gameState[i]]
    /\ serverId <= map
    /\ client.state = "CONNECTED" => serverId < map
    /\ \A j \in 1 .. Len(toClient) : OfMap(toClient[j], map, client.state)

\* A gamestate of this map and the commands after it make strings.
Suffices(m, number, cl, texts, strings) ==
    m.kind = "gamestate" /\ m.map = number =>
        LeadsTo(m.configstrings, cl, texts, strings, m.sequence)

\* The commands that cgame still has to execute lead to the configstrings of
\* the server, from where the client stands and from each gamestate under way.
CurrentInv ==
    intact /\ ~carried /\ client.state # "ZOMBIE" =>
        /\ client.state = "CONNECTED" => executed = client.reliableSequence
        /\ Settled(client)
        /\ UpToDate(client, firstSent, configstrings, executed)
        /\ serverId = map =>
              LeadsTo(gameState, client, firstSent, configstrings, executed)
        /\ \A j \in 1 .. Len(toClient) :
              Suffices(toClient[j], map, client, firstSent, configstrings)

ConfigInv == MapInv /\ CurrentInv

\* Whoever was brought up to date by cl's commands is by new's.
StillLeads(cl, texts, strings, new, more, next) ==
    \A k \in 0 .. cl.reliableSent :
        /\ UpToDate(cl, texts, strings, k) => UpToDate(new, more, next, k)
        /\ \A base : LeadsTo(base, cl, texts, strings, k) =>
                        LeadsTo(base, new, more, next, k)

LEMMA StreamLeads ==
  ASSUME NEW cl, NEW texts, NEW new, NEW more, SameStream(cl, texts, new, more),
         cl.reliableSequence \in Nat, cl.reliableSent \in Nat, NEW strings
  PROVE  StillLeads(cl, texts, strings, new, more, strings)
<1>1. \A k \in 0 .. cl.reliableSent : k \in Nat
  OBVIOUS
<1>2. QED
  BY <1>1, StreamKept DEF StillLeads

\* SV_AddServerCommand of a command that sets no configstring
LEMMA AddLeads ==
  ASSUME NEW cl, NEW texts, QueueType(cl, texts), QueueInv(cl, texts), Settled(cl),
         NEW c \in Text, Backlog(Add(cl, c)) <= RingSize, c.type # "d", NEW strings
  PROVE  StillLeads(cl, texts, strings, Add(cl, c), texts, strings)
<1>1. PICK new : new = Add(cl, c)
  OBVIOUS
<1>2. \A i : KeepsSets(cl, new, i)
  BY <1>1, AddSets DEF Sets
<1>3. /\ cl.reliableSent \in Nat /\ cl.reliableSequence \in Nat
      /\ cl.reliableSent <= cl.reliableSequence
  BY QueueFacts
<1>4. /\ new.reliableSequence \in Nat /\ new.reliableSent = cl.reliableSent
      /\ cl.reliableSent <= new.reliableSequence
  <2>1. QueueType(new, texts) /\ SameCounts(new, cl)
    BY <1>1, AddType
  <2>2. QED
    BY <2>1, QueueFacts DEF SameCounts
<1>5. ASSUME NEW k \in 0 .. cl.reliableSent, NEW i
      PROVE  /\ NoneSet(new, texts, i, k) => NoneSet(cl, texts, i, k)
             /\ \A n \in k + 1 .. new.reliableSequence : LastSet(new, texts, i, n) =>
                   \E m \in k + 1 .. cl.reliableSequence :
                      /\ LastSet(cl, texts, i, m)
                      /\ StreamText(cl, texts, m) = StreamText(new, texts, n)
  <2>1. k \in Nat /\ k <= cl.reliableSent /\ KeepsSets(cl, new, i)
    BY <1>2, <1>3
  <2>2. QED
    BY <1>3, <1>4, <2>1, StreamChanged
<1>6. ASSUME NEW k \in 0 .. cl.reliableSent, UpToDate(cl, texts, strings, k)
      PROVE  UpToDate(new, texts, strings, k)
  <2>1. ASSUME NEW i \in Index, NEW n \in k + 1 .. new.reliableSequence,
               LastSet(new, texts, i, n)
        PROVE  StreamText(new, texts, n).value = strings[i]
    <3>1. PICK m \in k + 1 .. cl.reliableSequence :
             /\ LastSet(cl, texts, i, m)
             /\ StreamText(cl, texts, m) = StreamText(new, texts, n)
      BY <1>5, <2>1
    <3>2. QED
      BY <1>6, <3>1 DEF UpToDate
  <2>2. QED
    BY <2>1 DEF UpToDate
<1>7. ASSUME NEW k \in 0 .. cl.reliableSent, NEW base,
             LeadsTo(base, cl, texts, strings, k)
      PROVE  LeadsTo(base, new, texts, strings, k)
  BY <1>5, <1>7 DEF LeadsTo
<1>8. QED
  BY <1>1, <1>6, <1>7 DEF StillLeads

\* SV_SetConfigstring: the newest command has the new value.
LEMMA SetLeads ==
  ASSUME NEW cl, NEW texts, QueueType(cl, texts), QueueInv(cl, texts), Settled(cl),
         NEW i \in Index, NEW v \in Value,
         Backlog(Add(cl, ConfigCommand(i, v))) <= RingSize,
         NEW strings \in [Index -> Value]
  PROVE  StillLeads(cl, texts, strings, Add(cl, ConfigCommand(i, v)), texts,
                    [strings EXCEPT ![i] = v])
<1>1. PICK c : c = ConfigCommand(i, v)
  OBVIOUS
<1>2. PICK new : new = Add(cl, c)
  OBVIOUS
<1>3. PICK next : next = [strings EXCEPT ![i] = v]
  OBVIOUS
<1>4. /\ c \in Text /\ IsReliable(c) /\ c.type = "d" /\ c.key = i /\ c.value = v
      /\ \A j : j # i => ~Sets(c, j)
  BY <1>1 DEF ConfigCommand, Text, IsReliable, Sets
<1>5. next[i] = v /\ \A j \in Index : j # i => next[j] = strings[j]
  BY <1>3
<1>6. /\ \A j : j # i => KeepsSets(cl, new, j)
      /\ new.reliableSequence \in Unsent(new)
      /\ Pending(new, new.reliableSequence).text = c
  BY <1>1, <1>2, <1>4, AddSets
<1>7. PICK sent : sent = cl.reliableSent
  OBVIOUS
<1>8. PICK last : last = new.reliableSequence
  OBVIOUS
<1>9. /\ sent \in Nat /\ cl.reliableSequence \in Nat
      /\ sent <= cl.reliableSequence
  BY <1>7, QueueFacts
<1>10. /\ last \in Nat /\ new.reliableSent = sent /\ sent < last
       /\ StreamText(new, texts, last) = c
  <2>1. QueueType(new, texts) /\ SameCounts(new, cl)
    BY <1>2, <1>4, AddType
  <2>2. last \in Nat /\ new.reliableSent = sent
    BY <1>7, <1>8, <2>1, QueueFacts DEF SameCounts
  <2>3. last \in sent + 1 .. last
    BY <1>6, <1>8, <2>2 DEF Unsent
  <2>4. sent < last /\ ~(last <= sent)
    BY <1>9, <2>2, <2>3
  <2>5. QED
    BY <1>6, <1>8, <2>2, <2>4 DEF StreamText
<1>11. ASSUME NEW k \in 0 .. sent, NEW j, j # i
       PROVE  /\ NoneSet(new, texts, j, k) => NoneSet(cl, texts, j, k)
              /\ \A n \in k + 1 .. last : LastSet(new, texts, j, n) =>
                    \E m \in k + 1 .. cl.reliableSequence :
                       /\ LastSet(cl, texts, j, m)
                       /\ StreamText(cl, texts, m) = StreamText(new, texts, n)
  <2>1. k \in Nat /\ k <= sent /\ KeepsSets(cl, new, j) /\ sent <= last
    BY <1>6, <1>9, <1>10, <1>11
  <2>2. QED
    BY <1>7, <1>8, <1>9, <1>10, <2>1, StreamChanged
<1>12. \A k \in 0 .. last - 1 : ~NoneSet(new, texts, i, k)
  <2>1. ASSUME NEW k \in 0 .. last - 1 PROVE ~NoneSet(new, texts, i, k)
    <3>1. last \in k + 1 .. last
      BY <1>10
    <3>2. Sets(StreamText(new, texts, last), i)
      BY <1>4, <1>10 DEF Sets
    <3>3. QED
      BY <1>8, <3>1, <3>2 DEF NoneSet
  <2>2. QED
    BY <2>1
<1>13. ASSUME NEW k \in 0 .. sent, UpToDate(cl, texts, strings, k)
       PROVE  UpToDate(new, texts, next, k)
  <2>1. ASSUME NEW j \in Index, NEW n \in k + 1 .. last, LastSet(new, texts, j, n)
        PROVE  StreamText(new, texts, n).value = next[j]
    <3>1. CASE j # i
      <4>1. PICK m \in k + 1 .. cl.reliableSequence :
               /\ LastSet(cl, texts, j, m)
               /\ StreamText(cl, texts, m) = StreamText(new, texts, n)
        BY <1>11, <2>1, <3>1
      <4>2. QED
        BY <1>5, <1>13, <3>1, <4>1 DEF UpToDate
    <3>2. CASE j = i
      <4>1. NoneSet(new, texts, i, n)
        BY <2>1, <3>2 DEF LastSet
      <4>2. n = last
        <5>1. n \notin 0 .. last - 1
          BY <1>12, <4>1
        <5>2. QED
          BY <1>9, <1>10, <5>1
      <4>3. QED
        BY <1>4, <1>5, <1>10, <3>2, <4>2
    <3>3. QED
      BY <3>1, <3>2
  <2>2. QED
    BY <1>8, <2>1 DEF UpToDate
<1>14. ASSUME NEW k \in 0 .. sent, NEW base, LeadsTo(base, cl, texts, strings, k)
       PROVE  LeadsTo(base, new, texts, next, k)
  <2>1. ASSUME NEW j \in Index, NoneSet(new, texts, j, k)
        PROVE  base[j] = next[j]
    <3>1. j # i
      <4>1. k \in 0 .. last - 1
        BY <1>9, <1>10
      <4>2. QED
        BY <1>12, <2>1, <4>1
    <3>2. NoneSet(cl, texts, j, k)
      BY <1>11, <2>1, <3>1
    <3>3. QED
      BY <1>5, <1>14, <3>1, <3>2 DEF LeadsTo
  <2>2. QED
    BY <2>1 DEF LeadsTo
<1>15. QED
  BY <1>1, <1>2, <1>3, <1>7, <1>13, <1>14 DEF StillLeads

\* What is under way after a message was sent, and after one arrived.
LEMMA UnderWay ==
  ASSUME NEW channel, IsSequence(channel)
  PROVE  /\ \A m : \A j \in 1 .. Len(Send(channel, m)) :
               \/ Send(channel, m)[j] = m
               \/ \E k \in 1 .. Len(channel) : Send(channel, m)[j] = channel[k]
         /\ \A i \in 1 .. Len(channel) : \A j \in 1 .. Len(After(channel, i)) :
               \E k \in 1 .. Len(channel) : After(channel, i)[j] = channel[k]
<1>1. Len(channel) \in Nat
  BY LenProperties DEF IsSequence
<1>2. ASSUME NEW m, NEW j \in 1 .. Len(Send(channel, m))
      PROVE  \/ Send(channel, m)[j] = m
             \/ \E k \in 1 .. Len(channel) : Send(channel, m)[j] = channel[k]
  <2>1. PICK d \in {0, 1} :
           /\ Len(channel) - d \in Nat
           /\ Len(Send(channel, m)) = Len(channel) - d + 1
           /\ \A i \in 1 .. Len(channel) - d : Send(channel, m)[i] = channel[i + d]
           /\ Send(channel, m)[Len(channel) - d + 1] = m
    BY SentProperties, InFlightAssumption DEF Send
  <2>2. CASE j = Len(channel) - d + 1
    BY <2>1, <2>2
  <2>3. CASE j # Len(channel) - d + 1
    <3>1. j \in 1 .. Len(channel) - d /\ j + d \in 1 .. Len(channel)
      BY <1>1, <2>1, <2>3
    <3>2. QED
      BY <2>1, <3>1
  <2>4. QED
    BY <2>2, <2>3
<1>3. ASSUME NEW i \in 1 .. Len(channel), NEW j \in 1 .. Len(After(channel, i))
      PROVE  \E k \in 1 .. Len(channel) : After(channel, i)[j] = channel[k]
  <2>1. /\ Len(channel) - i \in Nat /\ Len(After(channel, i)) = Len(channel) - i
        /\ \A k \in 1 .. Len(channel) - i : After(channel, i)[k] = channel[i + k]
    BY AfterProperties
  <2>2. j \in 1 .. Len(channel) - i /\ i + j \in 1 .. Len(channel)
    BY <1>1, <2>1
  <2>3. QED
    BY <2>1, <2>2
<1>4. QED
  BY <1>2, <1>3

\* A message just sent.
Fresh(m, number, state, strings) ==
    /\ m.map = number
    /\ m.configstrings = strings
    /\ m.kind = "gamestate" => state # "CONNECTED"

\* A step of the server that loads no map.
LEMMA ServerConfigStep ==
  ASSUME IInv, IInv', ConfigInv, UNCHANGED clientVars, UNCHANGED <<map, carried>>,
         client'.state # "ZOMBIE" => client.state # "ZOMBIE",
         client'.state = "CONNECTED" =>
            /\ client.state = "CONNECTED"
            /\ client'.reliableSequence = client.reliableSequence,
         intact' => intact,
         NEW m,
         \/ toClient' = toClient
         \/ /\ toClient' = Send(toClient, m)
            /\ Fresh(m, map, client'.state, configstrings'),
         intact' /\ client'.state # "ZOMBIE" /\ Settled(client) =>
            /\ Settled(client')
            /\ client'.state # "CONNECTED" =>
                  StillLeads(client, firstSent, configstrings,
                             client', firstSent', configstrings')
  PROVE  ConfigInv'
<1>1. /\ gameState' = gameState /\ serverId' = serverId /\ executed' = executed
      /\ map' = map /\ carried' = carried
  BY DEF clientVars
<1>2. /\ configstrings' = [i \in Index |-> configstrings'[i]]
      /\ map \in Nat /\ serverId \in Nat /\ executed \in Nat
      /\ IsSequence(toClient)
      /\ \A j \in 1 .. Len(toClient) : toClient[j].map \in Nat /\ toClient[j].sequence \in Nat
  <2>1. configstrings' \in [Index -> Value]
    BY DEF IInv, StreamType, TypeOK
  <2>2. configstrings' = [i \in Index |-> configstrings'[i]]
    BY <2>1
  <2>3. QED
    BY <2>2 DEF IInv, StreamType, TypeOK, MessageType
<1>3. client'.reliableSequence \in Nat /\ client.reliableSent \in Nat
  <2>1. QueueType(client, firstSent) /\ QueueType(client', firstSent')
    BY DEF IInv, StreamType
  <2>2. QED
    BY <2>1, QueueFacts
<1>4. ASSUME NEW j \in 1 .. Len(toClient')
      PROVE  \/ /\ toClient'[j] = m
                /\ Fresh(m, map, client'.state, configstrings')
             \/ \E k \in 1 .. Len(toClient) : toClient'[j] = toClient[k]
  BY <1>2, UnderWay
<1>5. MapInv'
  <2>1. ASSUME NEW j \in 1 .. Len(toClient')
        PROVE  OfMap(toClient'[j], map', client'.state)
    <3>1. CASE /\ toClient'[j] = m
               /\ Fresh(m, map, client'.state, configstrings')
      BY <1>1, <1>2, <3>1 DEF Fresh, OfMap
    <3>2. ASSUME NEW k \in 1 .. Len(toClient), toClient'[j] = toClient[k]
          PROVE  OfMap(toClient'[j], map', client'.state)
      <4>1. OfMap(toClient[k], map, client.state)
        BY DEF ConfigInv, MapInv
      <4>2. QED
        BY <1>1, <3>2, <4>1 DEF OfMap
    <3>3. QED
      BY <1>4, <3>1, <3>2
  <2>2. /\ gameState = [i \in Index |-> gameState[i]]
        /\ serverId <= map
        /\ client'.state = "CONNECTED" => serverId < map
    BY DEF ConfigInv, MapInv
  <2>3. QED
    BY <1>1, <2>1, <2>2 DEF MapInv
<1>6. ASSUME intact', ~carried', client'.state # "ZOMBIE"
      PROVE  /\ client'.state = "CONNECTED" => executed' = client'.reliableSequence
             /\ Settled(client')
             /\ UpToDate(client', firstSent', configstrings', executed')
             /\ serverId' = map' =>
                   LeadsTo(gameState', client', firstSent', configstrings', executed')
             /\ \A j \in 1 .. Len(toClient') :
                   Suffices(toClient'[j], map', client', firstSent', configstrings')
  <2>1. /\ client.state = "CONNECTED" => executed = client.reliableSequence
        /\ Settled(client)
        /\ UpToDate(client, firstSent, configstrings, executed)
        /\ serverId = map =>
              LeadsTo(gameState, client, firstSent, configstrings, executed)
        /\ \A j \in 1 .. Len(toClient) :
              Suffices(toClient[j], map, client, firstSent, configstrings)
    BY <1>1, <1>6 DEF ConfigInv, CurrentInv
  <2>2. Settled(client')
    BY <1>6, <2>1
  <2>3. /\ serverCommandSequence <= client.reliableSent
        /\ executed <= serverCommandSequence
        /\ \A j \in 1 .. Len(toClient) : toClient[j].kind = "gamestate" =>
              toClient[j].sequence <= client.reliableSent
    BY <1>6 DEF IInv, StreamInv, ToClientInv, Continues
  <2>4. executed \in 0 .. client.reliableSent
    <3>1. serverCommandSequence \in Nat
      BY DEF IInv, StreamType, TypeOK
    <3>2. QED
      BY <1>2, <1>3, <2>3, <3>1
  <2>5. CASE client'.state = "CONNECTED"
    <3>1. executed' = client'.reliableSequence
      BY <1>1, <2>1, <2>5
    <3>2. UpToDate(client', firstSent', configstrings', executed')
      <4>1. executed' + 1 .. client'.reliableSequence = {}
        BY <1>3, <3>1
      <4>2. QED
        BY <4>1 DEF UpToDate
    <3>3. /\ serverId' < map'
          /\ \A j \in 1 .. Len(toClient') : OfMap(toClient'[j], map', "CONNECTED")
      BY <1>5, <2>5 DEF MapInv
    <3>4. serverId' # map' /\ map' \in Nat
      BY <1>1, <1>2, <3>3
    <3>5. ASSUME NEW j \in 1 .. Len(toClient')
          PROVE  Suffices(toClient'[j], map', client', firstSent', configstrings')
      <4>1. toClient'[j].kind = "gamestate" => toClient'[j].map < map'
        BY <3>3 DEF OfMap
      <4>2. ~(map' < map')
        BY <3>4
      <4>3. QED
        BY <4>1, <4>2 DEF Suffices
    <3>6. QED
      BY <2>2, <3>1, <3>2, <3>4, <3>5
  <2>6. CASE client'.state # "CONNECTED"
    <3>1. StillLeads(client, firstSent, configstrings,
                     client', firstSent', configstrings')
      BY <1>6, <2>1, <2>6
    <3>2. UpToDate(client', firstSent', configstrings', executed')
      BY <1>1, <2>1, <2>4, <3>1 DEF StillLeads
    <3>3. serverId' = map' =>
             LeadsTo(gameState', client', firstSent', configstrings', executed')
      BY <1>1, <2>1, <2>4, <3>1 DEF StillLeads
    <3>4. ASSUME NEW j \in 1 .. Len(toClient'), toClient'[j].kind = "gamestate",
                 toClient'[j].map = map'
          PROVE  LeadsTo(toClient'[j].configstrings, client', firstSent',
                         configstrings', toClient'[j].sequence)
      <4>1. CASE /\ toClient'[j] = m
                 /\ Fresh(m, map, client'.state, configstrings')
        <5>1. /\ toClient'[j].configstrings = configstrings'
          BY <4>1 DEF Fresh
        <5>2. QED
          BY <5>1 DEF LeadsTo
      <4>2. ASSUME NEW k \in 1 .. Len(toClient), toClient'[j] = toClient[k]
            PROVE  LeadsTo(toClient'[j].configstrings, client', firstSent',
                           configstrings', toClient'[j].sequence)
        <5>1. LeadsTo(toClient[k].configstrings, client, firstSent, configstrings,
                      toClient[k].sequence)
          BY <1>1, <2>1, <3>4, <4>2 DEF Suffices
        <5>2. toClient[k].sequence \in 0 .. client.reliableSent
          BY <1>2, <1>3, <2>3, <3>4, <4>2
        <5>3. QED
          BY <3>1, <4>2, <5>1, <5>2 DEF StillLeads
      <4>3. QED
        BY <1>4, <4>1, <4>2
    <3>5. QED
      BY <2>2, <2>6, <3>2, <3>3, <3>4 DEF Suffices
  <2>7. QED
    BY <2>5, <2>6
<1>7. QED
  BY <1>5, <1>6 DEF ConfigInv, CurrentInv

LEMMA SameLeads ==
  ASSUME NEW cl, NEW texts, QueueType(cl, texts), NEW new, new.ring = cl.ring,
         new.reliableSequence = cl.reliableSequence,
         new.reliableSent = cl.reliableSent
  PROVE  /\ Settled(cl) => Settled(new)
         /\ \A strings : StillLeads(cl, texts, strings, new, texts, strings)
<1>1. SameStream(cl, texts, new, texts)
  BY DEF SameStream, StreamText, Pending
<1>2. Settled(cl) => Settled(new)
  BY DEF Settled, Unsent, Pending
<1>3. cl.reliableSequence \in Nat /\ cl.reliableSent \in Nat
  BY QueueFacts
<1>4. QED
  BY <1>1, <1>2, <1>3, StreamLeads

\* SV_DropClient leaves a zombie.
LEMMA DropState ==
  ASSUME NEW cl \in ClientRecord
  PROVE  DropClient(cl).state = "ZOMBIE"
<1> DEFINE zombie == [cl EXCEPT !.state = "ZOMBIE", !.deferredDrop = FALSE]
<1>1. zombie \in ClientRecord /\ zombie.state = "ZOMBIE"
  BY DEF ClientRecord
<1>2. Add(zombie, Drop).state = "ZOMBIE"
  <2> HIDE DEF zombie
  <2>1. QED
    BY <1>1, AddState
<1>3. QED
  BY <1>2 DEF DropClient

\* SV_SendMessageToClient to a client that it does not drop
LEMMA NotDropped ==
  ASSUME NEW cl \in ClientRecord, NEW kind, NEW commands,
         Transmit(cl, kind, commands), client'.state # "ZOMBIE"
  PROVE  /\ client'.state = cl.state /\ client'.ring = cl.ring
         /\ client'.reliableSequence = cl.reliableSequence
         /\ client'.reliableSent = cl.reliableSent
<1>1. PICK left : left = IF cl.deferredDrop THEN DropClient(cl) ELSE cl
  OBVIOUS
<1>2. client' = [left EXCEPT !.outgoingSequence = @ + 1]
  BY <1>1 DEF Transmit
<1>3. client'.state = left.state
  <2>1. CASE cl.deferredDrop
    <3>1. left = DropClient(cl)
      BY <1>1, <2>1
    <3>2. "state" \in DOMAIN left
      BY <3>1 DEF DropClient, Add, Write, MakeRoom, Cull, ClientRecord
    <3>3. QED
      BY <1>2, <3>2
  <2>2. CASE ~cl.deferredDrop
    BY <1>1, <1>2, <2>2 DEF ClientRecord
  <2>3. QED
    BY <2>1, <2>2
<1>4. left = cl
  BY <1>1, <1>3, DropState
<1>5. QED
  BY <1>2, <1>4 DEF ClientRecord

LEMMA SendServerCommandConfig ==
  ASSUME IInv, IInv', ConfigInv, NEW c \in Command, c.type # "d",
         SendServerCommand(c)
  PROVE  ConfigInv'
<1>1. /\ client' = Add(client, c) /\ client.state \in {"PRIMED", "ACTIVE"}
      /\ intact' = (intact /\ Backlog(Add(client, c)) <= RingSize)
      /\ UNCHANGED clientVars /\ UNCHANGED <<map, carried>>
      /\ firstSent' = firstSent /\ toClient' = toClient
      /\ configstrings' = configstrings
  BY DEF SendServerCommand, Issue
<1>2. QueueType(client, firstSent) /\ client \in ClientRecord /\ c \in Text
  BY DEF IInv, StreamType, QueueType, Text
<1>3. client'.state = client.state
  BY <1>1, <1>2, AddState
<1>4. ASSUME intact', Settled(client)
      PROVE  /\ Settled(client')
             /\ StillLeads(client, firstSent, configstrings,
                           client', firstSent', configstrings')
  <2>1. QueueInv(client, firstSent) /\ Backlog(Add(client, c)) <= RingSize
    BY <1>1, <1>4 DEF IInv, StreamInv
  <2>2. Settled(Add(client, c))
    BY <1>2, <1>4, <2>1, AddSets
  <2>3. StillLeads(client, firstSent, configstrings,
                   Add(client, c), firstSent, configstrings)
    BY <1>2, <1>4, <2>1, AddLeads
  <2>4. QED
    BY <1>1, <2>2, <2>3
<1>5. QED
  BY <1>1, <1>3, <1>4, ServerConfigStep

LEMMA SetConfigstringConfig ==
  ASSUME IInv, IInv', ConfigInv, NEW i \in Index, NEW v \in Value,
         SetConfigstring(i, v)
  PROVE  ConfigInv'
<1> DEFINE c == ConfigCommand(i, v)
<1>1. /\ configstrings' = [configstrings EXCEPT ![i] = v]
      /\ IF client.state \in {"PRIMED", "ACTIVE"}
           THEN /\ client' = Add(client, c)
                /\ intact' = (intact /\ Backlog(Add(client, c)) <= RingSize)
           ELSE /\ client' = client
                /\ intact' = (intact /\ Backlog(client) <= RingSize)
      /\ UNCHANGED clientVars /\ UNCHANGED <<map, carried>>
      /\ firstSent' = firstSent /\ toClient' = toClient
  BY DEF SetConfigstring, Issue
<1>2. /\ QueueType(client, firstSent) /\ client \in ClientRecord
      /\ c \in Text /\ configstrings \in [Index -> Value]
  <2>1. c \in Text
    BY DEF Text
  <2>2. QED
    BY <2>1 DEF IInv, StreamType, TypeOK, QueueType
<1>3. client'.state = client.state /\ (intact' => intact)
  <2>1. Add(client, c).state = client.state
    BY <1>2, AddState
  <2>2. QED
    BY <1>1, <2>1
<1>4. CASE client.state \in {"PRIMED", "ACTIVE"}
  <2>1. /\ client' = Add(client, c)
        /\ intact' = (intact /\ Backlog(Add(client, c)) <= RingSize)
    BY <1>1, <1>4
  <2>2. ASSUME intact', Settled(client)
        PROVE  /\ Settled(client')
               /\ StillLeads(client, firstSent, configstrings,
                             client', firstSent', configstrings')
    <3>1. QueueInv(client, firstSent) /\ Backlog(Add(client, c)) <= RingSize
      BY <2>1, <2>2 DEF IInv, StreamInv
    <3>2. Settled(Add(client, c))
      BY <1>2, <2>2, <3>1, AddSets
    <3>3. StillLeads(client, firstSent, configstrings, Add(client, c), firstSent,
                     [configstrings EXCEPT ![i] = v])
      BY <1>2, <2>2, <3>1, SetLeads
    <3>4. QED
      BY <1>1, <2>1, <3>2, <3>3
  <2>3. QED
    BY <1>1, <1>3, <1>4, <2>2, ServerConfigStep
<1>5. CASE client.state \notin {"PRIMED", "ACTIVE"}
  <2>1. client' = client /\ client'.state \in {"CONNECTED", "ZOMBIE"}
    BY <1>1, <1>2, <1>5 DEF ClientRecord
  <2>2. QED
    BY <1>1, <1>3, <2>1, ServerConfigStep
<1>6. QED
  BY <1>4, <1>5

LEMMA DisconnectConfig ==
  ASSUME IInv, IInv', ConfigInv, Disconnect
  PROVE  ConfigInv'
<1>1. /\ client' = DropClient(client)
      /\ intact' = (intact /\ Backlog(DropClient(client)) <= RingSize)
      /\ UNCHANGED clientVars /\ UNCHANGED <<map, carried>>
      /\ toClient' = toClient
  BY DEF Disconnect, Issue
<1>2. client'.state = "ZOMBIE"
  BY <1>1, DropState DEF IInv, StreamType, QueueType
<1>3. QED
  BY <1>1, <1>2, ServerConfigStep

\* SV_SpawnServer: whoever executed everything waits for the new gamestate.
LEMMA SpawnServerConfig ==
  ASSUME IInv, IInv', ConfigInv, SpawnServer
  PROVE  ConfigInv'
<1>1. /\ map' = map + 1
      /\ client' = [client EXCEPT
                      !.state = IF @ = "ZOMBIE" THEN @ ELSE "CONNECTED"]
      /\ carried' = (carried \/ executed # client.reliableSequence)
      /\ firstSent' = firstSent /\ intact' = intact /\ toClient' = toClient
      /\ serverId' = serverId /\ gameState' = gameState /\ executed' = executed
  BY DEF SpawnServer, clientVars
<1>2. /\ map \in Nat /\ serverId \in Nat /\ client.reliableSequence \in Nat
      /\ client \in ClientRecord /\ QueueType(client, firstSent)
      /\ \A j \in 1 .. Len(toClient) : toClient[j].map \in Nat
  <2>1. client \in ClientRecord /\ QueueType(client, firstSent)
    BY DEF IInv, StreamType, QueueType
  <2>2. QED
    BY <2>1, QueueFacts DEF IInv, StreamType, TypeOK, MessageType
<1>3. /\ client'.ring = client.ring /\ client'.reliableSent = client.reliableSent
      /\ client'.reliableSequence = client.reliableSequence
      /\ client'.state = IF client.state = "ZOMBIE" THEN "ZOMBIE" ELSE "CONNECTED"
  BY <1>1, <1>2 DEF ClientRecord
<1>4. /\ serverId < map'
      /\ \A j \in 1 .. Len(toClient) :
            /\ toClient[j].map < map' /\ toClient[j].map <= map'
            /\ toClient[j].configstrings = [i \in Index |-> toClient[j].configstrings[i]]
  BY SMTT(20), <1>1, <1>2 DEF ConfigInv, MapInv, OfMap
<1>5. MapInv'
  <2>1. gameState = [i \in Index |-> gameState[i]] /\ serverId <= map'
    BY <1>1, <1>2, <1>4 DEF ConfigInv, MapInv
  <2>2. QED
    BY <1>1, <1>4, <2>1 DEF MapInv, OfMap
<1>6. ASSUME intact', ~carried', client'.state # "ZOMBIE"
      PROVE  /\ executed' = client'.reliableSequence
             /\ Settled(client')
             /\ UpToDate(client', firstSent', configstrings', executed')
             /\ serverId' # map'
             /\ \A j \in 1 .. Len(toClient') :
                   Suffices(toClient'[j], map', client', firstSent', configstrings')
  <2>1. executed' = client'.reliableSequence /\ Settled(client)
    BY <1>1, <1>3, <1>6 DEF ConfigInv, CurrentInv
  <2>2. Settled(client')
    BY <1>2, <1>3, <2>1, SameLeads
  <2>3. UpToDate(client', firstSent', configstrings', executed')
    <3>1. executed' + 1 .. client'.reliableSequence = {}
      BY <1>2, <1>3, <2>1
    <3>2. QED
      BY <3>1 DEF UpToDate
  <2>4. serverId' # map' /\ \A j \in 1 .. Len(toClient) : toClient[j].map # map'
    <3>1. map' \in Nat
      BY <1>1, <1>2
    <3>2. ~(map' < map')
      BY <3>1
    <3>3. QED
      BY <1>1, <1>4, <3>2
  <2>5. QED
    BY <1>1, <2>1, <2>2, <2>3, <2>4 DEF Suffices
<1>7. QED
  BY <1>5, <1>6 DEF ConfigInv, CurrentInv

\* A message with everything the queue holds.
LEMMA SentConfig ==
  ASSUME IInv, IInv', ConfigInv, NEW cl, QueueType(cl, firstSent),
         cl.reliableSent = client.reliableSent, cl.ring = client.ring,
         cl.reliableSequence = client.reliableSequence,
         NEW primed \in ClientRecord, SameQueue(primed, MarkSent(cl)),
         primed.state # "CONNECTED",
         primed.state # "ZOMBIE" => client.state # "ZOMBIE",
         UNCHANGED clientVars, UNCHANGED <<map, configstrings, carried>>,
         NEW kind, NEW commands,
         RecordSent(cl), Transmit(primed, kind, commands)
  PROVE  ConfigInv'
<1>1. QueueType(client, firstSent) /\ client'.state \in {"ZOMBIE", primed.state}
  BY NotDropped DEF IInv, StreamType
<1>2. /\ toClient' = Send(toClient, MessageOf(primed, kind, commands))
      /\ intact' => intact
  BY DEF Transmit, MessageOf
<1>3. PICK m : m = MessageOf(primed, kind, commands)
  OBVIOUS
<1>4. Fresh(m, map, client'.state, configstrings')
  BY <1>1, <1>3 DEF MessageOf, Fresh
<1>5. ASSUME client'.state # "ZOMBIE"
      PROVE  /\ Settled(client')
             /\ StillLeads(client, firstSent, configstrings,
                           client', firstSent', configstrings')
  <2>1. /\ client'.ring = primed.ring
        /\ client'.reliableSequence = primed.reliableSequence
        /\ client'.reliableSent = primed.reliableSent
    BY <1>5, NotDropped
  <2>2. PICK marked : marked = MarkSent(client)
    OBVIOUS
  <2>3. PICK more : more = Recorded(client, firstSent)
    OBVIOUS
  <2>4. /\ SameStream(client, firstSent, marked, more)
        /\ marked.reliableSequence = client.reliableSequence
        /\ marked.reliableSent = client.reliableSequence
        /\ marked.ring = client.ring
    BY <1>1, <2>2, <2>3, MarkedStream, MarkedType
  <2>5. /\ primed.ring = client.ring
        /\ primed.reliableSequence = client.reliableSequence
        /\ primed.reliableSent = client.reliableSequence
    BY MarkedType DEF SameQueue, SameCounts
  <2>6. firstSent' = more
    BY <2>3 DEF RecordSent, Recorded, Pending
  <2>7. SameStream(client, firstSent, client', firstSent')
    BY <2>1, <2>4, <2>5, <2>6 DEF SameStream, StreamText, Pending
  <2>8. client.reliableSequence \in Nat /\ client.reliableSent \in Nat
    BY <1>1, QueueFacts
  <2>9. StillLeads(client, firstSent, configstrings,
                   client', firstSent', configstrings)
    BY <2>7, <2>8, StreamLeads
  <2>10. Settled(client')
    <3>1. Unsent(client') = {}
      BY <2>1, <2>5, <2>8 DEF Unsent
    <3>2. QED
      BY <3>1 DEF Settled
  <2>11. QED
    BY <2>9, <2>10
<1>6. /\ client'.state # "CONNECTED"
      /\ client'.state # "ZOMBIE" => client.state # "ZOMBIE"
      /\ UNCHANGED <<map, carried>>
  BY <1>1
<1>7. toClient' = Send(toClient, m)
  BY <1>2, <1>3
<1>8. QED
  BY <1>2, <1>4, <1>5, <1>6, <1>7, ServerConfigStep

\* A step that leaves the queue as it is.
LEMMA QuietConfig ==
  ASSUME IInv, IInv', ConfigInv,
         UNCHANGED clientVars, UNCHANGED <<map, configstrings, carried, firstSent>>,
         client'.state # "ZOMBIE" =>
            /\ client.state # "ZOMBIE"
            /\ client'.ring = client.ring
            /\ client'.reliableSequence = client.reliableSequence
            /\ client'.reliableSent = client.reliableSent,
         client'.state = "CONNECTED" => client.state = "CONNECTED",
         intact' => intact, NEW m,
         \/ toClient' = toClient
         \/ /\ toClient' = Send(toClient, m)
            /\ Fresh(m, map, client'.state, configstrings)
  PROVE  ConfigInv'
<1>1. QueueType(client, firstSent)
  BY DEF IInv, StreamType
<1>2. ASSUME client'.state # "ZOMBIE", Settled(client)
      PROVE  /\ Settled(client')
             /\ StillLeads(client, firstSent, configstrings,
                           client', firstSent', configstrings')
  BY <1>1, <1>2, SameLeads
<1>3. UNCHANGED <<map, carried>> /\ configstrings' = configstrings
  OBVIOUS
<1>4. QED
  BY <1>2, <1>3, ServerConfigStep

LEMMA SendClientSnapshotConfig ==
  ASSUME IInv, IInv', ConfigInv, SendClientSnapshot
  PROVE  ConfigInv'
<1>1. /\ UNCHANGED <<map, configstrings, carried>> /\ UNCHANGED clientVars
      /\ QueueType(client, firstSent) /\ client \in ClientRecord
  BY DEF SendClientSnapshot, IInv, StreamType, QueueType
<1>2. CASE client.state \in {"ACTIVE", "ZOMBIE"}
  <2>1. PICK marked : marked = MarkSent(client)
    OBVIOUS
  <2>2. /\ marked \in ClientRecord /\ SameQueue(marked, MarkSent(client))
        /\ marked.state = client.state
    BY <1>1, <2>1 DEF MarkSent, ClientRecord, SameQueue, SameCounts
  <2>3. /\ RecordSent(client)
        /\ \/ Transmit(marked, "snapshot", Repeated(client))
           \/ Transmit(marked, "commands", Fitting(client))
    BY <1>2, <2>1 DEF SendClientSnapshot
  <2>4. CASE Transmit(marked, "snapshot", Repeated(client))
    BY <1>1, <1>2, <2>2, <2>3, <2>4, SentConfig
  <2>5. CASE Transmit(marked, "commands", Fitting(client))
    BY <1>1, <1>2, <2>2, <2>3, <2>5, SentConfig
  <2>6. QED
    BY <2>3, <2>4, <2>5
<1>3. CASE client.state \notin {"ACTIVE", "ZOMBIE"}
  <2>1. Transmit(client, "commands", <<>>) /\ firstSent' = firstSent
    BY <1>3 DEF SendClientSnapshot
  <2>2. PICK m : m = MessageOf(client, "commands", <<>>)
    OBVIOUS
  <2>3. /\ toClient' = Send(toClient, m) /\ (intact' => intact)
        /\ Fresh(m, map, client'.state, configstrings)
    BY <2>1, <2>2 DEF Transmit, MessageOf, Fresh
  <2>4. client'.state # "ZOMBIE" =>
           /\ client'.state = client.state /\ client'.ring = client.ring
           /\ client'.reliableSequence = client.reliableSequence
           /\ client'.reliableSent = client.reliableSent
    BY <1>1, <2>1, NotDropped
  <2>5. QED
    BY <1>1, <1>3, <2>1, <2>3, <2>4, QuietConfig
<1>4. QED
  BY <1>2, <1>3

LEMMA ReceiveFromClientConfig ==
  ASSUME IInv, IInv', ConfigInv, NEW i \in 1 .. Len(toServer), ReceiveFromClient(i)
  PROVE  ConfigInv'
<1>1. PICK m : m = toServer[i]
  OBVIOUS
<1>2. PICK cl : cl = [client EXCEPT !.reliableAcknowledge = m.reliableAcknowledge]
  OBVIOUS
<1>3. /\ UNCHANGED <<map, configstrings, carried>> /\ UNCHANGED clientVars
      /\ IF Decodable(client, m)
           THEN Execute(cl, m)
           ELSE /\ client' = [client EXCEPT
                                !.reliableAcknowledge = @ + Backlog(client)]
                /\ intact' = FALSE
                /\ UNCHANGED <<firstSent, toClient>>
  BY <1>1, <1>2 DEF ReceiveFromClient
<1>4. /\ QueueType(client, firstSent) /\ client \in ClientRecord
      /\ m.reliableAcknowledge \in Nat
  BY <1>1 DEF IInv, StreamType, QueueType, PacketType
<1>5. /\ QueueType(cl, firstSent) /\ cl \in ClientRecord
      /\ cl.reliableSent = client.reliableSent /\ cl.ring = client.ring
      /\ cl.reliableSequence = client.reliableSequence
      /\ cl.state = client.state
  <2>1. QueueType(cl, firstSent)
    BY <1>2, <1>4, AcknowledgedKeeps
  <2>2. QED
    BY <1>2, <1>4, <2>1 DEF ClientRecord, QueueType
<1>6. CASE SendClientGameState(cl) /\ cl.state # "ZOMBIE"
  <2>1. PICK primed : primed = [MarkSent(cl) EXCEPT
                                  !.state = "PRIMED",
                                  !.gamestateMessageNum = cl.outgoingSequence]
    OBVIOUS
  <2>2. /\ RecordSent(cl)
        /\ Transmit(primed, IF Fits(Repeated(cl)) THEN "gamestate" ELSE "truncated",
                    Repeated(cl))
    BY <1>6, <2>1 DEF SendClientGameState
  <2>3. /\ primed \in ClientRecord /\ SameQueue(primed, MarkSent(cl))
        /\ primed.state = "PRIMED"
    <3>1. PICK marked : marked = MarkSent(cl)
      OBVIOUS
    <3>2. marked \in ClientRecord
      BY <1>5, <3>1 DEF MarkSent, ClientRecord
    <3>3. cl.outgoingSequence \in Int
      BY <1>5 DEF ClientRecord
    <3>4. primed = [marked EXCEPT !.state = "PRIMED",
                                  !.gamestateMessageNum = cl.outgoingSequence]
      BY <2>1, <3>1
    <3>5. primed \in ClientRecord /\ primed.state = "PRIMED"
      BY <3>2, <3>3, <3>4 DEF ClientRecord
    <3>6. SameQueue(primed, marked)
      BY <3>2, <3>4 DEF ClientRecord, SameQueue, SameCounts
    <3>7. QED
      BY <3>1, <3>5, <3>6
  <2>4. QED
    BY <1>3, <1>5, <1>6, <2>2, <2>3, SentConfig
<1>7. CASE /\ client' = IF m.serverId = map /\ m.move THEN UserMove(cl) ELSE cl
           /\ UNCHANGED <<firstSent, intact, toClient>>
  <2>1. /\ client'.ring = cl.ring
        /\ client'.reliableSequence = cl.reliableSequence
        /\ client'.reliableSent = cl.reliableSent
        /\ client'.state \in {"CONNECTED", "ZOMBIE"} => client'.state = cl.state
        /\ client'.state # "ZOMBIE" => cl.state # "ZOMBIE"
    <3>1. PICK moved : moved = UserMove(cl)
      OBVIOUS
    <3>2. /\ moved.ring = cl.ring
          /\ moved.reliableSequence = cl.reliableSequence
          /\ moved.reliableSent = cl.reliableSent
          /\ moved.state = IF cl.state = "PRIMED" THEN "ACTIVE" ELSE cl.state
      BY <1>5, <3>1 DEF UserMove, ClientRecord
    <3>3. client' = cl \/ client' = moved
      BY <1>7, <3>1
    <3>4. CASE client' = cl
      BY <3>4
    <3>5. CASE client' = moved
      BY <3>2, <3>5
    <3>6. QED
      BY <3>3, <3>4, <3>5
  <2>2. QED
    BY <1>3, <1>5, <1>7, <2>1, QuietConfig
<1>8. CASE /\ client' = [client EXCEPT !.reliableAcknowledge = @ + Backlog(client)]
           /\ intact' = FALSE
           /\ UNCHANGED <<firstSent, toClient>>
  <2>1. /\ client'.ring = client.ring
        /\ client'.reliableSequence = client.reliableSequence
        /\ client'.reliableSent = client.reliableSent
        /\ client'.state = client.state
    BY <1>4, <1>8 DEF ClientRecord
  <2>2. QED
    BY <1>3, <1>8, <2>1, QuietConfig
<1>9. QED
  BY <1>3, <1>6, <1>7, <1>8 DEF Execute

LEMMA LaterLeads ==
  ASSUME NEW cl, NEW texts, cl.reliableSequence \in Nat, NEW strings,
         NEW k \in Nat, NEW n \in Nat, k <= n
  PROVE  /\ UpToDate(cl, texts, strings, k) => UpToDate(cl, texts, strings, n)
         /\ \A base : LeadsTo(base, cl, texts, strings, n) =>
                         LeadsTo(base, cl, texts, strings, k)
<1>1. \A j \in n + 1 .. cl.reliableSequence : j \in k + 1 .. cl.reliableSequence
  OBVIOUS
<1>2. \A i : NoneSet(cl, texts, i, k) => NoneSet(cl, texts, i, n)
  BY <1>1 DEF NoneSet
<1>3. UpToDate(cl, texts, strings, k) => UpToDate(cl, texts, strings, n)
  BY <1>1 DEF UpToDate
<1>4. QED
  BY <1>2, <1>3 DEF LeadsTo

\* A step of the client.
LEMMA ClientConfigStep ==
  ASSUME IInv, ConfigInv, UNCHANGED serverVars,
         \A j \in 1 .. Len(toClient') :
            \E k \in 1 .. Len(toClient) : toClient'[j] = toClient[k],
         gameState' = [i \in Index |-> gameState'[i]],
         serverId' <= map, client.state = "CONNECTED" => serverId' < map,
         executed' \in Nat, executed <= executed',
         intact => executed' <= serverCommandSequence,
         intact /\ ~carried /\ client.state # "ZOMBIE" /\ serverId' = map =>
            LeadsTo(gameState', client, firstSent, configstrings, executed')
  PROVE  ConfigInv'
<1>1. /\ client' = client /\ firstSent' = firstSent /\ map' = map
      /\ configstrings' = configstrings /\ intact' = intact /\ carried' = carried
  BY DEF serverVars, historyVars
<1>2. MapInv'
  <2>1. \A j \in 1 .. Len(toClient') : OfMap(toClient'[j], map, client.state)
    BY DEF ConfigInv, MapInv
  <2>2. QED
    BY <1>1, <2>1 DEF MapInv
<1>3. ASSUME intact, ~carried, client.state # "ZOMBIE"
      PROVE  /\ client.state = "CONNECTED" => executed' = client.reliableSequence
             /\ Settled(client)
             /\ UpToDate(client, firstSent, configstrings, executed')
             /\ \A j \in 1 .. Len(toClient') :
                   Suffices(toClient'[j], map, client, firstSent, configstrings)
  <2>1. /\ client.state = "CONNECTED" => executed = client.reliableSequence
        /\ Settled(client)
        /\ UpToDate(client, firstSent, configstrings, executed)
        /\ \A j \in 1 .. Len(toClient) :
              Suffices(toClient[j], map, client, firstSent, configstrings)
    BY <1>3 DEF ConfigInv, CurrentInv
  <2>2. /\ executed \in Nat /\ client.reliableSequence \in Nat
        /\ client.reliableSent \in Nat /\ serverCommandSequence \in Nat
        /\ client.reliableSent <= client.reliableSequence
        /\ serverCommandSequence <= client.reliableSent
    <3>1. QueueType(client, firstSent)
      BY DEF IInv, StreamType
    <3>2. QED
      BY <1>3, <3>1, QueueFacts DEF IInv, StreamType, TypeOK, StreamInv
  <2>3. client.state = "CONNECTED" => executed' = client.reliableSequence
    BY <1>3, <2>1, <2>2
  <2>4. UpToDate(client, firstSent, configstrings, executed')
    BY <2>1, <2>2, LaterLeads
  <2>5. QED
    BY <2>1, <2>3, <2>4
<1>4. CurrentInv'
  <2>1. ASSUME intact', ~carried', client'.state # "ZOMBIE"
        PROVE  /\ client'.state = "CONNECTED" => executed' = client'.reliableSequence
               /\ Settled(client')
               /\ UpToDate(client', firstSent', configstrings', executed')
               /\ serverId' = map' => LeadsTo(gameState', client', firstSent',
                                              configstrings', executed')
               /\ \A j \in 1 .. Len(toClient') :
                     Suffices(toClient'[j], map', client', firstSent', configstrings')
    BY <1>1, <1>3, <2>1
  <2>2. QED
    BY <2>1 DEF CurrentInv
<1>5. QED
  BY <1>2, <1>4 DEF ConfigInv

LEMMA ReceiveFromServerConfig ==
  ASSUME IInv, ConfigInv, NEW i \in 1 .. Len(toClient), ReceiveFromServer(i)
  PROVE  ConfigInv'
<1>1. PICK m : m = toClient[i]
  OBVIOUS
<1>2. /\ toClient' = After(toClient, i) /\ UNCHANGED serverVars
      /\ executed' = executed
      /\ \/ m.kind = "gamestate" /\ serverId' = m.map /\ gameState' = m.configstrings
         \/ serverId' = serverId /\ gameState' = gameState
  BY <1>1 DEF ReceiveFromServer, ParseCommands, ParseSnapshot, ParseGamestate,
              ParseTruncated
<1>3. /\ IsSequence(toClient) /\ MessageType(m) /\ executed \in Nat
      /\ serverCommandSequence \in Nat /\ client.reliableSequence \in Nat
  <2>1. QueueType(client, firstSent)
    BY DEF IInv, StreamType
  <2>2. QED
    BY <1>1, <2>1, QueueFacts DEF IInv, StreamType, TypeOK
<1>4. \A j \in 1 .. Len(toClient') :
         \E k \in 1 .. Len(toClient) : toClient'[j] = toClient[k]
  BY SMTT(20), <1>2, <1>3, UnderWay
<1>5. /\ serverId <= map /\ (client.state = "CONNECTED" => serverId < map)
      /\ gameState = [j \in Index |-> gameState[j]] /\ OfMap(m, map, client.state)
  BY <1>1 DEF ConfigInv, MapInv
<1>6. /\ gameState' = [j \in Index |-> gameState'[j]]
      /\ serverId' <= map /\ (client.state = "CONNECTED" => serverId' < map)
  BY <1>2, <1>5 DEF OfMap
<1>7. ASSUME intact, ~carried, client.state # "ZOMBIE", serverId' = map
      PROVE  LeadsTo(gameState', client, firstSent, configstrings, executed')
  <2>1. CASE serverId' = serverId /\ gameState' = gameState
    BY <1>2, <1>7, <2>1 DEF ConfigInv, CurrentInv
  <2>2. CASE m.kind = "gamestate" /\ serverId' = m.map /\ gameState' = m.configstrings
    <3>1. LeadsTo(m.configstrings, client, firstSent, configstrings, m.sequence)
      BY <1>1, <1>7, <2>2 DEF ConfigInv, CurrentInv, Suffices
    <3>2. executed <= m.sequence /\ m.sequence \in Nat
      <4>1. /\ serverCommandSequence <= m.sequence
            /\ executed <= serverCommandSequence
        BY <1>1, <1>7, <2>2 DEF IInv, StreamInv, ToClientInv, Continues
      <4>2. m.sequence \in Nat
        BY <1>3 DEF MessageType
      <4>3. QED
        BY <1>3, <4>1, <4>2
    <3>3. QED
      BY <1>2, <1>3, <2>2, <3>1, <3>2, LaterLeads
  <2>3. QED
    BY <1>2, <2>1, <2>2
<1>8. /\ executed' \in Nat /\ executed <= executed'
      /\ intact => executed' <= serverCommandSequence
  BY <1>2, <1>3 DEF IInv, StreamInv
<1>9. UNCHANGED serverVars
  BY <1>2
<1>10. QED
  BY <1>4, <1>6, <1>7, <1>8, <1>9, ClientConfigStep

LEMMA SendPacketConfig ==
  ASSUME IInv, ConfigInv, SendPacket
  PROVE  ConfigInv'
BY DEF SendPacket, serverVars, historyVars, clientVars, ConfigInv, MapInv, CurrentInv

\* CG_ExecuteNewServerCommands: the last of its commands that sets a
\* configstring decides.
LEMMA ExecuteNewServerCommandsConfig ==
  ASSUME IInv, ConfigInv, ExecuteNewServerCommands
  PROVE  ConfigInv'
<1> DEFINE drops == {n \in executed + 1 .. snapshot : Held(n).type = "w"}
<1>1. PICK last : last = IF drops = {} THEN snapshot ELSE Min(drops)
  OBVIOUS
<1>2. PICK next : next = ConfigstringsAfter(executed + 1 .. last)
  OBVIOUS
<1>3. /\ failure = "none" /\ executed < snapshot /\ serverId' = serverId
      /\ toClient' = toClient /\ UNCHANGED serverVars
      /\ \/ executed' = executed /\ gameState' = gameState
         \/ /\ ~CycledOut(executed + 1)
            /\ executed' = last /\ gameState' = next
  BY <1>1, <1>2 DEF ExecuteNewServerCommands
<1>4. /\ executed \in Nat /\ snapshot \in Nat /\ serverCommandSequence \in Nat
      /\ client.reliableSequence \in Nat /\ client.reliableSent \in Nat
  <2>1. QueueType(client, firstSent)
    BY DEF IInv, StreamType
  <2>2. QED
    BY <2>1, QueueFacts DEF IInv, StreamType, TypeOK
<1>5. last \in executed + 1 .. snapshot
  <2>1. \A n \in drops : n \in executed + 1 .. snapshot
    OBVIOUS
  <2> HIDE DEF drops
  <2>2. drops \in SUBSET Nat
    BY <1>4, <2>1
  <2>3. drops # {} => Min(drops) \in drops
    BY <2>2, MinType
  <2>4. snapshot \in executed + 1 .. snapshot
    BY <1>3, <1>4
  <2>5. QED
    BY <1>1, <2>1, <2>3, <2>4
<1>6. last \in Nat /\ executed <= last /\ last <= snapshot
  BY <1>4, <1>5
<1>7. next = [j \in Index |-> next[j]]
  BY <1>2 DEF ConfigstringsAfter
<1>8. /\ serverId <= map /\ (client.state = "CONNECTED" => serverId < map)
      /\ gameState = [j \in Index |-> gameState[j]]
  BY DEF ConfigInv, MapInv
<1>9. ASSUME intact, ~CycledOut(executed + 1), NEW n \in executed + 1 .. last
      PROVE  /\ Held(n) = StreamText(client, firstSent, n)
             /\ n \in Nat /\ n <= client.reliableSequence
  <2>1. /\ snapshot <= serverCommandSequence
        /\ serverCommandSequence <= client.reliableSent
        /\ client.reliableSent <= client.reliableSequence
        /\ executed + 1 > serverCommandSequence - RingSize
    <3>1. executed + 1 > serverCommandSequence - RingSize
      BY <1>4, <1>9 DEF CycledOut
    <3>2. client.reliableSent <= client.reliableSequence
      BY DEF IInv, StreamType, QueueType
    <3>3. QED
      BY <1>9, <3>1, <3>2 DEF IInv, StreamInv
  <2>2. /\ n \in 0 .. serverCommandSequence /\ n # 0
        /\ n > serverCommandSequence - RingSize
        /\ n <= client.reliableSent /\ n <= client.reliableSequence
    BY <1>4, <1>6, <2>1
  <2>3. Held(n) = SentText(firstSent, n)
    BY <1>3, <1>9, <2>2 DEF IInv, StreamInv, HeldInv, Held
  <2>4. QED
    BY <2>2, <2>3 DEF StreamText, SentText
<1>10. ASSUME intact, ~carried, client.state # "ZOMBIE", serverId = map,
              ~CycledOut(executed + 1)
       PROVE  LeadsTo(next, client, firstSent, configstrings, last)
  <2>1. /\ UpToDate(client, firstSent, configstrings, executed)
        /\ LeadsTo(gameState, client, firstSent, configstrings, executed)
    BY <1>10 DEF ConfigInv, CurrentInv
  <2>2. ASSUME NEW i \in Index, NoneSet(client, firstSent, i, last)
        PROVE  next[i] = configstrings[i]
    <3>1. PICK sets : sets = {n \in executed + 1 .. last :
                                Held(n).type = "d" /\ Held(n).key = i}
      OBVIOUS
    <3>2. next[i] = IF sets = {} THEN gameState[i] ELSE Held(Max(sets)).value
      BY <1>2, <3>1 DEF ConfigstringsAfter
    <3>3. \A n \in executed + 1 .. last :
             n \in sets <=> Sets(StreamText(client, firstSent, n), i)
      BY <1>9, <1>10, <3>1 DEF Sets
    <3>4. \A n \in executed + 1 .. client.reliableSequence :
             n \in executed + 1 .. last \/ n \in last + 1 .. client.reliableSequence
      BY <1>4, <1>6
    <3>5. CASE sets = {}
      <4>1. NoneSet(client, firstSent, i, executed)
        BY <2>2, <3>3, <3>4, <3>5 DEF NoneSet
      <4>2. QED
        BY <2>1, <3>2, <3>5, <4>1 DEF LeadsTo
    <3>6. CASE sets # {}
      <4>1. PICK n : n = Max(sets)
        OBVIOUS
      <4>2. sets \in SUBSET (0 .. last)
        BY <1>4, <1>6, <3>1
      <4>3. n \in sets /\ \A k \in sets : n >= k
        BY <1>6, <3>6, <4>1, <4>2, MaxType
      <4>4. n \in executed + 1 .. last /\ n \in executed + 1 .. client.reliableSequence
        <5>1. n \in executed + 1 .. last
          BY <3>1, <4>3
        <5>2. QED
          BY <1>4, <1>9, <1>10, <5>1
      <4>5. NoneSet(client, firstSent, i, n)
        <5>1. ASSUME NEW k \in n + 1 .. client.reliableSequence
              PROVE  ~Sets(StreamText(client, firstSent, k), i)
          <6>1. k \in executed + 1 .. client.reliableSequence /\ ~(n >= k)
            BY <1>4, <4>4, <5>1
          <6>2. k \notin sets
            BY <4>3, <6>1
          <6>3. QED
            BY <2>2, <3>3, <3>4, <6>1, <6>2 DEF NoneSet
        <5>2. QED
          BY <5>1 DEF NoneSet
      <4>6. LastSet(client, firstSent, i, n)
        BY <3>3, <4>3, <4>4, <4>5 DEF LastSet
      <4>7. StreamText(client, firstSent, n).value = configstrings[i]
        BY <2>1, <4>4, <4>6 DEF UpToDate
      <4>8. QED
        BY <1>9, <1>10, <3>2, <3>6, <4>1, <4>4, <4>7
    <3>7. QED
      BY <3>5, <3>6
  <2>3. QED
    BY <2>2 DEF LeadsTo
<1> HIDE DEF drops
<1>11. ASSUME intact PROVE executed' <= serverCommandSequence
  <2>1. snapshot <= serverCommandSequence
    BY <1>11 DEF IInv, StreamInv
  <2>2. QED
    BY <1>3, <1>4, <1>6, <2>1
<1>12. CASE executed' = executed /\ gameState' = gameState
  BY <1>3, <1>12 DEF serverVars, historyVars, ConfigInv, MapInv, CurrentInv
<1>13. CASE ~CycledOut(executed + 1) /\ executed' = last /\ gameState' = next
  <2>1. executed' \in Nat /\ executed <= executed'
    BY <1>6, <1>13
  <2>2. intact /\ ~carried /\ client.state # "ZOMBIE" /\ serverId' = map =>
           LeadsTo(gameState', client, firstSent, configstrings, executed')
    BY <1>3, <1>10, <1>13
  <2>3. \A j \in 1 .. Len(toClient') :
           \E k \in 1 .. Len(toClient) : toClient'[j] = toClient[k]
    BY <1>3
  <2>4. gameState' = [j \in Index |-> gameState'[j]]
    BY <1>7, <1>13
  <2>5. QED
    BY <1>3, <1>8, <1>11, <2>1, <2>2, <2>3, <2>4, ClientConfigStep
<1>14. QED
  BY <1>3, <1>12, <1>13

LEMMA ConfigInitially ==
  Init => ConfigInv
<1> SUFFICES ASSUME Init PROVE ConfigInv
  OBVIOUS
<1>1. /\ client.reliableSequence = 0 /\ client.reliableSent = 0 /\ executed = 0
      /\ toClient = <<>> /\ serverId = 0 /\ map = 1
      /\ gameState = [i \in Index |-> 0]
  BY DEF Init
<1>2. 1 .. Len(toClient) = {}
  <2>1. Len(toClient) = 0
    BY <1>1, EmptySeq
  <2>2. QED
    BY <2>1
<1>3. MapInv
  BY <1>1, <1>2 DEF MapInv
<1>4. 1 .. 0 = {} /\ Unsent(client) = {}
  BY <1>1 DEF Unsent
<1>5. CurrentInv
  BY <1>1, <1>2, <1>4 DEF CurrentInv, Settled, UpToDate
<1>6. QED
  BY <1>3, <1>5 DEF ConfigInv

LEMMA ConfigStep ==
  IInv /\ IInv' /\ ConfigInv /\ [Next]_vars => ConfigInv'
<1> SUFFICES ASSUME IInv, IInv', ConfigInv, [Next]_vars PROVE ConfigInv'
  OBVIOUS
<1>1. ASSUME NEW c \in Command, SendServerCommand(c) PROVE ConfigInv'
  BY <1>1, CommandAssumption, SendServerCommandConfig
<1>2. ASSUME NEW i \in Index, NEW v \in Value, SetConfigstring(i, v)
      PROVE  ConfigInv'
  BY <1>2, SetConfigstringConfig
<1>3. CASE Disconnect
  BY <1>3, DisconnectConfig
<1>4. CASE SpawnServer
  BY <1>4, SpawnServerConfig
<1>5. CASE SendClientSnapshot
  BY <1>5, SendClientSnapshotConfig
<1>6. ASSUME NEW i \in 1 .. Len(toServer), ReceiveFromClient(i) PROVE ConfigInv'
  BY <1>6, ReceiveFromClientConfig
<1>7. ASSUME NEW i \in 1 .. Len(toClient), ReceiveFromServer(i) PROVE ConfigInv'
  BY <1>7, ReceiveFromServerConfig
<1>8. CASE SendPacket
  BY <1>8, SendPacketConfig
<1>9. CASE ExecuteNewServerCommands
  BY <1>9, ExecuteNewServerCommandsConfig
<1>10. CASE UNCHANGED vars
  BY <1>10 DEF vars, serverVars, historyVars, clientVars, ConfigInv, MapInv, CurrentInv
<1>11. QED
  BY <1>1, <1>2, <1>3, <1>4, <1>5, <1>6, <1>7, <1>8, <1>9, <1>10 DEF Next

\* A client that is in the game and has executed every command has the
\* configstrings of the server, however SV_SetConfigstring's commands were
\* replaced, culled around, repeated, or cut off by a gamestate
\* (SV_SendClientGameState, CL_ParseGamestate, CL_ConfigstringModified).
THEOREM Converges ==
  Spec => []ConfigstringsConverge
<1>1. Init => ConfigInv
  BY ConfigInitially
<1>2. IInv /\ IInv' /\ ConfigInv /\ [Next]_vars => ConfigInv'
  BY ConfigStep
<1>3. IInv /\ ConfigInv => ConfigstringsConverge
  <2> SUFFICES ASSUME IInv, ConfigInv, intact, ~carried, Drained
               PROVE  gameState = configstrings
    BY DEF ConfigstringsConverge
  <2>1. /\ gameState = [i \in Index |-> gameState[i]]
        /\ configstrings \in [Index -> Value] /\ client.reliableSequence \in Nat
    <3>1. QueueType(client, firstSent)
      BY DEF IInv, StreamType
    <3>2. QED
      BY <3>1, QueueFacts DEF ConfigInv, MapInv, IInv, StreamType, TypeOK
  <2>2. LeadsTo(gameState, client, firstSent, configstrings, client.reliableSequence)
    BY DEF Drained, ConfigInv, CurrentInv
  <2>3. client.reliableSequence + 1 .. client.reliableSequence = {}
    BY <2>1
  <2>4. \A i \in Index : gameState[i] = configstrings[i]
    BY <2>2, <2>3 DEF LeadsTo, NoneSet
  <2>5. QED
    BY <2>1, <2>4
<1>4. QED
  BY <1>1, <1>2, <1>3, Invariance, PTL DEF Spec
===============================================================================
