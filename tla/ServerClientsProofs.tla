------------------------- MODULE ServerClientsProofs -------------------------
(***************************************************************************)
(* The three places that know of a client agree, and a client's packets    *)
(* reach the slot of its latest connection, for every number of slots,     *)
(* every set of addresses and every choice of the times.                   *)
(***************************************************************************)
EXTENDS ServerClients, SharedLemmas, FunctionTheorems

USE ClientsAssumption, TimesAssumption, AddressAssumption

-----------------------------------------------------------------------------
(* The inductive invariant *)

Ids == 0 .. MaxClients + 1

Client ==
    [state : {"FREE", "ZOMBIE", "CONNECTED", "PRIMED", "ACTIVE"},
     base : Base \cup {NoAddress}, port : Port \cup {None},
     qport : QPort \cup {None}, isTestClient : BOOLEAN,
     silence : 0 .. Ages, connected : 0 .. ReconnectLimit,
     timeoutCount : 0 .. DropScans + 1, scriptId : Ids]

LiveIn(slots) == {s \in Slots : Live(slots[s])}

\* ScriptArraysOwned of given slots and arrays.
Owned(slots, arrays) ==
    /\ arrays = {slots[s].scriptId : s \in LiveIn(slots)}
    /\ \A s, t \in LiveIn(slots) : slots[s].scriptId = slots[t].scriptId => s = t
    /\ \A s \in Slots \ LiveIn(slots) : slots[s].scriptId = 0

\* SlotsAgree, of given values, without the history.  SV_CheckTimeouts drops a
\* client no later than its count passes the limit.
SlotsInv(slots, arrays, game) ==
    /\ slots \in [Slots -> Client]
    /\ arrays \subseteq 1 .. MaxClients + 1
    /\ Owned(slots, arrays)
    /\ game = LiveIn(slots)
    /\ \A s \in LiveIn(slots) : slots[s].timeoutCount <= DropScans

\* c is where SV_PacketEvent looks for the clients with identity k.
Holds(c, k) == c.state # "FREE" /\ c.base = k[1] /\ c.qport = k[2]

\* Reachable, by slot.
Latest ==
    \A k \in Identity :
        newest[k] # None /\ Holds(slot[newest[k]], k)
          => \A s \in Slots : Holds(slot[s], k) => newest[k] <= s

IInv ==
    /\ SlotsInv(slot, scriptArrays, inGame)
    /\ newest \in [Identity -> Slots \cup {None}]
    /\ Latest

-----------------------------------------------------------------------------
(* Minima *)

LEMMA MinOfSlots ==
  ASSUME NEW S \in SUBSET Slots, S # {}
  PROVE  Min(S) \in S /\ \A s \in S : Min(S) <= s
<1>1. S \in SUBSET Nat
  BY DEF Slots
<1>2. \E x \in S : \A y \in S : x <= y
  BY <1>1, LeastNumber
<1>3. QED
  BY <1>2 DEF Min

LEMMA MinOfTwo ==
  ASSUME NEW a \in Nat, NEW b \in Nat
  PROVE  Min({a, b}) \in {a, b} /\ Min({a, b}) <= a /\ Min({a, b}) <= b
<1>1. \E x \in {a, b} : \A y \in {a, b} : x <= y
  <2>1. a <= b \/ b <= a
    OBVIOUS
  <2>2. QED
    BY <2>1
<1>2. QED
  BY <1>1 DEF Min

LEMMA AgesType == Ages \in Nat
<1> DEFINE S == {Timeout, ZombieTime}
<1>1. \E x \in S : \A y \in S : x >= y
  <2>1. Timeout >= ZombieTime \/ ZombieTime >= Timeout
    OBVIOUS
  <2>2. QED
    BY <2>1
<1>2. Max(S) \in S
  BY <1>1 DEF Max
<1>3. QED
  BY <1>2 DEF Ages

-----------------------------------------------------------------------------
(* Script arrays *)

\* There is one more array than clients: Scr_AllocArray always finds one.
LEMMA UnusedExists ==
  ASSUME NEW live \in SUBSET Slots, NEW slots, NEW arrays,
         arrays \subseteq 1 .. MaxClients + 1,
         arrays \subseteq {slots[s].scriptId : s \in live}
  PROVE  Unused(arrays) \in (1 .. MaxClients + 1) \ arrays
<1> DEFINE ids == {slots[s].scriptId : s \in live}
           all == 1 .. MaxClients + 1
<1>1. IsFiniteSet(Slots) /\ Cardinality(Slots) = MaxClients
  <2> DEFINE last == MaxClients - 1
  <2>1. last \in Int /\ 0 \in Int /\ ~(0 > last) /\ last - 0 + 1 = MaxClients
    OBVIOUS
  <2> HIDE DEF last
  <2>2. /\ IsFiniteSet(0 .. last)
        /\ Cardinality(0 .. last) = IF 0 > last THEN 0 ELSE last - 0 + 1
    BY <2>1, FS_Interval
  <2>3. QED
    BY <2>1, <2>2 DEF Slots, last
<1>2. IsFiniteSet(all) /\ Cardinality(all) = MaxClients + 1
  <2> DEFINE last == MaxClients + 1
  <2>1. last \in Int /\ 1 \in Int /\ ~(1 > last) /\ last - 1 + 1 = last
    OBVIOUS
  <2> HIDE DEF last
  <2>2. /\ IsFiniteSet(1 .. last)
        /\ Cardinality(1 .. last) = IF 1 > last THEN 0 ELSE last - 1 + 1
    BY <2>1, FS_Interval
  <2>3. QED
    BY <2>1, <2>2 DEF last
<1>3. /\ IsFiniteSet(live) /\ Cardinality(live) \in Nat
      /\ Cardinality(live) <= MaxClients
  BY <1>1, FS_Subset, FS_CardinalityType
<1>4. /\ IsFiniteSet(ids) /\ Cardinality(ids) \in Nat
      /\ Cardinality(ids) <= Cardinality(live)
  <2> DEFINE f == [s \in live |-> slots[s].scriptId]
  <2>1. f \in Surjection(live, ids)
    BY Fun_IsSurj
  <2> HIDE DEF f, ids
  <2>2. QED
    BY <1>3, <2>1, FS_Surjection, FS_CardinalityType
<1>5. \E id \in all : id \notin arrays
  <2> SUFFICES ASSUME \A id \in all : id \in arrays
               PROVE  FALSE
    OBVIOUS
  <2>1. all \in SUBSET ids
    OBVIOUS
  <2> HIDE DEF all, ids
  <2>2. Cardinality(all) <= Cardinality(ids)
    BY <1>4, <2>1, FS_Subset
  <2>3. QED
    BY <1>2, <1>3, <1>4, <2>2
<1>6. QED
  BY <1>5 DEF Unused

\* Scr_FreeValue: clients leave, their arrays are free, no other is.
LEMMA TakenBack ==
  ASSUME NEW old, NEW arrays, Owned(old, arrays),
         NEW gone \in SUBSET LiveIn(old),
         NEW new, LiveIn(new) = LiveIn(old) \ gone,
         \A s \in Slots :
            new[s].scriptId = IF s \in gone THEN 0 ELSE old[s].scriptId
  PROVE  Owned(new, arrays \ {old[s].scriptId : s \in gone})
<1>1. LiveIn(new) \subseteq Slots /\ LiveIn(old) \subseteq Slots
  BY DEF LiveIn
<1>2. {new[s].scriptId : s \in LiveIn(new)}
        = arrays \ {old[s].scriptId : s \in gone}
  BY <1>1 DEF Owned
<1>3. \A s, t \in LiveIn(new) : new[s].scriptId = new[t].scriptId => s = t
  BY <1>1 DEF Owned
<1>4. \A s \in Slots \ LiveIn(new) : new[s].scriptId = 0
  BY <1>1 DEF Owned
<1>5. QED
  BY <1>2, <1>3, <1>4 DEF Owned

\* Scr_AllocArray: a client without an array gets one no other client has.
LEMMA GivenOut ==
  ASSUME NEW old, NEW arrays, Owned(old, arrays),
         arrays \subseteq 1 .. MaxClients + 1,
         NEW s \in Slots, s \notin LiveIn(old),
         NEW new, LiveIn(new) = LiveIn(old) \cup {s},
         new[s].scriptId = Unused(arrays),
         \A t \in Slots \ {s} : new[t].scriptId = old[t].scriptId
  PROVE  /\ Owned(new, arrays \cup {Unused(arrays)})
         /\ Unused(arrays) \in 1 .. MaxClients + 1
<1>1. LiveIn(new) \subseteq Slots /\ LiveIn(old) \subseteq Slots
  BY DEF LiveIn
<1>2. Unused(arrays) \in (1 .. MaxClients + 1) \ arrays
  BY <1>1, UnusedExists DEF Owned
<1>3. {new[t].scriptId : t \in LiveIn(new)} = arrays \cup {Unused(arrays)}
  <2>1. \A t \in LiveIn(old) : new[t].scriptId = old[t].scriptId
    BY <1>1
  <2>2. new[s].scriptId = Unused(arrays)
    OBVIOUS
  <2>3. arrays = {old[t].scriptId : t \in LiveIn(old)}
    BY DEF Owned
  <2>4. {new[t].scriptId : t \in LiveIn(old)} = arrays
    BY <2>1, <2>3
  <2>5. {new[t].scriptId : t \in LiveIn(old) \cup {s}}
          = {new[t].scriptId : t \in LiveIn(old)} \cup {new[s].scriptId}
    OBVIOUS
  <2>6. QED
    BY <2>2, <2>4, <2>5
<1>4. ASSUME NEW t \in LiveIn(new), NEW u \in LiveIn(new),
             new[t].scriptId = new[u].scriptId
      PROVE  t = u
  <2>1. \A v \in LiveIn(old) : old[v].scriptId \in arrays
    BY DEF Owned
  <2>2. CASE t # s /\ u # s
    BY <1>1, <1>4, <2>2 DEF Owned
  <2>3. CASE t = s \/ u = s
    BY <1>1, <1>2, <1>4, <2>1, <2>3
  <2>4. QED
    BY <2>2, <2>3
<1>5. \A t \in Slots \ LiveIn(new) : new[t].scriptId = 0
  BY <1>1 DEF Owned
<1>6. QED
  BY <1>2, <1>3, <1>4, <1>5 DEF Owned

-----------------------------------------------------------------------------
(* SV_FreeClientScriptPers *)

\* The recursion has a solution, one slot at a time.
LEMMA RenewedSlots ==
  /\ Renewed[0] = [slot |-> slot, arrays |-> scriptArrays]
  /\ \A n \in 1 .. MaxClients : Renewed[n] = Renewal(Renewed[n - 1], n - 1)
<1> DEFINE First == [slot |-> slot, arrays |-> scriptArrays]
           Solves(g, m) ==
             g = [n \in 0 .. m |-> IF n = 0 THEN First
                                            ELSE Renewal(g[n - 1], n - 1)]
           Failing == {m \in Nat : ~ \E g : Solves(g, m)}
<1>1. Failing = {}
  <2> SUFFICES ASSUME Failing # {} PROVE FALSE
    OBVIOUS
  <2>1. PICK m \in Failing : \A k \in Failing : m <= k
    <3>1. Failing \in SUBSET Nat
      OBVIOUS
    <3> HIDE DEF Failing
    <3>2. QED
      BY <3>1, LeastNumber
  <2>2. m # 0
    <3>1. SUFFICES ASSUME m = 0 PROVE FALSE
      OBVIOUS
    <3> HIDE DEF First
    <3>2. Solves([n \in 0 .. 0 |-> First], 0)
      <4>1. \A n \in 0 .. 0 : n = 0
        OBVIOUS
      <4>2. QED
        BY <4>1
    <3>3. QED
      BY <2>1, <3>1, <3>2
  <2>3. m - 1 \in Nat /\ m - 1 \notin Failing
    <3>1. m \in Nat
      OBVIOUS
    <3> HIDE DEF Failing
    <3>2. QED
      BY <2>1, <2>2, <3>1
  <2>4. PICK g : Solves(g, m - 1)
    BY <2>3
  <2> DEFINE h == [n \in 0 .. m |-> IF n = m THEN Renewal(g[m - 1], m - 1)
                                             ELSE g[n]]
  <2> HIDE DEF First
  <2>5. \A n \in 0 .. m :
           h[n] = IF n = 0 THEN First ELSE Renewal(h[n - 1], n - 1)
    <3>1. m \in Nat
      OBVIOUS
    <3> SUFFICES ASSUME NEW n \in 0 .. m
                 PROVE  h[n] = IF n = 0 THEN First ELSE Renewal(h[n - 1], n - 1)
      OBVIOUS
    <3>2. CASE n = m
      <4>1. m - 1 \in 0 .. m /\ m - 1 # m
        BY <2>2, <3>1
      <4>2. h[m - 1] = g[m - 1]
        BY <4>1
      <4>3. h[n] = Renewal(g[m - 1], m - 1)
        BY <3>2
      <4>4. QED
        BY <2>2, <3>2, <4>2, <4>3
    <3>3. CASE n # m
      <4>1. n \in 0 .. m - 1 /\ n - 1 # m /\ (n # 0 => n - 1 \in 0 .. m)
        BY <3>1, <3>3
      <4>2. g[n] = IF n = 0 THEN First ELSE Renewal(g[n - 1], n - 1)
        BY <2>4, <4>1
      <4>3. h[n] = g[n] /\ (n # 0 => h[n - 1] = g[n - 1])
        BY <3>3, <4>1
      <4>4. QED
        BY <4>2, <4>3
    <3>4. QED
      BY <3>2, <3>3
  <2>6. Solves(h, m)
    BY <2>5
  <2>7. QED
    BY <2>1, <2>6
<1>2. \E g : Solves(g, MaxClients)
  BY <1>1
<1>3. Solves(Renewed, MaxClients)
  BY <1>2 DEF Renewed
<1>4. QED
  BY <1>3

\* What holds after n slots: every live client has an array of its own, and
\* nothing else has changed.
Halfway(r, n) ==
    /\ r.slot \in [Slots -> Client]
    /\ r.arrays \subseteq 1 .. MaxClients + 1
    /\ \A s \in Slots : \E id \in Ids : r.slot[s] = [slot[s] EXCEPT !.scriptId = id]
    /\ \A s \in Slots : s >= n => r.slot[s] = slot[s]
    /\ Owned(r.slot, r.arrays)

LEMMA RenewalStep ==
  ASSUME SlotsInv(slot, scriptArrays, inGame), NEW s \in Slots, NEW r, Halfway(r, s)
  PROVE  Halfway(Renewal(r, s), s + 1)
<1>1. slot \in [Slots -> Client] /\ s \in Nat
  BY DEF SlotsInv, Slots
<1>2. CASE ~Live(slot[s])
  <2>1. \A t \in Slots : t >= s + 1 => t >= s
    BY <1>1 DEF Slots
  <2>2. QED
    BY <1>2, <2>1 DEF Halfway, Renewal
<1>3. CASE Live(slot[s])
  <2> DEFINE left == r.arrays \ {slot[s].scriptId}
             id == Unused(left)
             between == [r.slot EXCEPT ![s] = EmptyClient]
             new == [r.slot EXCEPT ![s].scriptId = id]
  <2>1. /\ r.slot \in [Slots -> Client] /\ r.slot[s] = slot[s]
        /\ r.arrays \subseteq 1 .. MaxClients + 1
        /\ Owned(r.slot, r.arrays)
    BY <1>1 DEF Halfway
  <2>2. s \in LiveIn(r.slot) /\ ~Live(EmptyClient) /\ EmptyClient.scriptId = 0
    BY <1>3, <2>1 DEF LiveIn, Live, EmptyClient
  <2>3. Owned(between, left)
    <3>1. /\ LiveIn(between) = LiveIn(r.slot) \ {s}
          /\ \A t \in Slots : between[t].scriptId =
                IF t \in {s} THEN 0 ELSE r.slot[t].scriptId
      BY <2>1, <2>2 DEF LiveIn
    <3> HIDE DEF between
    <3>2. {s} \in SUBSET LiveIn(r.slot)
      BY <2>2
    <3>3. Owned(between, r.arrays \ {r.slot[t].scriptId : t \in {s}})
      <4>1. Owned(r.slot, r.arrays)
        BY <2>1
      <4>2. QED
        BY ONLY <3>1, <3>2, <4>1, TakenBack
    <3>4. {r.slot[t].scriptId : t \in {s}} = {slot[s].scriptId}
      BY <2>1
    <3>5. QED
      BY <3>3, <3>4
  <2>4. \A t \in Slots : new[t] = IF t = s THEN [slot[s] EXCEPT !.scriptId = id]
                                            ELSE r.slot[t]
    BY <2>1
  <2>5. Owned(new, left \cup {id}) /\ id \in 1 .. MaxClients + 1
    <3> HIDE DEF id
    <3>1. Live([slot[s] EXCEPT !.scriptId = id])
      BY <1>1, <1>3 DEF Live, Client
    <3>2. LiveIn(new) = LiveIn(between) \cup {s} /\ s \notin LiveIn(between)
      BY <2>1, <2>2, <2>4, <3>1 DEF LiveIn
    <3>3. /\ new[s].scriptId = Unused(left)
          /\ \A t \in Slots \ {s} : new[t].scriptId = between[t].scriptId
      BY <1>1, <2>1, <2>4 DEF Client, id
    <3> HIDE DEF new, between, left
    <3>4. left \subseteq 1 .. MaxClients + 1
      BY <2>1 DEF left
    <3>5. /\ Owned(new, left \cup {Unused(left)})
          /\ Unused(left) \in 1 .. MaxClients + 1
      BY <2>3, <3>2, <3>3, <3>4, GivenOut
    <3>6. QED
      BY <3>5 DEF id
  <2>6. id \in Ids /\ \A t \in Slots : t >= s + 1 => t >= s /\ t # s
    BY <1>1, <2>5 DEF Ids, Slots
  <2>7. Renewal(r, s) = [slot |-> new, arrays |-> left \cup {id}]
    BY <1>3 DEF Renewal
  <2> HIDE DEF id
  <2>8. [slot[s] EXCEPT !.scriptId = id] \in Client
    BY <1>1, <2>6 DEF Client
  <2>9. new \in [Slots -> Client]
    BY <2>1, <2>4, <2>8
  <2>10. left \cup {id} \subseteq 1 .. MaxClients + 1
    BY <2>1, <2>5
  <2>11. /\ \A t \in Slots : \E i \in Ids : new[t] = [slot[t] EXCEPT !.scriptId = i]
         /\ \A t \in Slots : t >= s + 1 => new[t] = slot[t]
    BY <2>4, <2>6 DEF Halfway
  <2> HIDE DEF new, left
  <2>12. QED
    BY <2>5, <2>7, <2>9, <2>10, <2>11 DEF Halfway
<1>4. QED
  BY <1>2, <1>3

LEMMA RenewedProperties ==
  ASSUME SlotsInv(slot, scriptArrays, inGame), NEW n \in 0 .. MaxClients
  PROVE  Halfway(Renewed[n], n)
<1> DEFINE Failing == {m \in 0 .. MaxClients : ~Halfway(Renewed[m], m)}
<1>1. SUFFICES ASSUME Failing # {} PROVE FALSE
  OBVIOUS
<1>2. PICK m \in Failing : \A k \in Failing : m <= k
  <2>1. Failing \in SUBSET Nat
    OBVIOUS
  <2> HIDE DEF Failing
  <2>2. QED
    BY <1>1, <2>1, LeastNumber
<1>3. m # 0
  <2>1. slot \in [Slots -> Client] /\ scriptArrays \subseteq 1 .. MaxClients + 1
    BY DEF SlotsInv
  <2>2. \A s \in Slots : slot[s] = [slot[s] EXCEPT !.scriptId = slot[s].scriptId]
                            /\ slot[s].scriptId \in Ids
    BY <2>1 DEF Client
  <2>3. Owned(slot, scriptArrays)
    BY DEF SlotsInv
  <2>4. Halfway([slot |-> slot, arrays |-> scriptArrays], 0)
    BY <2>1, <2>2, <2>3 DEF Halfway
  <2>5. QED
    BY <2>4, RenewedSlots
<1>4. m - 1 \in Slots /\ m \in 1 .. MaxClients /\ m - 1 + 1 = m
  BY <1>3 DEF Slots
<1>5. Halfway(Renewed[m - 1], m - 1)
  BY <1>2, <1>4 DEF Slots
<1>6. Halfway(Renewed[m], m)
  BY <1>4, <1>5, RenewalStep, RenewedSlots
<1>7. QED
  BY <1>6

-----------------------------------------------------------------------------
(* Single clients *)

\* What SV_SendMessageToClient, SV_ClientThink and the like leave alone.
SameClient(new, old) ==
    /\ new.state = old.state /\ new.scriptId = old.scriptId
    /\ new.base = old.base /\ new.qport = old.qport
    /\ new.timeoutCount = old.timeoutCount

LEMMA AgedType ==
  ASSUME NEW c \in Client, NEW d \in Nat
  PROVE  Aged(c, d) \in Client /\ SameClient(Aged(c, d), c)
         /\ Aged(c, d).isTestClient = c.isTestClient
<1>1. Ages \in Nat
  BY AgesType
<1>2. Min({c.silence + d, Ages}) \in 0 .. Ages
  <2>1. c.silence + d \in Nat
    BY <1>1 DEF Client
  <2>2. QED
    BY <1>1, <2>1, MinOfTwo
<1>3. Min({c.connected + d, ReconnectLimit}) \in 0 .. ReconnectLimit
  <2>1. c.connected + d \in Nat
    BY DEF Client
  <2>2. QED
    BY <2>1, MinOfTwo
<1>4. QED
  BY <1>2, <1>3 DEF Aged, Client, SameClient

\* SV_CheckTimeouts: a slot it frees was dropped first, or was a zombie.
LEMMA ScannedType ==
  ASSUME NEW c \in Client, Live(c) => c.timeoutCount <= DropScans
  PROVE  /\ Scanned(c) \in Client
         /\ Scanned(c).base = c.base /\ Scanned(c).qport = c.qport
         /\ Live(Scanned(c)) <=> Live(c) /\ ~TimedOut(c)
         /\ Scanned(c).scriptId = IF TimedOut(c) THEN 0 ELSE c.scriptId
         /\ Scanned(c).state \in {c.state, "FREE"}
         /\ Live(Scanned(c)) => Scanned(c).timeoutCount <= DropScans
         /\ TimedOut(c) => Live(c)
<1>1. c.timeoutCount \in Nat /\ DropScans \in Nat
  BY DEF Client
<1>2. Counted(c) \in 0 .. DropScans + 1
  BY <1>1 DEF Counted, Overdue, OverZombie, Client
<1>3. ~TimedOut(c) /\ Live(c) => Counted(c) <= DropScans
  BY <1>1 DEF Counted, TimedOut, OverZombie, Overdue, Live
<1>4. /\ TimedOut(c) => Live(c)
      /\ OverZombie(c) => c.state = "ZOMBIE"
  BY DEF TimedOut, Overdue, OverZombie
<1> DEFINE state == IF OverZombie(c) \/ TimedOut(c) THEN "FREE" ELSE c.state
           id == IF TimedOut(c) THEN 0 ELSE c.scriptId
<1>5. Scanned(c) = [c EXCEPT !.timeoutCount = Counted(c), !.state = state,
                             !.scriptId = id]
  BY DEF Scanned
<1>6. state \in {"FREE", "ZOMBIE", "CONNECTED", "PRIMED", "ACTIVE"} /\ id \in Ids
  BY DEF Client, Ids
<1>7. state \in {c.state, "FREE"}
  OBVIOUS
<1>8. state \in {"CONNECTED", "PRIMED", "ACTIVE"} <=> Live(c) /\ ~TimedOut(c)
  BY <1>4 DEF Live
<1> HIDE DEF state
<1>9. /\ Scanned(c) \in Client
      /\ Scanned(c).base = c.base /\ Scanned(c).qport = c.qport
      /\ Scanned(c).state = state /\ Scanned(c).scriptId = id
      /\ Scanned(c).timeoutCount = Counted(c)
  BY <1>2, <1>5, <1>6 DEF Client
<1>10. QED
  BY <1>3, <1>4, <1>7, <1>8, <1>9 DEF Live

-----------------------------------------------------------------------------
(* Steps *)

\* Clients that SV_PacketEvent could not find before cannot be found after.
LEMMA LatestKept ==
  ASSUME IInv, newest' = newest,
         \A s \in Slots, k \in Identity : Holds(slot'[s], k) => Holds(slot[s], k)
  PROVE  Latest' /\ newest' \in [Identity -> Slots \cup {None}]
<1>1. \A k \in Identity : newest[k] # None => newest[k] \in Slots
  BY DEF IInv
<1>2. QED
  BY <1>1 DEF IInv, Latest

LEMMA EmptyType ==
  EmptyClient \in Client /\ EmptyClient.scriptId = 0 /\ EmptyClient.state = "FREE"
BY AgesType DEF EmptyClient, Client, Ids

\* SV_FreeClient: clients are gone, the others are who they were.
LEMMA ClientsLeave ==
  ASSUME NEW old, NEW arrays, NEW game, SlotsInv(old, arrays, game),
         NEW gone \in SUBSET LiveIn(old),
         NEW new \in [Slots -> Client], LiveIn(new) = LiveIn(old) \ gone,
         \A s \in Slots :
            new[s].scriptId = IF s \in gone THEN 0 ELSE old[s].scriptId,
         \A s \in LiveIn(new) : new[s].timeoutCount <= DropScans
  PROVE  SlotsInv(new, arrays \ {old[s].scriptId : s \in gone}, game \ gone)
<1>1. Owned(old, arrays) /\ arrays \subseteq 1 .. MaxClients + 1 /\ game = LiveIn(old)
  BY DEF SlotsInv
<1>2. Owned(new, arrays \ {old[s].scriptId : s \in gone})
  BY <1>1, TakenBack
<1>3. QED
  BY <1>1, <1>2 DEF SlotsInv

\* ClientsLeave of nobody: the clients are who they were.
LEMMA ClientsStay ==
  ASSUME NEW old, NEW arrays, NEW game, SlotsInv(old, arrays, game),
         NEW new \in [Slots -> Client], LiveIn(new) = LiveIn(old),
         \A s \in Slots : new[s].scriptId = old[s].scriptId,
         \A s \in LiveIn(new) : new[s].timeoutCount <= DropScans
  PROVE  SlotsInv(new, arrays, game)
<1>1. LiveIn(old) \subseteq Slots
  BY DEF LiveIn
<1>2. {new[s].scriptId : s \in LiveIn(old)} = {old[s].scriptId : s \in LiveIn(old)}
  BY <1>1
<1>3. Owned(new, arrays)
  BY <1>1, <1>2 DEF SlotsInv, Owned
<1>4. QED
  BY <1>3 DEF SlotsInv

\* SV_DirectConnect and SV_AddTestClient, whatever was in the slot.
LEMMA AdmitStep ==
  ASSUME IInv, NEW s \in Slots, NEW client \in Client, NEW entering \in Client,
         client.state = "FREE", client.scriptId = 0,
         Live(entering), entering.timeoutCount = 0,
         NEW rejected \in BOOLEAN, Admit(s, client, entering, rejected)
  PROVE  SlotsInv(slot', scriptArrays', inGame')
<1> DEFINE left == scriptArrays \ ArraysOf(Freed(s))
           id == Unused(left)
           emptied == [slot EXCEPT ![s] = client]
           entered == [entering EXCEPT !.silence = 0, !.connected = 0, !.scriptId = id]
           filled == [slot EXCEPT ![s] = entered]
<1>1. /\ slot \in [Slots -> Client]
      /\ \A t \in LiveIn(slot) : slot[t].timeoutCount <= DropScans
      /\ SlotsInv(slot, scriptArrays, inGame)
  BY DEF IInv, SlotsInv
<1>2. Freed(s) \in SUBSET LiveIn(slot) /\ ~Live(client)
  BY DEF Freed, LiveIn, Live
<1>3. SlotsInv(emptied, left, inGame \ Freed(s))
  <2>1. /\ emptied \in [Slots -> Client]
        /\ LiveIn(emptied) = LiveIn(slot) \ Freed(s)
        /\ \A t \in LiveIn(emptied) : emptied[t].timeoutCount <= DropScans
    BY <1>1, <1>2 DEF LiveIn, Freed
  <2>2. \A t \in Slots \ LiveIn(slot) : slot[t].scriptId = 0
    BY <1>1 DEF SlotsInv, Owned
  <2>3. \A t \in Slots : emptied[t].scriptId =
           IF t \in Freed(s) THEN 0 ELSE slot[t].scriptId
    <3> SUFFICES ASSUME NEW t \in Slots
                 PROVE  emptied[t].scriptId =
                          IF t \in Freed(s) THEN 0 ELSE slot[t].scriptId
      OBVIOUS
    <3>1. CASE t = s
      BY <1>1, <2>2, <3>1 DEF Freed, LiveIn
    <3>2. CASE t # s
      BY <1>1, <3>2 DEF Freed
    <3>3. QED
      BY <3>1, <3>2
  <2> HIDE DEF emptied
  <2>4. SlotsInv(emptied, scriptArrays \ {slot[t].scriptId : t \in Freed(s)},
                 inGame \ Freed(s))
    BY <1>1, <1>2, <2>1, <2>3, ClientsLeave
  <2>5. QED
    BY <2>4 DEF ArraysOf
<1>4. CASE rejected
  BY <1>3, <1>4 DEF Admit
<1>5. CASE ~rejected
  <2>1. /\ slot' = filled /\ scriptArrays' = left \cup {id}
        /\ inGame' = (inGame \ Freed(s)) \cup {s}
    BY <1>5 DEF Admit
  <2>2. /\ Owned(emptied, left) /\ left \subseteq 1 .. MaxClients + 1
        /\ inGame \ Freed(s) = LiveIn(emptied)
        /\ \A t \in LiveIn(emptied) : emptied[t].timeoutCount <= DropScans
    BY <1>3 DEF SlotsInv
  <2> HIDE DEF id
  <2>3. /\ Live(entered) /\ entered.scriptId = id /\ entered.timeoutCount = 0
        /\ id \in Ids => entered \in Client
    <3>1. 0 \in 0 .. Ages /\ 0 \in 0 .. ReconnectLimit
      BY AgesType
    <3>2. id \in Ids => entered \in Client
      BY <3>1 DEF Client
    <3>3. /\ entered.state = entering.state /\ entered.scriptId = id
          /\ entered.timeoutCount = entering.timeoutCount
      BY DEF Client
    <3> HIDE DEF entered
    <3>4. QED
      BY <3>2, <3>3 DEF Live
  <2> HIDE DEF entered
  <2>4. /\ LiveIn(filled) = LiveIn(emptied) \cup {s} /\ s \notin LiveIn(emptied)
        /\ filled[s] = entered
        /\ \A t \in Slots \ {s} : filled[t] = emptied[t]
        /\ entered \in Client => filled \in [Slots -> Client]
    BY <1>1, <1>2, <2>3 DEF LiveIn
  <2>5. filled[s].scriptId = Unused(left)
    BY <2>3, <2>4 DEF id
  <2> HIDE DEF filled, emptied, left
  <2>6. Owned(filled, left \cup {id}) /\ id \in 1 .. MaxClients + 1
    <3>1. \A t \in Slots \ {s} : filled[t].scriptId = emptied[t].scriptId
      BY <2>4
    <3>2. /\ Owned(filled, left \cup {Unused(left)})
          /\ Unused(left) \in 1 .. MaxClients + 1
      <4>1. LiveIn(filled) = LiveIn(emptied) \cup {s} /\ s \notin LiveIn(emptied)
        BY <2>4
      <4>2. Owned(emptied, left) /\ left \subseteq 1 .. MaxClients + 1
        BY <2>2
      <4>3. QED
        BY <2>5, <3>1, <4>1, <4>2, GivenOut
    <3>3. QED
      BY <3>2 DEF id
  <2>7. filled \in [Slots -> Client]
    BY <2>3, <2>4, <2>6 DEF Ids
  <2>8. \A t \in LiveIn(filled) : filled[t].timeoutCount <= DropScans
    <3>1. LiveIn(emptied) \subseteq Slots
      BY DEF LiveIn
    <3>2. QED
      BY <2>2, <2>3, <2>4, <3>1
  <2>9. QED
    BY <2>1, <2>2, <2>4, <2>6, <2>7, <2>8 DEF SlotsInv
<1>6. QED
  BY <1>4, <1>5

LEMMA ConnectStep ==
  ASSUME IInv, Connect
  PROVE  IInv'
<1>1. PICK base \in Base, port \in Port, qport \in QPort,
           private \in BOOLEAN, rejected \in BOOLEAN :
         DirectConnect(base, port, qport, private, rejected)
  BY DEF Connect
<1> DEFINE similar == Similar(base, port, qport)
           s == Choice(similar, private)
           client == [EmptyClient EXCEPT !.base = base, !.port = port,
                                         !.qport = qport]
           entering == [client EXCEPT !.state = "CONNECTED"]
           k == <<base, qport>>
           Old == {t \in similar : slot[t].state # "FREE"}
<1>2. /\ s # None
      /\ Admit(s, client, entering, rejected)
      /\ newest' = IF rejected THEN newest ELSE [newest EXCEPT ![k] = s]
  BY <1>1 DEF DirectConnect
<1>3. /\ slot \in [Slots -> Client]
      /\ newest \in [Identity -> Slots \cup {None}]
  BY DEF IInv, SlotsInv
<1>4. s \in Slots /\ (Old # {} => \A t \in Old : s <= t)
  <2> DEFINE Free == {t \in Slots : /\ slot[t].state = "FREE"
                                    /\ private \/ t >= PrivateClients}
  <2>1. Old \in SUBSET Slots /\ Free \in SUBSET Slots
    BY DEF Similar
  <2>2. s = IF Old # {} THEN Min(Old) ELSE IF Free # {} THEN Min(Free) ELSE None
    BY DEF Choice
  <2> HIDE DEF Old, Free, s
  <2>3. QED
    BY <1>2, <2>1, <2>2, MinOfSlots DEF s
<1>5. /\ client \in Client /\ client.state = "FREE" /\ client.scriptId = 0
      /\ client.base = base /\ client.qport = qport /\ client.timeoutCount = 0
  BY EmptyType DEF Client, EmptyClient
<1> HIDE DEF client
<1>6. /\ entering \in Client /\ Live(entering) /\ entering.timeoutCount = 0
      /\ entering.base = base /\ entering.qport = qport
  BY <1>5 DEF Client, Live
<1> HIDE DEF entering, s
<1>7. SlotsInv(slot', scriptArrays', inGame')
  BY <1>2, <1>4, <1>5, <1>6, AdmitStep
<1>8. /\ \A t \in Slots \ {s} : slot'[t] = slot[t]
      /\ IF rejected THEN slot'[s] = client
                     ELSE slot'[s].base = base /\ slot'[s].qport = qport
  <2>1. CASE rejected
    BY <1>2, <1>3, <1>4, <2>1 DEF Admit
  <2>2. CASE ~rejected
    <3>1. PICK id : slot' = [slot EXCEPT ![s] = [entering EXCEPT
                              !.silence = 0, !.connected = 0, !.scriptId = id]]
      BY <1>2, <2>2 DEF Admit
    <3>2. QED
      BY <1>3, <1>4, <1>6, <2>2, <3>1 DEF Client
  <2>3. QED
    BY <2>1, <2>2
<1>9. CASE rejected
  <2>1. newest' = newest
    BY <1>2, <1>9
  <2>2. \A t \in Slots, j \in Identity : Holds(slot'[t], j) => Holds(slot[t], j)
    BY <1>5, <1>8, <1>9 DEF Holds
  <2>3. QED
    BY <1>7, <2>1, <2>2, LatestKept DEF IInv
<1>10. CASE ~rejected
  <2>1. newest' = [newest EXCEPT ![k] = s] /\ k \in Identity
    BY <1>2, <1>10 DEF Identity
  <2>2. newest' \in [Identity -> Slots \cup {None}]
    BY <1>3, <1>4, <2>1
  <2>3. ASSUME NEW j \in Identity, newest'[j] # None,
               Holds(slot'[newest'[j]], j),
               NEW t \in Slots, Holds(slot'[t], j)
        PROVE  newest'[j] <= t
    <3>1. CASE j = k
      <4>1. newest'[j] = s
        BY <1>3, <2>1, <3>1
      <4>2. CASE t = s
        BY <1>4, <4>1, <4>2 DEF Slots
      <4>3. CASE t # s
        <5>1. Holds(slot[t], k)
          BY <1>8, <2>3, <3>1, <4>3
        <5>2. t \in Old
          BY <5>1 DEF Holds, Similar
        <5>3. QED
          BY <1>4, <4>1, <5>2
      <4>4. QED
        BY <4>2, <4>3
    <3>2. CASE j # k
      <4>1. newest'[j] = newest[j] /\ newest[j] \in Slots
        BY <1>3, <2>1, <2>3, <3>2
      <4>2. ~Holds(slot'[s], j)
        <5>1. j = <<j[1], j[2]>>
          BY DEF Identity
        <5>2. QED
          BY <1>8, <1>10, <3>2, <5>1 DEF Holds
      <4>3. Holds(slot[newest[j]], j) /\ Holds(slot[t], j)
        BY <1>8, <2>3, <4>1, <4>2
      <4>4. QED
        <5>1. newest[j] # None
          BY <2>3, <4>1
        <5>2. newest[j] <= t
          BY <4>3, <5>1 DEF IInv, Latest
        <5>3. QED
          BY <4>1, <5>2
    <3>3. QED
      BY <3>1, <3>2
  <2>4. Latest'
    BY <2>3 DEF Latest
  <2>5. QED
    BY <1>7, <2>2, <2>4 DEF IInv
<1>11. QED
  BY <1>9, <1>10

LEMMA AddTestStep ==
  ASSUME IInv, AddTest
  PROVE  IInv'
<1>1. PICK rejected \in BOOLEAN : AddTestClient(rejected)
  BY DEF AddTest
<1> DEFINE s == Choice({}, FALSE)
           entering == [EmptyClient EXCEPT !.state = "ACTIVE",
                                           !.isTestClient = TRUE]
<1>2. /\ s # None /\ newest' = newest
      /\ Admit(s, EmptyClient, entering, rejected)
  BY <1>1 DEF AddTestClient
<1>3. slot \in [Slots -> Client]
  BY DEF IInv, SlotsInv
<1>4. s \in Slots
  <2> DEFINE Free == {t \in Slots : /\ slot[t].state = "FREE"
                                    /\ FALSE \/ t >= PrivateClients}
  <2>1. s = IF Free # {} THEN Min(Free) ELSE None
    BY DEF Choice
  <2>2. Free \in SUBSET Slots
    OBVIOUS
  <2> HIDE DEF Free, s
  <2>3. QED
    BY <1>2, <2>1, <2>2, MinOfSlots DEF s
<1>5. /\ entering \in Client /\ Live(entering) /\ entering.timeoutCount = 0
      /\ entering.base = NoAddress
  BY EmptyType DEF Client, Live, EmptyClient
<1> HIDE DEF entering, s
<1>6. SlotsInv(slot', scriptArrays', inGame')
  BY <1>2, <1>4, <1>5, EmptyType, AdmitStep
<1>7. slot'[s].base = NoAddress /\ \A t \in Slots \ {s} : slot'[t] = slot[t]
  <2>1. CASE rejected
    BY <1>2, <1>3, <1>4, <2>1 DEF Admit, EmptyClient
  <2>2. CASE ~rejected
    <3>1. PICK id : slot' = [slot EXCEPT ![s] = [entering EXCEPT
                              !.silence = 0, !.connected = 0, !.scriptId = id]]
      BY <1>2, <2>2 DEF Admit
    <3>2. QED
      BY <1>3, <1>4, <1>5, <3>1 DEF Client
  <2>3. QED
    BY <2>1, <2>2
<1>8. \A t \in Slots, k \in Identity : Holds(slot'[t], k) => Holds(slot[t], k)
  BY <1>7 DEF Holds, Identity
<1>9. QED
  BY <1>2, <1>6, <1>8, LatestKept DEF IInv

LEMMA PacketStep ==
  ASSUME IInv, Packet
  PROVE  IInv'
<1>1. PICK base \in Base, port \in Port, qport \in QPort, content \in Content :
         PacketEvent(base, port, qport, content)
  BY DEF Packet
<1> DEFINE to == Addressees(base, port, qport)
           s == Min(to)
           c == [slot[s] EXCEPT !.port = port]
           new == IF content = "stale" \/ c.state = "ZOMBIE"
                    THEN c ELSE Executed([c EXCEPT !.silence = 0], content)
<1>2. /\ to # {} /\ slot' = [slot EXCEPT ![s] = new]
      /\ scriptArrays' = scriptArrays /\ inGame' = inGame /\ newest' = newest
  BY <1>1 DEF PacketEvent
<1>3. /\ slot \in [Slots -> Client]
      /\ \A t \in LiveIn(slot) : slot[t].timeoutCount <= DropScans
      /\ SlotsInv(slot, scriptArrays, inGame)
  BY DEF IInv, SlotsInv
<1>4. s \in Slots /\ slot[s].state # "FREE"
  <2>1. to \in SUBSET Slots /\ \A t \in to : slot[t].state # "FREE"
    BY DEF Addressees
  <2> HIDE DEF to
  <2>2. QED
    BY <1>2, <2>1, MinOfSlots
<1> HIDE DEF s
<1>5. /\ new \in Client
      /\ new.scriptId = slot[s].scriptId /\ new.timeoutCount = slot[s].timeoutCount
      /\ new.base = slot[s].base /\ new.qport = slot[s].qport
      /\ new.state # "FREE" /\ (Live(new) <=> Live(slot[s]))
  <2>1. slot[s] \in Client /\ 0 \in 0 .. Ages
    BY <1>3, <1>4, AgesType
  <2>2. /\ c \in Client
        /\ [c EXCEPT !.silence = 0] \in Client
    BY <2>1 DEF Client
  <2>3. /\ c.scriptId = slot[s].scriptId /\ c.timeoutCount = slot[s].timeoutCount
        /\ c.base = slot[s].base /\ c.qport = slot[s].qport
        /\ c.state = slot[s].state
    BY <2>1 DEF Client
  <2> HIDE DEF c
  <2>4. CASE content = "stale" \/ c.state = "ZOMBIE"
    BY <1>4, <2>2, <2>3, <2>4 DEF Live
  <2>5. CASE ~(content = "stale" \/ c.state = "ZOMBIE")
    <3> DEFINE e == [c EXCEPT !.silence = 0]
    <3>1. /\ e \in Client /\ e.state = c.state /\ e.scriptId = c.scriptId
          /\ e.timeoutCount = c.timeoutCount /\ e.base = c.base
          /\ e.qport = c.qport
      BY <2>2 DEF Client
    <3>2. e.state \in {"CONNECTED", "PRIMED", "ACTIVE"}
      BY <1>4, <2>3, <2>5, <3>1 DEF Client
    <3>3. new = Executed(e, content)
      BY <2>5
    <3> HIDE DEF e, new
    <3>4. new \in {[e EXCEPT !.state = "PRIMED"], [e EXCEPT !.state = "ACTIVE"], e}
      BY <3>3 DEF Executed
    <3>5. QED
      BY <2>3, <3>1, <3>2, <3>4 DEF Client, Live
  <2>6. QED
    BY <2>4, <2>5
<1> HIDE DEF new
<1>6. /\ slot' \in [Slots -> Client] /\ LiveIn(slot') = LiveIn(slot)
      /\ \A t \in Slots : slot'[t].scriptId = slot[t].scriptId
  BY <1>2, <1>3, <1>4, <1>5 DEF LiveIn
<1>7. \A t \in LiveIn(slot') : slot'[t].timeoutCount <= DropScans
  <2>1. LiveIn(slot) \subseteq Slots
    BY DEF LiveIn
  <2>2. QED
    BY <1>2, <1>3, <1>4, <1>5, <1>6, <2>1
<1>8. SlotsInv(slot', scriptArrays', inGame')
  BY <1>2, <1>3, <1>6, <1>7, ClientsStay
<1>9. \A t \in Slots, k \in Identity : Holds(slot'[t], k) => Holds(slot[t], k)
  BY <1>2, <1>3, <1>4, <1>5 DEF Holds
<1>10. QED
  BY <1>2, <1>8, <1>9, LatestKept DEF IInv

LEMMA DroppedType ==
  ASSUME NEW c \in Client
  PROVE  /\ Dropped(c) \in Client
         /\ Dropped(c).state = "ZOMBIE" /\ Dropped(c).scriptId = 0
         /\ Dropped(c).base = c.base /\ Dropped(c).qport = c.qport
<1>1. 0 \in Ids
  BY DEF Ids
<1>2. QED
  BY <1>1 DEF Client, Dropped

\* SV_DropClient, and SV_KickClient, which touches a zombie too: new is what
\* becomes of the client in slot s.
LEMMA OneLeaves ==
  ASSUME IInv, NEW s \in Slots, NEW new \in Client, newest' = newest,
         slot[s].state # "FREE", new.state = "ZOMBIE", new.scriptId = 0,
         new.base = slot[s].base, new.qport = slot[s].qport,
         slot' \in [Slots -> Client], slot'[s] = new,
         \A t \in Slots \ {s} : slot'[t] = slot[t],
         scriptArrays' = scriptArrays \ ArraysOf({s} \cap LiveSlots),
         inGame' = inGame \ ({s} \cap LiveSlots)
  PROVE  IInv'
<1> DEFINE gone == {s} \cap LiveSlots
<1>1. /\ slot \in [Slots -> Client] /\ SlotsInv(slot, scriptArrays, inGame)
      /\ \A t \in LiveIn(slot) : slot[t].timeoutCount <= DropScans
      /\ \A t \in Slots \ LiveIn(slot) : slot[t].scriptId = 0
  BY DEF IInv, SlotsInv, Owned
<1>2. /\ slot' \in [Slots -> Client] /\ gone \in SUBSET LiveIn(slot)
      /\ LiveIn(slot') = LiveIn(slot) \ gone
      /\ \A t \in LiveIn(slot') : slot'[t].timeoutCount <= DropScans
  BY <1>1 DEF LiveIn, LiveSlots, Live
<1>3. \A t \in Slots : slot'[t].scriptId =
         IF t \in gone THEN 0 ELSE slot[t].scriptId
  <2> SUFFICES ASSUME NEW t \in Slots
               PROVE  slot'[t].scriptId = IF t \in gone THEN 0 ELSE slot[t].scriptId
    OBVIOUS
  <2>1. CASE t = s
    BY <1>1, <2>1 DEF LiveIn, LiveSlots
  <2>2. CASE t # s
    BY <1>1, <2>2
  <2>3. QED
    BY <2>1, <2>2
<1>4. SlotsInv(slot', scriptArrays', inGame')
  <2> HIDE DEF gone
  <2>1. SlotsInv(slot', scriptArrays \ {slot[t].scriptId : t \in gone}, inGame \ gone)
    <3>1. /\ gone \in SUBSET LiveIn(slot)
          /\ LiveIn(slot') = LiveIn(slot) \ gone
      BY <1>2
    <3>2. \A t \in LiveIn(slot') : slot'[t].timeoutCount <= DropScans
      BY <1>2
    <3>3. slot' \in [Slots -> Client] /\ SlotsInv(slot, scriptArrays, inGame)
      BY <1>1, <1>2
    <3>4. QED
      BY <1>3, <3>1, <3>2, <3>3, ClientsLeave
  <2>2. QED
    BY <2>1 DEF ArraysOf, gone
<1>5. \A t \in Slots, k \in Identity : Holds(slot'[t], k) => Holds(slot[t], k)
  BY <1>1 DEF Holds
<1>6. QED
  BY <1>4, <1>5, LatestKept DEF IInv

LEMMA DropStep ==
  ASSUME IInv, Drop
  PROVE  IInv'
<1>1. PICK s \in Slots : DropClient(s)
  BY DEF Drop
<1>2. slot[s] \in Client /\ slot[s].state # "FREE" /\ s \in LiveSlots
  BY <1>1 DEF IInv, SlotsInv, DropClient, Live, LiveSlots
<1>3. {s} \cap LiveSlots = {s}
  BY <1>2
<1> DEFINE new == Dropped(slot[s])
<1>4. /\ new \in Client /\ new.state = "ZOMBIE" /\ new.scriptId = 0
      /\ new.base = slot[s].base /\ new.qport = slot[s].qport
  BY <1>2, DroppedType
<1>5. /\ slot' = [slot EXCEPT ![s] = new] /\ newest' = newest
      /\ scriptArrays' = scriptArrays \ ArraysOf({s})
      /\ inGame' = inGame \ {s}
  BY <1>1 DEF DropClient
<1> HIDE DEF new
<1>6. /\ slot' \in [Slots -> Client] /\ slot'[s] = new
      /\ \A t \in Slots \ {s} : slot'[t] = slot[t]
  BY <1>4, <1>5 DEF IInv, SlotsInv
<1>7. QED
  BY <1>2, <1>3, <1>4, <1>5, <1>6, OneLeaves

LEMMA KickStep ==
  ASSUME IInv, Kick
  PROVE  IInv'
<1>1. PICK s \in Slots : KickClient(s)
  BY DEF Kick
<1>2. /\ slot[s] \in Client /\ slot[s].state # "FREE"
      /\ 0 \in 0 .. Ages /\ (~Live(slot[s]) => slot[s].scriptId = 0)
  BY <1>1, AgesType DEF IInv, SlotsInv, KickClient, Owned, LiveIn
<1> DEFINE left == IF Live(slot[s]) THEN Dropped(slot[s]) ELSE slot[s]
           new == [left EXCEPT !.silence = 0]
<1>3. /\ left \in Client /\ left.state = "ZOMBIE" /\ left.scriptId = 0
      /\ left.base = slot[s].base /\ left.qport = slot[s].qport
  BY <1>2, DroppedType DEF Client, Live
<1>4. /\ slot' = [slot EXCEPT ![s] = new] /\ newest' = newest
      /\ scriptArrays' = scriptArrays \ ArraysOf({s} \cap LiveSlots)
      /\ inGame' = inGame \ ({s} \cap LiveSlots)
  BY <1>1, Zenon DEF KickClient, IInv, SlotsInv
<1> HIDE DEF left
<1>5. /\ new \in Client /\ new.state = "ZOMBIE" /\ new.scriptId = 0
      /\ new.base = slot[s].base /\ new.qport = slot[s].qport
  BY <1>2, <1>3 DEF Client
<1> HIDE DEF new
<1>6. /\ slot' \in [Slots -> Client] /\ slot'[s] = new
      /\ \A t \in Slots \ {s} : slot'[t] = slot[t]
  BY <1>4, <1>5 DEF IInv, SlotsInv
<1>7. QED
  BY <1>2, <1>4, <1>5, <1>6, OneLeaves

LEMMA ScanStep ==
  ASSUME IInv, Scan
  PROVE  IInv'
<1>1. PICK d \in FrameTime : Frame(d)
  BY DEF Scan
<1> DEFINE aged(s) == Aged(slot[s], d)
           gone == {s \in Slots : TimedOut(aged(s))}
<1>2. /\ slot' = [s \in Slots |-> Scanned(aged(s))]
      /\ scriptArrays' = scriptArrays \ ArraysOf(gone)
      /\ inGame' = inGame \ gone /\ newest' = newest
  BY <1>1 DEF Frame
<1>3. /\ slot \in [Slots -> Client] /\ SlotsInv(slot, scriptArrays, inGame)
      /\ \A s \in Slots : Live(slot[s]) => slot[s].timeoutCount <= DropScans
      /\ d \in Nat
  BY DEF IInv, SlotsInv, LiveIn
<1>4. ASSUME NEW s \in Slots
      PROVE  /\ aged(s) \in Client /\ SameClient(aged(s), slot[s])
             /\ Live(aged(s)) => aged(s).timeoutCount <= DropScans
  <2>1. aged(s) \in Client /\ SameClient(aged(s), slot[s])
    BY <1>3, AgedType
  <2>2. QED
    BY <1>3, <2>1 DEF SameClient, Live
<1> HIDE DEF aged
<1>5. ASSUME NEW s \in Slots
      PROVE  /\ slot'[s] \in Client
             /\ slot'[s].base = slot[s].base /\ slot'[s].qport = slot[s].qport
             /\ Live(slot'[s]) <=> Live(slot[s]) /\ s \notin gone
             /\ slot'[s].scriptId = IF s \in gone THEN 0 ELSE slot[s].scriptId
             /\ slot'[s].state \in {slot[s].state, "FREE"}
             /\ Live(slot'[s]) => slot'[s].timeoutCount <= DropScans
             /\ s \in gone => Live(slot[s])
  <2> DEFINE c == aged(s)
  <2>1. c \in Client /\ SameClient(c, slot[s])
        /\ (Live(c) => c.timeoutCount <= DropScans)
    BY <1>4
  <2>2. slot'[s] = Scanned(c) /\ (s \in gone <=> TimedOut(c))
    BY <1>2
  <2>3. Live(c) <=> Live(slot[s])
    BY <2>1 DEF SameClient, Live
  <2> HIDE DEF c, gone
  <2>4. /\ Scanned(c) \in Client
        /\ Scanned(c).base = c.base /\ Scanned(c).qport = c.qport
        /\ Live(Scanned(c)) <=> Live(c) /\ ~TimedOut(c)
        /\ Scanned(c).scriptId = IF TimedOut(c) THEN 0 ELSE c.scriptId
        /\ Scanned(c).state \in {c.state, "FREE"}
        /\ Live(Scanned(c)) => Scanned(c).timeoutCount <= DropScans
        /\ TimedOut(c) => Live(c)
    BY <2>1, ScannedType
  <2>5. QED
    BY <2>1, <2>2, <2>3, <2>4 DEF SameClient
<1>6. slot' \in [Slots -> Client]
  BY <1>2, <1>5
<1>7. gone \in SUBSET LiveIn(slot) /\ LiveIn(slot') = LiveIn(slot) \ gone
  BY <1>5 DEF LiveIn
<1>8. /\ \A s \in Slots : slot'[s].scriptId =
            IF s \in gone THEN 0 ELSE slot[s].scriptId
      /\ \A s \in LiveIn(slot') : slot'[s].timeoutCount <= DropScans
      /\ \A s \in Slots, k \in Identity : Holds(slot'[s], k) => Holds(slot[s], k)
  BY <1>5 DEF LiveIn, Holds
<1>9. newest' = newest /\ scriptArrays' = scriptArrays \ {slot[s].scriptId : s \in gone}
      /\ inGame' = inGame \ gone
  BY <1>2 DEF ArraysOf
<1> HIDE DEF gone
<1>10. SlotsInv(slot', scriptArrays \ {slot[s].scriptId : s \in gone}, inGame \ gone)
  BY <1>3, <1>6, <1>7, <1>8, ClientsLeave
<1>11. QED
  BY <1>8, <1>9, <1>10, LatestKept DEF IInv

LEMMA NewGameStep ==
  ASSUME IInv, NEW d \in FrameTime, NEW keep \in BOOLEAN,
         NEW rejects \in SUBSET Slots, NEW spawned \in BOOLEAN,
         NewGame(d, keep, rejects, spawned)
  PROVE  IInv'
<1> DEFINE n == IF keep THEN 0 ELSE MaxClients
           r == Renewed[n]
           aged(s) == Aged(r.slot[s], d)
           new(s) == IF s \in rejects THEN Dropped(aged(s))
                     ELSE IF Live(aged(s)) THEN Entered(aged(s), spawned)
                     ELSE aged(s)
<1>1. /\ rejects \subseteq LiveSlots
      /\ slot' = [s \in Slots |-> new(s)]
      /\ scriptArrays' = r.arrays \ {r.slot[s].scriptId : s \in rejects}
      /\ inGame' = LiveSlots \ rejects /\ newest' = newest
  BY Zenon DEF NewGame
<1>2. /\ slot \in [Slots -> Client] /\ d \in Nat
      /\ \A s \in LiveIn(slot) : slot[s].timeoutCount <= DropScans
      /\ SlotsInv(slot, scriptArrays, inGame)
  BY DEF IInv, SlotsInv
<1>3. Halfway(r, n)
  <2>1. n \in 0 .. MaxClients
    OBVIOUS
  <2> HIDE DEF n
  <2>2. QED
    BY <1>2, <2>1, RenewedProperties
<1> HIDE DEF r
<1>4. ASSUME NEW s \in Slots
      PROVE  /\ r.slot[s] \in Client /\ r.slot[s].state = slot[s].state
             /\ r.slot[s].base = slot[s].base /\ r.slot[s].qport = slot[s].qport
             /\ r.slot[s].timeoutCount = slot[s].timeoutCount
             /\ Live(r.slot[s]) <=> Live(slot[s])
  <2>1. PICK id \in Ids : r.slot[s] = [slot[s] EXCEPT !.scriptId = id]
    BY <1>3 DEF Halfway
  <2>2. QED
    BY <1>2, <2>1 DEF Client, Live
<1>5. LiveIn(r.slot) = LiveSlots /\ LiveIn(slot) = LiveSlots
  BY <1>4 DEF LiveIn, LiveSlots
<1>6. SlotsInv(r.slot, r.arrays, LiveSlots)
  BY <1>2, <1>3, <1>4, <1>5 DEF SlotsInv, Halfway, LiveSlots
<1>7. ASSUME NEW s \in Slots
      PROVE  /\ new(s) \in Client
             /\ new(s).base = slot[s].base /\ new(s).qport = slot[s].qport
             /\ new(s).state = "FREE" <=> slot[s].state = "FREE"
             /\ Live(new(s)) <=> Live(slot[s]) /\ s \notin rejects
             /\ new(s).scriptId = IF s \in rejects THEN 0 ELSE r.slot[s].scriptId
             /\ Live(new(s)) => new(s).timeoutCount <= DropScans
  <2> DEFINE c == aged(s)
  <2>1. c \in Client /\ SameClient(c, r.slot[s])
    BY <1>2, <1>4, AgedType
  <2>2. /\ c.base = slot[s].base /\ c.qport = slot[s].qport
        /\ c.state = slot[s].state /\ c.scriptId = r.slot[s].scriptId
        /\ Live(c) <=> Live(slot[s])
        /\ Live(c) => c.timeoutCount <= DropScans
    BY <1>2, <1>4, <2>1 DEF SameClient, Live, LiveIn
  <2>3. s \in rejects => Live(slot[s])
    BY <1>1 DEF LiveSlots
  <2> HIDE DEF c
  <2>4. CASE s \in rejects
    <3>1. new(s) = Dropped(c)
      BY <2>4 DEF c
    <3> HIDE DEF new
    <3>2. QED
      BY <2>1, <2>2, <2>3, <2>4, <3>1, DroppedType DEF Live
  <2>5. CASE s \notin rejects /\ Live(c)
    <3>1. new(s) = Entered(c, spawned)
      BY <2>5 DEF c
    <3> HIDE DEF new
    <3>2. new(s) \in {c, [c EXCEPT !.state = "CONNECTED"]}
      BY <3>1 DEF Entered
    <3>3. QED
      BY <2>1, <2>2, <2>5, <3>2 DEF Client, Live
  <2>6. CASE s \notin rejects /\ ~Live(c)
    <3>1. new(s) = c
      BY <2>6 DEF c
    <3> HIDE DEF new
    <3>2. QED
      BY <2>1, <2>2, <2>6, <3>1
  <2>7. QED
    BY <2>4, <2>5, <2>6
<1> HIDE DEF new
<1>8. /\ slot' \in [Slots -> Client]
      /\ LiveIn(slot') = LiveIn(r.slot) \ rejects
      /\ rejects \in SUBSET LiveIn(r.slot)
  <2>1. slot' \in [Slots -> Client]
    BY <1>1, <1>7
  <2>2. \A s \in Slots : Live(slot'[s]) <=> s \in LiveSlots /\ s \notin rejects
    BY <1>1, <1>7 DEF LiveSlots
  <2>3. LiveIn(slot') = LiveSlots \ rejects
    BY <2>2 DEF LiveIn, LiveSlots
  <2>4. QED
    BY <1>1, <1>5, <2>1, <2>3
<1>9. /\ \A s \in Slots : slot'[s].scriptId =
            IF s \in rejects THEN 0 ELSE r.slot[s].scriptId
      /\ \A s \in LiveIn(slot') : slot'[s].timeoutCount <= DropScans
      /\ \A s \in Slots, k \in Identity : Holds(slot'[s], k) => Holds(slot[s], k)
  BY <1>1, <1>7 DEF LiveIn, Holds
<1>10. SlotsInv(slot', r.arrays \ {r.slot[s].scriptId : s \in rejects},
                LiveSlots \ rejects)
  BY <1>6, <1>8, <1>9, ClientsLeave
<1>11. QED
  BY <1>1, <1>9, <1>10, LatestKept DEF IInv

-----------------------------------------------------------------------------
(* Invariance *)

LEMMA Initially == Init => IInv
<1> SUFFICES ASSUME Init PROVE IInv
  OBVIOUS
<1>1. /\ slot = [s \in Slots |-> EmptyClient] /\ scriptArrays = {}
      /\ inGame = {} /\ newest = [k \in Identity |-> None]
  BY DEF Init
<1>2. slot \in [Slots -> Client] /\ LiveIn(slot) = {}
      /\ \A s \in Slots : slot[s].scriptId = 0
  BY <1>1, EmptyType DEF LiveIn, Live
<1>3. SlotsInv(slot, scriptArrays, inGame)
  BY <1>1, <1>2 DEF SlotsInv, Owned
<1>4. QED
  BY <1>1, <1>3 DEF IInv, Latest

LEMMA Step ==
  ASSUME IInv, [Next]_vars
  PROVE  IInv'
<1>1. CASE Connect
  BY <1>1, ConnectStep
<1>2. CASE AddTest
  BY <1>2, AddTestStep
<1>3. CASE Packet
  BY <1>3, PacketStep
<1>4. CASE Drop
  BY <1>4, DropStep
<1>5. CASE Kick
  BY <1>5, KickStep
<1>6. CASE Scan
  BY <1>6, ScanStep
<1>7. CASE Spawn
  BY <1>7, NewGameStep DEF Spawn, SpawnServer
<1>8. CASE Restart
  BY <1>8, NewGameStep DEF Restart, MapRestart
<1>9. CASE UNCHANGED vars
  BY <1>9 DEF vars, IInv, Latest
<1>10. QED
  BY <1>1, <1>2, <1>3, <1>4, <1>5, <1>6, <1>7, <1>8, <1>9 DEF Next

LEMMA Implied ==
  ASSUME IInv
  PROVE  SlotsAgree /\ Reachable
<1>1. /\ SlotsInv(slot, scriptArrays, inGame)
      /\ newest \in [Identity -> Slots \cup {None}]
  BY DEF IInv
<1>2. LiveIn(slot) = LiveSlots
  BY DEF LiveIn, LiveSlots
<1>3. TypeOK
  <2>1. inGame \subseteq Slots
    BY <1>1 DEF SlotsInv, LiveIn
  <2>2. QED
    BY <1>1, <2>1 DEF SlotsInv, TypeOK, Client, Ids
<1>4. ScriptArraysOwned
  BY <1>1, <1>2 DEF SlotsInv, Owned, ScriptArraysOwned, ArraysOf
<1>5. GameAgrees
  BY <1>1, <1>2 DEF SlotsInv, GameAgrees
<1>6. Reachable
  <2> SUFFICES ASSUME NEW k \in Identity, newest[k] # None,
                      Holds(slot[newest[k]], k), NEW port \in Port
               PROVE  Min(Addressees(k[1], port, k[2])) = newest[k]
    BY Zenon DEF Reachable, Holds
  <2> DEFINE to == Addressees(k[1], port, k[2])
             s == newest[k]
  <2>1. to = {t \in Slots : Holds(slot[t], k)}
    BY DEF Addressees, Holds
  <2>2. s \in to /\ \A t \in to : s <= t
    BY <1>1, <2>1 DEF IInv, Latest
  <2>3. to \in SUBSET Slots
    BY <2>1
  <2> HIDE DEF to, s
  <2>4. Min(to) \in to /\ Min(to) <= s
    BY <2>2, <2>3, MinOfSlots
  <2>5. \A a, b \in Slots : a <= b /\ b <= a => a = b
    BY DEF Slots
  <2>6. Min(to) = s
    BY <2>2, <2>3, <2>4, <2>5
  <2>7. QED
    BY <2>6 DEF to, s
<1>7. QED
  BY <1>3, <1>4, <1>5, <1>6 DEF SlotsAgree

\* In every behaviour of the slots the inductive invariant holds.
THEOREM Invariance == Spec => []IInv
<1>1. Init => IInv
  BY Initially
<1>2. IInv /\ [Next]_vars => IInv'
  BY Step
<1>3. QED
  BY <1>1, <1>2, PTL DEF Spec

\* client_t, the script arrays and the game VM agree on who is connected,
\* through every connection, drop, kick, timeout and change of map.
THEOREM Agreement == Spec => []SlotsAgree
<1>1. IInv => SlotsAgree
  BY Implied
<1>2. QED
  BY <1>1, Invariance, PTL

\* SV_PacketEvent finds the slot of the latest SV_DirectConnect of an address
\* and client id, for as long as the slot is theirs.
THEOREM Reaches == Spec => []Reachable
<1>1. IInv => Reachable
  BY Implied
<1>2. QED
  BY <1>1, Invariance, PTL
=============================================================================
