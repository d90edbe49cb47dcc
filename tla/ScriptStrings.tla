--------------------------- MODULE ScriptStrings ---------------------------
(***************************************************************************)
(* The table of interned script strings (scripting/script_string.c): one   *)
(* array of slots that is hash table, overflow area and list of free slots *)
(* at once.  A string whose hash slot serves another ring evicts what is   *)
(* there; a ring's members move up as they are looked up and as others are *)
(* freed.  Each string lives as long as someone holds it: by a counted     *)
(* reference, or as one of the owners kept as bits in its header.          *)
(***************************************************************************)
EXTENDS Naturals, FiniteSets, Sequences

CONSTANTS
    Text,           \* the strings
    NoText,         \* what a block that holds no string says
    Hash,           \* GetHashCode of each text
    Slots,          \* SCRIPT_STRING_HASH_SLOT_COUNT - 1
    Users,          \* the owner bits
    NoUser,         \* a caller that wants a counted reference
    MaxReferences   \* bound: counted references to one string

ASSUME StringsAssumption ==
    /\ Slots \in Nat \ {0}
    /\ Hash \in [Text -> 1 .. Slots]
    /\ NoText \notin Text
    /\ NoUser \notin Users
    /\ MaxReferences \in Nat \ {0}

\* One handle for each text: the arena itself never runs out.
Handle == 1 .. Cardinality(Text)

VARIABLES
    slot,           \* script_stringHashSlots: the link, its flags, the handle;
                    \* a free slot keeps the slot before it for a handle
    entry,          \* the string headers and texts in the arena, by handle
    held,           \* the counted references callers hold to each text
    claimed         \* the owners each text has been given to

stringVars == <<slot, entry, held, claimed>>

NoEntry == [text |-> NoText, refs |-> 0, users |-> {}]

StringsTypeOK ==
    /\ slot \in [0 .. Slots -> [link : 0 .. Slots,
                                flags : {"free", "chained", "occupied"},
                                handle : Nat]]
    /\ entry \in [Handle -> [text : Text \cup {NoText},
                             refs : Nat,
                             users : SUBSET Users]]
    /\ held \in [Text -> 0 .. MaxReferences]
    /\ claimed \in [Text -> SUBSET Users]

-----------------------------------------------------------------------------
(* The table s.  The walks stop after as many slots as there are. *)

RECURSIVE Walk(_, _, _)
Walk(s, visited, hash) ==
    LET next == s[visited[Len(visited)]].link
    IN  IF next = hash \/ Len(visited) > Slots
        THEN visited
        ELSE Walk(s, Append(visited, next), hash)

\* The slots of a ring, its head first.
Ring(s, hash) == Walk(s, <<hash>>, hash)

\* Where in the ring the string is that has the text, 0 for nowhere.
Place(s, e, text) ==
    LET ring == Ring(s, Hash[text])
        matches == {n \in 1 .. Len(ring) : e[s[ring[n]].handle].text = text}
    IN  IF s[Hash[text]].flags # "occupied" \/ matches = {}
        THEN 0
        ELSE CHOOSE n \in matches : \A k \in matches : n <= k

\* coduomp_script_string_move_slot_to_hash_head
MoveToHead(s, hash, previous, match) ==
    LET unlinked == [s EXCEPT ![previous].link = s[match].link]
        second == [unlinked EXCEPT ![match].link = unlinked[hash].link,
                                   ![hash].link = match]
    IN  [second EXCEPT ![match].handle = s[hash].handle,
                       ![hash].handle = s[match].handle]

\* A string found in its ring changes places with the head's.
MovedUp(s, e, text) ==
    LET ring == Ring(s, Hash[text])
        n == Place(s, e, text)
    IN  IF n < 2 THEN s ELSE MoveToHead(s, Hash[text], ring[n - 1], ring[n])

\* coduomp_script_string_pop_free_hash_slot
PopFree(s) ==
    LET popped == [s EXCEPT ![0].link = s[s[0].link].link]
    IN  [popped EXCEPT ![popped[0].link].handle = 0]

\* coduomp_script_string_unlink_free_slot
UnlinkFree(s, x) ==
    [s EXCEPT ![s[x].handle].link = s[x].link,
              ![s[x].link].handle = s[x].handle]

\* coduomp_script_string_insert_into_occupied_head: the head's string goes to
\* the free slot, second in the ring.
MakeRoom(s, hash) ==
    LET free == s[0].link
        popped == PopFree(s)
    IN  [popped EXCEPT ![free] = [popped[hash] EXCEPT !.flags = "chained"],
                       ![hash].link = free]

\* coduomp_script_string_insert_into_linked_hash: the slot serves another
\* ring, which takes the free one for it.
EvictMutant(s, hash) ==
    LET free == s[0].link
        popped == PopFree(s)
        ring == Ring(popped, hash)
    IN  [popped EXCEPT ![ring[2]].link = free,
                       ![free] = [popped[hash] EXCEPT !.flags = "chained"],
                       ![hash] = [@ EXCEPT !.link = hash, !.flags = "occupied"]]
Evict(s, hash) ==
    LET free == s[0].link
        popped == PopFree(s)
        ring == Ring(popped, hash)
    IN  [popped EXCEPT ![ring[Len(ring)]].link = free,
                       ![free] = [popped[hash] EXCEPT !.flags = "chained"],
                       ![hash] = [@ EXCEPT !.link = hash, !.flags = "occupied"]]

\* Whether a new string of the hash needs a slot besides its own.
NeedsFree(s, hash) == s[hash].flags # "free"

Prepared(s, hash) ==
    CASE s[hash].flags = "occupied" -> MakeRoom(s, hash)
      [] s[hash].flags = "chained" -> Evict(s, hash)
      [] s[hash].flags = "free" ->
            [UnlinkFree(s, hash) EXCEPT
                ![hash] = [@ EXCEPT !.link = hash, !.flags = "occupied"]]

FreeSlot(s, x) ==
    LET listed == [s EXCEPT ![x] = [link |-> s[0].link, flags |-> "free",
                                    handle |-> 0]]
    IN  [listed EXCEPT ![s[0].link].handle = x, ![0].link = x]

-----------------------------------------------------------------------------
(* The strings: st is the table with the arena's headers.  headTaken says   *)
(* that a head slot was given the next string of its ring, as does          *)
(* script_stringFreedHashSlot.                                              *)

State == [slot |-> slot, entry |-> entry, headTaken |-> FALSE]

SL_FreeString(st, handle) ==
    LET hash == Hash[st.entry[handle].text]
        s == st.slot
        ring == Ring(s, hash)
        n == CHOOSE k \in 1 .. Len(ring) : s[ring[k]].handle = handle
    IN  [slot |->
            CASE n = 1 /\ Len(ring) = 1 -> FreeSlot(s, hash)
              [] n = 1 /\ Len(ring) # 1 ->
                    FreeSlot([s EXCEPT ![hash] = [s[ring[2]] EXCEPT !.flags = "occupied"]],
                             ring[2])
              [] n # 1 ->
                    FreeSlot([s EXCEPT ![ring[n - 1]].link = s[ring[n]].link],
                             ring[n]),
         entry |-> [st.entry EXCEPT ![handle] = NoEntry],
         headTaken |-> st.headTaken \/ (n = 1 /\ Len(ring) # 1)]

\* The count in the header leaves the first reference out.
SL_RemoveRef(st, handle) ==
    IF st.entry[handle].refs = 0
    THEN SL_FreeString(st, handle)
    ELSE [st EXCEPT !.entry[handle].refs = @ - 1]

ChangeTable(st) == slot' = st.slot /\ entry' = st.entry

Live == {h \in Handle : entry[h].text # NoText}
FreeHandle == CHOOSE h \in Handle \ Live : \A k \in Handle \ Live : h <= k

\* One reference more, as the user asked for it, unless it is his already.
Shared(e, user) ==
    IF user \in e.users
    THEN e
    ELSE [e EXCEPT !.refs = @ + 1,
                   !.users = IF user = NoUser THEN @ ELSE @ \cup {user}]

Record(text, user) ==
    IF user = NoUser
    THEN /\ held' = [held EXCEPT ![text] = @ + 1]
         /\ UNCHANGED claimed
    ELSE /\ claimed' = [claimed EXCEPT ![text] = @ \cup {user}]
         /\ UNCHANGED held

SL_Init ==
    [x \in 0 .. Slots |-> [link |-> IF x = Slots THEN 0 ELSE x + 1,
                           flags |-> "free",
                           handle |-> IF x = 0 THEN Slots ELSE x - 1]]

StringsInit ==
    /\ slot = SL_Init
    /\ entry = [h \in Handle |-> NoEntry]
    /\ held = [t \in Text |-> 0]
    /\ claimed = [t \in Text |-> {}]

\* A string that is there already.
ShareString(text, user) ==
    /\ Place(slot, entry, text) # 0
    /\ LET moved == MovedUp(slot, entry, text)
           handle == moved[Hash[text]].handle
       IN  /\ slot' = moved
           /\ entry' = [entry EXCEPT ![handle] = Shared(@, user)]
    /\ Record(text, user)

\* A new string.  Without a free slot for it, the call ends in Com_Error
\* before anything has changed.
NewString(text, user) ==
    /\ Place(slot, entry, text) = 0
    /\ NeedsFree(slot, Hash[text]) => slot[0].link # 0
    /\ LET ready == Prepared(slot, Hash[text])
       IN  /\ slot' = [ready EXCEPT ![Hash[text]].handle = FreeHandle]
           /\ entry' = [entry EXCEPT ![FreeHandle] =
                           [text |-> text, refs |-> 0, users |-> {user} \cap Users]]
    /\ Record(text, user)

SL_GetStringOfLen(text, user) ==
    /\ user = NoUser => held[text] < MaxReferences
    /\ ShareString(text, user) \/ NewString(text, user)

\* Looking a string up moves it, too.
SL_FindStringOfLen(text) ==
    /\ slot' = MovedUp(slot, entry, text)
    /\ UNCHANGED <<entry, held, claimed>>

SL_AddRefToString(handle) ==
    LET text == entry[handle].text
    IN  /\ held[text] < MaxReferences
        /\ entry' = [entry EXCEPT ![handle].refs = @ + 1]
        /\ held' = [held EXCEPT ![text] = @ + 1]
        /\ UNCHANGED <<slot, claimed>>

SL_RemoveRefToString(handle) ==
    LET text == entry[handle].text
    IN  /\ held[text] > 0
        /\ ChangeTable(SL_RemoveRef(State, handle))
        /\ held' = [held EXCEPT ![text] = @ - 1]
        /\ UNCHANGED claimed

\* A counted reference becomes the user's; one that he has already is dropped.
Transferred(e, user) ==
    IF user \in e.users
    THEN [e EXCEPT !.refs = @ - 1]
    ELSE [e EXCEPT !.users = @ \cup {user}]

SL_TransferRefToString(handle, user) ==
    LET text == entry[handle].text
    IN  /\ held[text] > 0
        /\ entry' = [entry EXCEPT ![handle] = Transferred(@, user)]
        /\ held' = [held EXCEPT ![text] = @ - 1]
        /\ claimed' = [claimed EXCEPT ![text] = @ \cup {user}]
        /\ UNCHANGED slot

\* The sweep stays at a slot that has been given its ring's next string.
RECURSIVE Sweep(_, _, _)
SweepMutant(st, x, user) ==
    IF x > Slots
    THEN st
    ELSE IF st.slot[x].flags = "free" \/ user \notin st.entry[st.slot[x].handle].users
    THEN Sweep(st, x + 1, user)
    ELSE Sweep(SL_RemoveRef([st EXCEPT !.entry[st.slot[x].handle].users = @ \ {user},
                                       !.headTaken = FALSE], st.slot[x].handle),
               x + 1, user)
Sweep(st, x, user) ==
    IF x > Slots
    THEN st
    ELSE IF st.slot[x].flags = "free" \/ user \notin st.entry[st.slot[x].handle].users
    THEN Sweep(st, x + 1, user)
    ELSE LET handle == st.slot[x].handle
             dropped == SL_RemoveRef([st EXCEPT !.entry[handle].users = @ \ {user},
                                                !.headTaken = FALSE], handle)
         IN  Sweep(dropped, IF dropped.headTaken THEN x ELSE x + 1, user)

SL_ShutdownSystem(user) ==
    /\ ChangeTable(Sweep(State, 1, user))
    /\ claimed' = [t \in Text |-> claimed[t] \ {user}]
    /\ UNCHANGED held

StringsNext ==
    \/ \E text \in Text, user \in Users \cup {NoUser} : SL_GetStringOfLen(text, user)
    \/ \E text \in Text : SL_FindStringOfLen(text)
    \/ \E handle \in Live :
          \/ SL_AddRefToString(handle)
          \/ SL_RemoveRefToString(handle)
          \/ \E user \in Users : SL_TransferRefToString(handle, user)
    \/ \E user \in Users : SL_ShutdownSystem(user)

StringsSpec == StringsInit /\ [][StringsNext]_stringVars

-----------------------------------------------------------------------------
(* Properties *)

FreeSlots == {x \in 1 .. Slots : slot[x].flags = "free"}
Heads == {x \in 1 .. Slots : slot[x].flags = "occupied"}
Members(hash) == LET ring == Ring(slot, hash) IN {ring[n] : n \in 1 .. Len(ring)}

\* A string is in the arena exactly as long as someone holds it, and its
\* header counts its holders: no sequence of SL_GetString, transfers and
\* SL_ShutdownSystem frees a string in use or keeps one that nobody holds.
RefsExact ==
    /\ \A h \in Live :
          LET text == entry[h].text
          IN  /\ entry[h].refs + 1 = held[text] + Cardinality(claimed[text])
              /\ entry[h].users = claimed[text]
    /\ \A text \in Text :
          held[text] > 0 \/ claimed[text] # {} => \E h \in Live : entry[h].text = text

\* Interning: every string in the arena is found under its text, and by the
\* ring of its own hash, so that equal texts have equal handles.
EveryStringFound ==
    \A h \in Live :
        LET n == Place(slot, entry, entry[h].text)
        IN  n # 0 /\ slot[Ring(slot, Hash[entry[h].text])[n]].handle = h

\* Every slot in use belongs to the ring of exactly one head, and the strings
\* of a ring have its head's hash: evicting a string from a slot that another
\* hash needs, and moving one up, never joins or breaks two rings.
RingsPartition ==
    /\ \A x \in (1 .. Slots) \ FreeSlots : Cardinality({h \in Heads : x \in Members(h)}) = 1
    /\ \A h \in Heads : \A x \in Members(h) :
          /\ x \notin FreeSlots
          /\ slot[x].handle \in Live
          /\ Hash[entry[slot[x].handle].text] = h
    /\ Cardinality((1 .. Slots) \ FreeSlots) = Cardinality(Live)

\* The list of free slots goes through every free slot and leads back along
\* the handles: a hash slot can be taken out of its middle.
FreeListSound ==
    LET list == Ring(slot, 0)
    IN  /\ {list[n] : n \in 2 .. Len(list)} = FreeSlots
        /\ \A n \in 1 .. Len(list) :
              slot[list[n]].handle = list[IF n = 1 THEN Len(list) ELSE n - 1]

\* Every slot that SL_GetStringOfLen and SL_FreeString move about serves one
\* ring or the list of free ones, and SL_FindStringOfLen finds every string.
TableSound ==
    /\ StringsTypeOK
    /\ RingsPartition
    /\ FreeListSound
    /\ EveryStringFound
=============================================================================
