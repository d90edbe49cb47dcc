---------------------------- MODULE ScriptMemory ----------------------------
(***************************************************************************)
(* The allocator behind script strings, saved thread stacks and vectors    *)
(* (scripting/script_memory.c): one arena of blocks dealt out in runs of a *)
(* power of two.  The free runs of each length hang in a tree threaded     *)
(* through the free blocks themselves: a node sits on the path of halves   *)
(* that leads to its position, and above every node of a lower score.      *)
(*                                                                         *)
(* The links are kept as the code keeps them, since what can go wrong is   *)
(* in them.  used is the callers' side: which run was handed out for       *)
(* which size.                                                             *)
(***************************************************************************)
EXTENDS Integers, FiniteSets
LOCAL INSTANCE FiniteSetsExt

CONSTANTS
    Width,          \* log2 SCRIPT_MEMORY_BLOCK_COUNT; SCRIPT_MEMORY_MAX_BUCKET
    BlockSize,      \* SCRIPT_MEMORY_BLOCK_SIZE
    MaxAllocation,  \* SCRIPT_MEMORY_MAX_ALLOCATION_SIZE
    TableWidth,     \* log2 SCRIPT_MEMORY_LOOKUP_COUNT
    Sizes,          \* the sizes callers ask for
    MaxHeld         \* bound: runs handed out at a time

ASSUME MemoryAssumption ==
    /\ {Width, BlockSize, MaxAllocation, TableWidth, MaxHeld} \subseteq Nat \ {0}
    /\ Sizes \subseteq Int
    /\ MaxAllocation <= BlockSize * 2^Width
    /\ TableWidth < Width

VARIABLES
    root,           \* script_memoryFreeRoots
    node,           \* script_memoryBlocks[].freeNode
    instances,      \* script_memoryAllocatedInstanceCount
    buckets,        \* script_memoryAllocatedBucketCount
    used,           \* the runs callers hold: first block |-> size asked for
    refused         \* the size MT_Error was called with, if the last call was

vars == <<root, node, instances, buckets, used, refused>>

Blocks == 0 .. 2^Width - 1
Buckets == 0 .. Width
Empty == [left |-> 0, right |-> 0]

TypeOK ==
    /\ root \in [Buckets -> Blocks]
    /\ node \in [Blocks -> [left : Blocks, right : Blocks]]
    /\ instances \in Nat
    /\ buckets \in 0 .. 2^Width - 1
    /\ DOMAIN used \subseteq Blocks \ {0}
    /\ \A b \in DOMAIN used : used[b] \in Sizes
    /\ refused \subseteq Sizes /\ Cardinality(refused) <= 1

-----------------------------------------------------------------------------
(* Lengths and scores *)

BitWidth[n \in Nat] == IF n = 0 THEN 0 ELSE 1 + BitWidth[n \div 2]
PopCount[n \in Nat] == IF n = 0 THEN 0 ELSE (n % 2) + PopCount[n \div 2]
TrailingZeros[n \in Nat] ==
    IF n % 2 = 1 THEN 0 ELSE 1 + TrailingZeros[n \div 2]

InvalidSize(size) == size <= 0 \/ size >= MaxAllocation

\* The widths of a byte come from a table, which numbers of more bits look up
\* by their high part.
MT_GetSize(size) ==
    LET last == (size + BlockSize - 1) \div BlockSize - 1
    IN  IF last < 2^TableWidth
        THEN BitWidth[last]
        ELSE BitWidth[last \div 2^TableWidth] + TableWidth

\* Within a range, the block at its centre scores above every other, so that
\* a search that meets the centre without finding it may stop.
MT_GetScoreMutant(b) == 2^Width - b - PopCount[2^Width - b]
MT_GetScore(b) ==
    LET distance == 2^Width - b
    IN  2^TrailingZeros[distance] + distance - PopCount[distance]

Score == [b \in Blocks \ {0} |-> MT_GetScore(b)]

-----------------------------------------------------------------------------
(* The trees.  A tree operation works on mem, the links, at a link: that of *)
(* a bucket's root or of one side of a node.                                *)

mem == [root |-> root, node |-> node]

RootOf(bucket) == [of |-> "root", at |-> bucket]
Side(b, center, at) == [of |-> IF b < center THEN "left" ELSE "right", at |-> at]
LeftOf(b) == [of |-> "left", at |-> b]
RightOf(b) == [of |-> "right", at |-> b]

Follow(m, link) ==
    CASE link.of = "root" -> m.root[link.at]
      [] link.of = "left" -> m.node[link.at].left
      [] link.of = "right" -> m.node[link.at].right

Point(m, link, b) ==
    CASE link.of = "root" -> [m EXCEPT !.root[link.at] = b]
      [] link.of = "left" -> [m EXCEPT !.node[link.at].left = b]
      [] link.of = "right" -> [m EXCEPT !.node[link.at].right = b]

Narrow(b, center, span) ==
    IF b < center THEN center - span \div 2 ELSE center + span \div 2

\* b takes the place at link; what was there goes further down, each on its
\* own side.
RECURSIVE PushDown(_, _, _, _, _)
PushDown(m, link, b, center, span) ==
    LET current == Follow(m, link)
        placed == [Point(m, link, b) EXCEPT !.node[b] = m.node[current]]
    IN  IF current = 0
        THEN placed
        ELSE PushDown(placed, Side(current, center, b), current,
                      Narrow(current, center, span), span \div 2)

RECURSIVE Descend(_, _, _, _, _)
Descend(m, link, b, center, span) ==
    LET current == Follow(m, link)
    IN  IF current = 0
        THEN [Point(m, link, b) EXCEPT !.node[b] = Empty]
        ELSE IF Score[current] < Score[b]
        THEN PushDown(m, link, b, center, span)
        ELSE Descend(m, Side(b, center, current), b,
                     Narrow(b, center, span), span \div 2)

MT_AddMemoryNode(m, b, bucket) == Descend(m, RootOf(bucket), b, 0, 2^Width)

\* The link that leads to b, or none: the search ends at an empty link, or
\* where b's own centre is reached without having met b.
NoLink == [of |-> "none", at |-> 0]
RECURSIVE Search(_, _, _, _, _)
Search(m, link, b, center, span) ==
    LET current == Follow(m, link)
    IN  CASE current = 0 -> NoLink
          [] current # 0 /\ b = current -> link
          [] current # 0 /\ b # current /\ b = center -> NoLink
          [] OTHER -> Search(m, Side(b, center, current), b,
                             Narrow(b, center, span), span \div 2)

\* A node's children close the gap it left: the higher score moves up, and
\* the gap moves down its side with the children still to be placed.
RECURSIVE CloseGap(_, _, _)
CloseGap(m, link, kids) ==
    LET right ==
            \/ kids.left = 0
            \/ /\ kids.right # 0
               /\ Score[kids.left] < Score[kids.right]
        next == IF right THEN kids.right ELSE kids.left
    IN  IF next = 0
        THEN Point(m, link, 0)
        ELSE CloseGap([Point(m, link, next) EXCEPT !.node[next] = kids],
                      IF right THEN RightOf(next) ELSE LeftOf(next),
                      m.node[next])

\* The links of a block outside every tree mean nothing: the callers write
\* over them.
Detach(m, link, b) ==
    CloseGap([m EXCEPT !.node[b] = Empty], link, m.node[b])

MT_RemoveHeadMemoryNode(m, bucket) ==
    Detach(m, RootOf(bucket), m.root[bucket])

Found(m, b, bucket) == Search(m, RootOf(bucket), b, 0, 2^Width) # NoLink

MT_RemoveMemoryNode(m, b, bucket) ==
    Detach(m, Search(m, RootOf(bucket), b, 0, 2^Width), b)

-----------------------------------------------------------------------------
(* Taking and giving back *)

\* The upper halves of a run that is too long go back, one per halving.
RECURSIVE Split(_, _, _, _)
Split(m, b, bucket, wanted) ==
    IF bucket = wanted
    THEN m
    ELSE Split(MT_AddMemoryNode(m, b + 2^(bucket - 1), bucket - 1),
               b, bucket - 1, wanted)

\* The shortest free run that will do.
Candidates(m, wanted) == {n \in wanted .. Width : m.root[n] # 0}
Shortest(m, wanted) ==
    CHOOSE n \in Candidates(m, wanted) :
        \A k \in Candidates(m, wanted) : n <= k

Take(m, wanted) ==
    LET bucket == Shortest(m, wanted)
        b == m.root[bucket]
    IN  [block |-> b,
         mem |-> Split(MT_RemoveHeadMemoryNode(m, bucket), b, bucket, wanted)]

\* A run that comes back joins its other half as long as that is free too.
RECURSIVE Return(_, _, _)
Buddy(b, bucket) == IF (b \div 2^bucket) % 2 = 0 THEN b + 2^bucket ELSE b - 2^bucket
ReturnMutant(m, b, bucket) == MT_AddMemoryNode(m, b, bucket)
Return(m, b, bucket) ==
    IF bucket # Width /\ Found(m, Buddy(b, bucket), bucket)
    THEN Return(MT_RemoveMemoryNode(m, Buddy(b, bucket), bucket),
                IF b < Buddy(b, bucket) THEN b ELSE Buddy(b, bucket),
                bucket + 1)
    ELSE MT_AddMemoryNode(m, b, bucket)

Install(m) == root' = m.root /\ node' = m.node

\* The lower run of each length except the first, which block 0 is part of.
RECURSIVE Stock(_, _)
Stock(m, bucket) ==
    IF bucket = Width
    THEN m
    ELSE Stock(MT_AddMemoryNode(m, 2^bucket, bucket), bucket + 1)

MT_Init ==
    LET m == Stock([root |-> [n \in Buckets |-> 0],
                    node |-> [b \in Blocks |-> Empty]], 0)
    IN  root = m.root /\ node = m.node /\ instances = 0 /\ buckets = 0

Init ==
    /\ MT_Init
    /\ used = <<>>
    /\ refused = {}

\* The runs callers hold, with one more and with one less.
Held(b, size) ==
    [c \in DOMAIN used \cup {b} |-> IF c = b THEN size ELSE used[c]]
Less(runs, b) == [c \in DOMAIN runs \ {b} |-> runs[c]]

MT_AllocIndex(size) ==
    /\ Cardinality(DOMAIN used) < MaxHeld
    /\ ~InvalidSize(size)
    /\ Candidates(mem, MT_GetSize(size)) # {}
    /\ LET wanted == MT_GetSize(size)
           taken == Take(mem, wanted)
       IN  /\ Install(taken.mem)
           /\ instances' = instances + 1
           /\ buckets' = buckets + 2^wanted
           /\ used' = Held(taken.block, size)
    /\ refused' = {}

MT_Error(size) ==
    /\ ~InvalidSize(size) => Candidates(mem, MT_GetSize(size)) = {}
    /\ refused' = {size}
    /\ UNCHANGED <<root, node, instances, buckets, used>>

\* The caller names the size again.
MT_FreeIndex(b) ==
    /\ LET bucket == MT_GetSize(used[b])
       IN  /\ Install(Return(mem, b, bucket))
           /\ instances' = instances - 1
           /\ buckets' = buckets - 2^bucket
    /\ used' = Less(used, b)
    /\ refused' = {}

\* coduomp_script_notify_append_args_to_frame: a saved stack that outgrows
\* its run is copied to a new one before the old one is given back.
AppendArgs(b, size) ==
    /\ ~InvalidSize(size)
    /\ size > used[b]
    /\ LET old == MT_GetSize(used[b])
           wanted == MT_GetSize(size)
       IN  \/ /\ wanted = old   \* MT_Realloc
              /\ used' = Held(b, size)
              /\ UNCHANGED <<root, node, instances, buckets>>
           \/ /\ wanted # old
              /\ Candidates(mem, wanted) # {}
              /\ LET taken == Take(mem, wanted)
                 IN  /\ Install(Return(taken.mem, b, old))
                     /\ instances' = instances
                     /\ buckets' = buckets + 2^wanted - 2^old
                     /\ used' = Less(Held(taken.block, size), b)
    /\ refused' = {}

Next ==
    \/ \E size \in Sizes : MT_AllocIndex(size) \/ MT_Error(size)
    \/ \E b \in DOMAIN used : MT_FreeIndex(b)
    \/ \E b \in DOMAIN used, size \in Sizes : AppendArgs(b, size)

Spec == Init /\ [][Next]_vars

-----------------------------------------------------------------------------
(* Properties *)

RECURSIVE Under(_)
Under(b) == IF b = 0 THEN {} ELSE {b} \cup Under(node[b].left) \cup Under(node[b].right)

Free(bucket) == Under(root[bucket])
Run(b, bucket) == b .. b + 2^bucket - 1

Runs == {<<b, n>> \in Blocks \X Buckets : b \in Free(n)}
            \cup {<<b, MT_GetSize(used[b])>> : b \in DOMAIN used}

\* Every block but block 0 belongs to exactly one run, free or handed out:
\* splitting and joining neither lose a block nor deal it out twice.
EachBlockOnce ==
    LET runs == Runs
    IN  /\ UNION {Run(r[1], r[2]) : r \in runs} = Blocks \ {0}
        /\ MapThenSumSet(LAMBDA r : 2^r[2], runs) = 2^Width - 1

\* Two halves of one run are never both free: MT_FreeIndex always finds the
\* half that is free, wherever its tree keeps it.
HalvesJoin ==
    \A n \in 0 .. Width - 1 :
        LET free == Free(n) IN \A b \in free : Buddy(b, n) \notin free

\* The search of MT_RemoveMemoryNode, which looks along one path and gives up
\* at the centre, finds exactly the runs that are in the tree.
SearchIsExact ==
    \A n \in Buckets :
        LET free == Free(n)
        IN  \A b \in Blocks \ {0} :
                b % 2^n = 0 => (Found(mem, b, n) <=> b \in free)

\* The totals that MT_DumpTree and Scr_GetStringUsage report are those of the
\* runs handed out.
TotalsAgree ==
    /\ instances = Cardinality(DOMAIN used)
    /\ buckets = Cardinality(UNION {Run(b, MT_GetSize(used[b])) : b \in DOMAIN used})

\* The trees implement the arena's contract: a request that fits is given a
\* disjoint run of the least sufficient length, and MT_Error is called for a
\* size only when that size is invalid or no run of the length it needs is
\* left anywhere in the arena.
Sufficient == INSTANCE Arena WITH Limit <- MaxAllocation
ServesFromArena == Sufficient!Spec

\* The trees of MT_AddMemoryNode and MT_RemoveMemoryNode hold every free run,
\* each to be found, and with the runs handed out they make up the arena.
ArenaSound == TypeOK /\ EachBlockOnce /\ HalvesJoin /\ SearchIsExact /\ TotalsAgree
=============================================================================
