--------------------------- MODULE ScriptThreads ---------------------------
(***************************************************************************)
(* The cooperative threads of the game scripts: src/src/scripting/         *)
(* script_notify.c, script_thread.c, the thread opcodes of script_vm.cpp   *)
(* and the reference counts of script_variable.c.                          *)
(*                                                                         *)
(* A script thread runs until it returns, sleeps (wait) or waits for a     *)
(* notification of an object (waittill).  A thread that started others     *)
(* with "thread f()" is suspended in the native stack below them.  What    *)
(* sleeps hangs in a list of its wake-up time; what waits hangs in a       *)
(* bucket of the object it waits on and, a second time, in the bucket of   *)
(* its own self object (script_pauseArray).  An endon is a child thread    *)
(* that never runs: it waits in its parent's place, and when it is         *)
(* notified the parent is ended.  All of these hold counted references.    *)
(***************************************************************************)
EXTENDS Integers, Sequences, FiniteSets, FiniteSetsExt, SequencesExt

CONSTANTS
  Threads,      \* the variable nodes that threads may occupy: numbers
  Entities,     \* the variable nodes that entity objects may occupy
  Level,        \* the level object
  Names,        \* the names of notifications
  TimeKeys,     \* how many time keys there are (2^24)
  Delays,       \* the delays a script waits for
  Frame,        \* how far one server frame moves the time
  Horizon,      \* bound: the time is not moved past it
  None

ASSUME ConstantsAssumption ==
  /\ IsFiniteSet(Threads) /\ Threads \subseteq Nat
  /\ TimeKeys \in Nat \ {0} /\ Delays \subseteq 0 .. TimeKeys - 1
  /\ Frame \in 1 .. TimeKeys - 1 /\ Horizon \in Nat
  /\ Level \notin Entities /\ None \notin Threads \cup Entities \cup {Level}

VARIABLES
  heap,         \* the variable nodes and the containers the threads hang in
  run,          \* the native stack: nested VM_Execute calls, each a stack of
                \* the threads of its script calls, the base first
  now,          \* script_currentTimeKey
  pump,         \* what runs the list of the current time: "idle" for nothing,
                \* "current" Scr_RunCurrentThreads, "until" Scr_SetTime
  until,        \* the key at which Scr_SetTime stops
  active        \* script_timeArrayHandle is not zero

time == <<now, pump, until, active>>
vars == <<heap, run, time>>

Objects == Entities \cup {Level}
Nodes == Objects \cup Threads
Keys == 0 .. TimeKeys - 1

(***************************************************************************)
(* The heap.  refs counts as valueOrRefCount does: 0 is the last reference.*)
(* wrong is set when a free node is used or a looked-up entry is missing,  *)
(* where the code goes on with node 0 or with whatever took the node over. *)
(***************************************************************************)
EmptyHeap ==
  [kind |-> [n \in Nodes |-> "free"],      \* free, thread, dead, entity ...
   refs |-> [n \in Nodes |-> 0],
   self |-> [t \in Threads |-> None],      \* parentHandle
   name |-> [t \in Threads |-> None],      \* the thread's notify name
   stack |-> [t \in Threads |-> None],     \* SCRIPT_NOTIFY_STACK_KEY
   bucket |-> [o \in Objects |-> [x \in Names |-> <<>>]],
   on |-> [t \in Threads |-> None],        \* script_pauseArray[self][t]
   times |-> [k \in Keys |-> <<>>],
   wrong |-> FALSE]

\* A living object: its type is below SCRIPT_VAR_ARRAY.
IsFieldObject(h, n) == h.kind[n] \in {"thread", "entity", "level"}

Check(h, ok) == [h EXCEPT !.wrong = @ \/ ~ok]

AddRef(h, n) == [Check(h, h.kind[n] # "free") EXCEPT !.refs[n] = @ + 1]

RemoveRef(h, n) ==
  LET c == Check(h, h.kind[n] # "free")
  IN  IF h.refs[n] > 0 THEN [c EXCEPT !.refs[n] = @ - 1]
      ELSE [c EXCEPT !.kind[n] = "free",
                     !.self = [t \in Threads |-> IF t = n THEN None ELSE @[t]]]

\* The threads whose self is n that wait for something: the bucket of n in
\* script_pauseArray, which exists while it is not empty.
PauseBucket(h, n) == {t \in Threads : h.on[t] # None /\ h.self[t] = n}

FreeThreads(h) == {t \in Threads : h.kind[t] = "free"}

\* AllocThread, with the reference its caller has taken on the parent.
NewThread(h, parent) ==
  LET t == Min(FreeThreads(h))
  IN  [AddRef(h, parent) EXCEPT !.kind[t] = "thread", !.refs[t] = 0,
                                !.self[t] = parent, !.name[t] = None]

(***************************************************************************)
(* Waiting: the bucket of the object and the bucket of the self object.    *)
(* A new entry goes to the head of its list.                               *)
(***************************************************************************)
StartWaiting(h, t, o, x) ==
  LET newKey == PauseBucket(h, h.self[t]) = {}
      held == AddRef(AddRef(AddRef(h, t), t), o)
      keyed == IF newKey THEN AddRef(held, h.self[t]) ELSE held
  IN  [keyed EXCEPT !.bucket[o][x] = <<t>> \o @, !.on[t] = o, !.name[t] = x]

LeaveBucket(h, t, o, x) ==
  LET c == Check(h, \E i \in DOMAIN h.bucket[o][x] : h.bucket[o][x][i] = t)
  IN  RemoveRef([c EXCEPT !.bucket[o][x] = SelectSeq(@, LAMBDA u : u # t)], t)

LeavePauseEntryMutant(h, t) ==
  RemoveRef([Check(h, h.on[t] # None) EXCEPT !.on[t] = None], t)

\* The entry in the pause bucket, with the reference to the object in it.
LeavePauseEntry(h, t) ==
  RemoveRef(RemoveRef([Check(h, h.on[t] # None) EXCEPT !.on[t] = None], t),
            h.on[t])

\* ... and the pause bucket itself when that was its last entry.
LeavePause(h, t) ==
  LET left == LeavePauseEntry(h, t)
      owner == h.self[t]
  IN  IF PauseBucket(left, owner) = {} THEN RemoveRef(left, owner) ELSE left

VM_CancelNotify(h, o, t) ==
  LeaveBucket([h EXCEPT !.name[t] = None], t, o, h.name[t])

(***************************************************************************)
(* Ending threads.                                                         *)
(***************************************************************************)
MarkDead(h, t) == [Check(h, h.kind[t] # "free") EXCEPT !.kind[t] = "dead"]

KillChild(c, h) ==
  RemoveRef(LeavePauseEntry(MarkDead(VM_CancelNotify(h, h.on[c], c), c), c),
            h.self[c])

KillThreadMutant(h, t) ==
  LET held == [RemoveRef(AddRef(h, t), h.self[t]) EXCEPT !.stack[t] = None]
      children == PauseBucket(held, t)
      alone == IF children = {} THEN held
               ELSE RemoveRef(FoldSet(KillChild, held, children), t)
  IN  RemoveRef(MarkDead(alone, t), t)

KillThread(h, t) ==
  LET held == [RemoveRef(AddRef(h, t), h.self[t]) EXCEPT !.stack[t] = None]
      children == PauseBucket(held, t)
      alone == IF children = {} THEN held
               ELSE RemoveRef(FoldSet(KillChild, held, children), t)
      gone == IF alone.name[t] = None THEN alone
              ELSE LeavePause(VM_CancelNotify(alone, alone.on[t], t), t)
  IN  RemoveRef(MarkDead(gone, t), t)

KillAndRelease(t, h) == RemoveRef(KillThread(h, t), t)

\* The innermost call first, the base of the stack last.
KillFrames(h, locals) == FoldRight(KillAndRelease, locals, h)

VM_TerminateStackInternal(h, t) ==
  LET frame == h.stack[t]
  IN  KillFrames(RemoveRef([h EXCEPT !.stack[t] = None], t), frame.locals)

LeaveTime(h, t, k) ==
  LET c == Check(h, \E i \in DOMAIN h.times[k] : h.times[k][i] = t)
  IN  RemoveRef([c EXCEPT !.times[k] = SelectSeq(@, LAMBDA u : u # t)], t)

VM_TerminateMutant(h, t) ==
  IF h.stack[t] = None \/ h.on[t] = None THEN h
  ELSE VM_TerminateStackInternal(
         LeavePause(AddRef(VM_CancelNotify(h, h.on[t], t), t), t), t)

VM_TerminateKeepsTimeMutant(h, t) ==
  IF h.stack[t] = None THEN h
  ELSE IF h.on[t] # None
  THEN VM_TerminateStackInternal(
         LeavePause(AddRef(VM_CancelNotify(h, h.on[t], t), t), t), t)
  ELSE VM_TerminateStackInternal(h, t)

\* Ends a suspended thread; a thread that is running has no stack and stays.
VM_Terminate(h, t) ==
  IF h.stack[t] = None THEN h
  ELSE IF h.on[t] # None
  THEN VM_TerminateStackInternal(
         LeavePause(AddRef(VM_CancelNotify(h, h.on[t], t), t), t), t)
  ELSE VM_TerminateStackInternal(
         LeaveTime(AddRef(h, t), t, h.stack[t].time), t)

(***************************************************************************)
(* VM_Notify walks the bucket from its newest entry.  An endon child ends  *)
(* its parent; a waiter goes to the list of the current time, unless it    *)
(* waits for other arguments (waittillmatch): those are in skip.  After    *)
(* every change the walk starts over.                                      *)
(***************************************************************************)
EndParent(h, o, x, c) ==
  LET parent == h.self[c]
      out == LeavePause(LeaveBucket(AddRef([h EXCEPT !.name[c] = None], c),
                                    c, o, x), c)
  IN  RemoveRef(VM_Terminate(RemoveRef(KillThread(AddRef(out, parent), c), c),
                             parent), parent)

WakeMutant(h, o, x, t) ==
  LET out == LeaveBucket([h EXCEPT !.stack[t].time = now,
                                   !.stack[t].match = FALSE], t, o, x)
  IN  LeavePause([AddRef(out, t) EXCEPT !.times[now] = <<t>> \o @], t)

Wake(h, o, x, t) ==
  LET out == LeaveBucket([h EXCEPT !.name[t] = None, !.stack[t].time = now,
                                   !.stack[t].match = FALSE], t, o, x)
  IN  LeavePause([AddRef(out, t) EXCEPT !.times[now] = <<t>> \o @], t)

RECURSIVE NotifyFrom(_, _, _, _, _)
NotifyFromMutant(h, o, x, i, skip) ==
  IF i > Len(h.bucket[o][x]) THEN h
  ELSE LET t == h.bucket[o][x][i]
       IN  IF h.stack[t] = None
           THEN NotifyFrom(EndParent(h, o, x, t), o, x, 1, skip)
           ELSE IF t \in skip THEN NotifyFrom(h, o, x, i + 1, skip)
           ELSE NotifyFrom(Wake(h, o, x, t), o, x, i + 1, skip)

NotifyFrom(h, o, x, i, skip) ==
  IF i > Len(h.bucket[o][x]) THEN h
  ELSE LET t == h.bucket[o][x][i]
       IN  IF h.stack[t] = None
           THEN NotifyFrom(EndParent(h, o, x, t), o, x, 1, skip)
           ELSE IF t \in skip THEN NotifyFrom(h, o, x, i + 1, skip)
           ELSE NotifyFrom(Wake(h, o, x, t), o, x, 1, skip)

\* Everything that waits on an object is ended when the object goes; of an
\* endon only the child, its parent lives on.
RECURSIVE StopAllWaiters(_, _)
StopAllWaiters(h, o) ==
  LET busy == {x \in Names : h.bucket[o][x] # <<>>}
  IN  IF busy = {} \/ h.wrong THEN h
      ELSE LET t == Head(h.bucket[o][CHOOSE x \in busy : TRUE])
               held == AddRef(h, t)
           IN  StopAllWaiters(
                 IF held.stack[t] # None THEN VM_TerminateStackInternal(held, t)
                 ELSE KillAndRelease(t, held), o)
-----------------------------------------------------------------------------
Top == Last(run)
Base == Head(Top)
Local == Last(Top)
Callers(locals) == SubSeq(locals, 1, Len(locals) - 1)

\* Script or engine code is running: not the loop of VM_Resume itself.
InCode == active /\ (run # <<>> \/ pump = "idle")
InScript == active /\ run # <<>>

\* Scr_GetEntityId for an entity that has no object yet; the class map holds it.
GetEntityId(o) ==
  /\ InCode /\ heap.kind[o] = "free"
  /\ heap' = [heap EXCEPT !.kind[o] = "entity", !.refs[o] = 0]
  /\ UNCHANGED <<run, time>>

\* VM_ExecuteThread, or the opcode "thread f()": the new thread runs at once,
\* above the one that started it.  "thread f()" passes on a self that may
\* have died.
ExecuteThread(o) ==
  /\ InCode /\ FreeThreads(heap) # {}
  /\ IsFieldObject(heap, o) \/ (run # <<>> /\ o = heap.self[Local])
  /\ heap' = NewThread(heap, o)
  /\ run' = Append(run, <<Min(FreeThreads(heap))>>)
  /\ UNCHANGED time

\* A script call: a thread of its own for the local variables.
CallFunction(o) ==
  /\ InScript /\ FreeThreads(heap) # {}
  /\ IsFieldObject(heap, o) \/ o = heap.self[Local]
  /\ heap' = NewThread(heap, o)
  /\ run' = [run EXCEPT ![Len(run)] = Append(@, Min(FreeThreads(heap)))]
  /\ UNCHANGED time

\* VM_ArchiveStack, and the reference the returning VM_Execute gives up.
Suspend(h, k, match) ==
  /\ heap' = RemoveRef([AddRef(h, Base) EXCEPT
               !.stack[Base] = [locals |-> Top, time |-> k, match |-> match]],
               Base)
  /\ run' = Front(run)
  /\ UNCHANGED time

Wait(d) ==
  /\ InScript
  /\ LET k == (now + d) % TimeKeys
     IN  Suspend([AddRef(heap, Base) EXCEPT !.times[k] = <<Base>> \o @], k, FALSE)

WaitTill(o, x, match) ==
  /\ InScript /\ IsFieldObject(heap, o)
  /\ Suspend(StartWaiting(heap, Base, o, x), 0, match)

EndOn(o, x) ==
  /\ InScript /\ IsFieldObject(heap, o) /\ FreeThreads(heap) # {}
  /\ heap' = LET c == Min(FreeThreads(heap))
             IN  RemoveRef(StartWaiting(NewThread(heap, Base), c, o, x), c)
  /\ UNCHANGED <<run, time>>

\* Those that wait for o to notify x with certain arguments.
Matching(o, x) == {t \in Threads : /\ heap.on[t] = o /\ heap.name[t] = x
                                  /\ heap.stack[t] # None
                                  /\ heap.stack[t].match}

Notify(o, x, skip) ==
  /\ InCode /\ IsFieldObject(heap, o)
  /\ heap' = NotifyFrom(heap, o, x, 1, skip)
  /\ UNCHANGED <<run, time>>

ReturnMutant ==
  /\ InScript
  /\ LET left == KillAndRelease(Local, heap)
         callers == Callers(Top)
     IN  IF callers # <<>> /\ IsFieldObject(heap, heap.self[Last(callers)])
         THEN heap' = left /\ run' = [run EXCEPT ![Len(run)] = callers]
         ELSE heap' = left /\ run' = Front(run)
  /\ UNCHANGED time

\* END or RETURN.  A caller whose self object has died is ended with all of
\* its own callers.
Return ==
  /\ InScript
  /\ LET left == KillAndRelease(Local, heap)
         callers == Callers(Top)
     IN  IF callers # <<>> /\ IsFieldObject(heap, heap.self[Last(callers)])
         THEN heap' = left /\ run' = [run EXCEPT ![Len(run)] = callers]
         ELSE heap' = KillFrames(left, callers) /\ run' = Front(run)
  /\ UNCHANGED time

\* The watchdog ends a thread that loops, with all of its callers.
KillLoopingThread ==
  /\ InScript
  /\ heap' = KillFrames(heap, Top)
  /\ run' = Front(run)
  /\ UNCHANGED time

Scr_FreeEntityNumMutant(o) ==
  /\ InCode /\ heap.kind[o] = "entity"
  /\ heap' = RemoveRef([heap EXCEPT !.kind[o] = "deadEntity"], o)
  /\ UNCHANGED <<run, time>>

\* The entity is freed by the engine or by a builtin a script has called.
Scr_FreeEntityNum(o) ==
  /\ InCode /\ heap.kind[o] = "entity"
  /\ heap' = LET dead == [heap EXCEPT !.kind[o] = "deadEntity"]
             IN  RemoveRef(RemoveRef(StopAllWaiters(AddRef(dead, o), o), o), o)
  /\ UNCHANGED <<run, time>>

(***************************************************************************)
(* The passing of time.                                                    *)
(***************************************************************************)
Idle == active /\ run = <<>> /\ pump = "idle"

Scr_RunCurrentThreads ==
  /\ Idle
  /\ pump' = "current"
  /\ UNCHANGED <<heap, run, now, until, active>>

\* Compared without regard to the wrap of the keys: a smaller time is set
\* at once and nothing runs.
Scr_SetTime(t) ==
  /\ Idle
  /\ IF t <= now THEN now' = t /\ UNCHANGED <<pump, until>>
                 ELSE pump' = "until" /\ until' = t /\ UNCHANGED now
  /\ UNCHANGED <<heap, run, active>>

Resuming == active /\ run = <<>> /\ pump # "idle"

\* VM_Resume takes the next thread of the list of this time.
ResumeThread ==
  /\ Resuming /\ heap.times[now] # <<>>
  /\ LET t == Head(heap.times[now])
         locals == heap.stack[t].locals
         out == [LeaveTime(heap, t, now) EXCEPT !.stack[t] = None]
     IN  IF IsFieldObject(heap, heap.self[Last(locals)])
         THEN heap' = out /\ run' = <<locals>>
         ELSE heap' = KillFrames(out, locals) /\ run' = <<>>
  /\ UNCHANGED time

NextTimeMutant ==
  /\ Resuming /\ heap.times[now] = <<>>
  /\ now' = IF pump = "until" THEN until ELSE now
  /\ pump' = IF pump = "until" /\ now' # until THEN "until" ELSE "idle"
  /\ until' = IF pump' = "idle" THEN 0 ELSE until
  /\ UNCHANGED <<heap, run, active>>

\* The list is empty: Scr_RunCurrentThreads ends, Scr_SetTime goes on with
\* the next millisecond.
NextTime ==
  /\ Resuming /\ heap.times[now] = <<>>
  /\ now' = IF pump = "until" THEN (now + 1) % TimeKeys ELSE now
  /\ pump' = IF pump = "until" /\ now' # until THEN "until" ELSE "idle"
  /\ until' = IF pump' = "idle" THEN 0 ELSE until
  /\ UNCHANGED <<heap, run, active>>

(***************************************************************************)
(* The end of a map and the start of the next.                             *)
(***************************************************************************)
TerminateTimes(h) ==
  LET End(t, g) == VM_TerminateStackInternal(LeaveTime(AddRef(g, t), t,
                                                       g.stack[t].time), t)
  IN  FoldSet(End, h, UNION {ToSet(h.times[k]) : k \in Keys})

RECURSIVE StopPaused(_)
StopPaused(h) ==
  LET waiting == {t \in Threads : h.on[t] # None}
  IN  IF waiting = {} \/ h.wrong THEN h
      ELSE LET o == h.on[CHOOSE t \in waiting : TRUE]
           IN  StopPaused(RemoveRef(StopAllWaiters(AddRef(h, o), o), o))

Scr_ShutdownSystemMutant ==
  /\ Idle
  /\ heap' = RemoveRef(TerminateTimes(heap), Level)
  /\ active' = FALSE
  /\ UNCHANGED <<run, now, pump, until>>

Scr_ShutdownSystem ==
  /\ Idle
  /\ heap' = RemoveRef(StopPaused(TerminateTimes(heap)), Level)
  /\ active' = FALSE
  /\ UNCHANGED <<run, now, pump, until>>

Scr_InitSystem(t) ==
  /\ ~active
  /\ heap' = [heap EXCEPT !.kind[Level] = "level", !.refs[Level] = 0]
  /\ now' = t /\ active' = TRUE
  /\ UNCHANGED <<run, pump, until>>
-----------------------------------------------------------------------------
Init ==
  /\ heap = [EmptyHeap EXCEPT !.kind[Level] = "level"]
  /\ run = <<>> /\ now = 0 /\ pump = "idle" /\ until = 0 /\ active = TRUE

Next ==
  \/ \E o \in Entities : GetEntityId(o) \/ Scr_FreeEntityNum(o)
  \/ \E o \in Objects : ExecuteThread(o) \/ CallFunction(o)
  \/ \E d \in Delays : Wait(d)
  \/ \E o \in Objects, x \in Names :
       \/ EndOn(o, x)
       \/ \E match \in BOOLEAN : WaitTill(o, x, match)
       \/ \E skip \in SUBSET Matching(o, x) : Notify(o, x, skip)
  \/ Return \/ KillLoopingThread
  \/ Scr_RunCurrentThreads \/ ResumeThread \/ NextTime
  \/ now + Frame <= Horizon /\ Scr_SetTime((now + Frame) % TimeKeys)
  \/ Scr_ShutdownSystem
  \/ Scr_InitSystem(0)

Spec == Init /\ [][Next]_vars
-----------------------------------------------------------------------------
(***************************************************************************)
(* Where the threads are.                                                  *)
(***************************************************************************)
Suspended == {t \in Threads : heap.stack[t] # None}
IsEndOn(t) == heap.kind[t] = "thread" /\ heap.on[t] # None
              /\ heap.stack[t] = None
CountIn(s, t) == Cardinality({i \in DOMAIN s : s[i] = t})

Frames == [locals : Seq(Threads), time : Keys, match : BOOLEAN]

\* Every variable has its type, and no free node is used and no entry missed.
TypeOK ==
  /\ heap.kind \in [Nodes -> {"free", "thread", "dead", "entity", "deadEntity",
                              "level"}]
  /\ heap.refs \in [Nodes -> Nat]
  /\ heap.self \in [Threads -> Nodes \cup {None}]
  /\ heap.name \in [Threads -> Names \cup {None}]
  /\ heap.on \in [Threads -> Objects \cup {None}]
  /\ \A t \in Threads : heap.stack[t] = None \/ heap.stack[t] \in Frames
  /\ heap.bucket \in [Objects -> [Names -> Seq(Threads)]]
  /\ heap.times \in [Keys -> Seq(Threads)]
  /\ run \in Seq(Seq(Threads) \ {<<>>})
  /\ now \in Keys /\ until \in Keys
  /\ pump \in {"idle", "current", "until"} /\ active \in BOOLEAN
  /\ heap.wrong = FALSE

HeldThread(n) ==
  Cardinality({u \in Suspended : n \in ToSet(heap.stack[u].locals)})
  + Cardinality({k \in Keys : n \in ToSet(heap.times[k])})
  + Cardinality({p \in Objects \X Names : n \in ToSet(heap.bucket[p[1]][p[2]])})
  + (IF heap.on[n] # None THEN 1 ELSE 0)
HeldObject(n) ==
  Cardinality({t \in Threads : heap.on[t] = n})
  + (IF heap.kind[n] \in {"entity", "level"} THEN 1 ELSE 0)
RefsTo(n) ==
  Cardinality({i \in DOMAIN run : n \in ToSet(run[i])})
  + (IF n \in Threads THEN HeldThread(n) ELSE HeldObject(n))
  + Cardinality({t \in Threads : heap.kind[t] = "thread" /\ heap.self[t] = n})
  + (IF PauseBucket(heap, n) # {} THEN 1 ELSE 0)

\* References are counted exactly: each node in use is referred to as often
\* as its count says.  So the AddRefToObject and RemoveRefToObject calls of
\* the handlers match on every path: nothing is freed while it is in use and
\* nothing stays behind (script_variable.c).
RefsExact ==
  \A n \in Nodes : IF heap.kind[n] = "free" THEN RefsTo(n) = 0
                   ELSE RefsTo(n) = heap.refs[n] + 1

\* A thread that waits hangs in the bucket of the object its pause entry
\* names, under its notify name, and in no other: VM_Notify, VM_CancelNotify
\* and KillThread follow each of the three to the others untested.
WaitsAgree ==
  \A t \in Threads :
    /\ heap.on[t] = None <=> heap.name[t] = None
    /\ \A o \in Objects, x \in Names :
         (heap.on[t] = o /\ heap.name[t] = x) <=> t \in ToSet(heap.bucket[o][x])

InStacks(t) == CountIn(FlattenSeq(run), t)
               + Cardinality({u \in Suspended : t \in ToSet(heap.stack[u].locals)})
Sleeps(t) == {k \in Keys : t \in ToSet(heap.times[k])}

\* A thread is in one place: it runs or is called in one stack, or it is in
\* one archived stack, or it is an endon child; and what is archived either
\* waits or sleeps.  VM_Resume takes a thread's stack without looking.
OnePlace ==
  \A t \in Threads :
    /\ InStacks(t) + (IF IsEndOn(t) THEN 1 ELSE 0)
         = IF heap.kind[t] = "thread" THEN 1 ELSE 0
    /\ IF t \notin Suspended THEN Sleeps(t) = {}
       ELSE /\ Head(heap.stack[t].locals) = t
            /\ Sleeps(t) = IF heap.on[t] = None THEN {heap.stack[t].time} ELSE {}

\* Nobody waits on an object that is gone (Scr_FreeEntityNum), for nothing
\* would wake or end it.
NoWaitOnTheDead ==
  \A t \in Threads : heap.on[t] # None => IsFieldObject(heap, heap.on[t])

\* Whoever sleeps or was notified is still to be resumed: Scr_SetTime passes
\* no list by.  (It does where the keys wrap, which Horizon leaves out.)
OnTime ==
  \A k \in Keys : heap.times[k] # <<>> => (k - now) % TimeKeys \in 0 .. Max(Delays)

\* Scr_ShutdownSystem leaves no thread, and no reference to level.
ShutdownReclaims ==
  ~active => \A n \in Threads \cup {Level} : heap.kind[n] = "free"

EndedBy(o, x) == {heap.self[c] : c \in {d \in ToSet(heap.bucket[o][x]) : IsEndOn(d)}}
                 \cap Suspended

\* A notification ends every suspended thread with an endon for it, also one
\* that waits for it and was put on the list of this time a moment before.
EndOnEnds ==
  [][\A o \in Objects, x \in Names :
       \A t \in EndedBy(o, x) :
         (\E skip \in SUBSET Matching(o, x) : Notify(o, x, skip))
            => heap'.kind[t] = "free"]_vars

\* VM_Notify, KillThread and VM_TerminateStackInternal find a waiting thread
\* where its entries say, in one place only, and never on a freed object.
ThreadsLinked == TypeOK /\ WaitsAgree /\ OnePlace /\ NoWaitOnTheDead

\* AddRefToObject and RemoveRefToObject balance over every life of a thread:
\* nothing in use is freed, and Scr_ShutdownSystem gets everything back.
RefsBalance == RefsExact /\ ShutdownReclaims
=============================================================================
