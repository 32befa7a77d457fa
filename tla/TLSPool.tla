------------------------------- MODULE TLSPool -------------------------------
(***************************************************************************)
(* The pools that nodes and packets come from (NetWorkLib/Buffer/TLSPool.h, *)
(* LFMemoryPool.h): each thread has a TMemoryPool of its own, two lists of   *)
(* free objects, and when both are full, or both empty, it exchanges a list *)
(* of NODECOUNT with the other threads over a lock-free stack.             *)
(*                                                                         *)
(* Objects are counted and not named: one that is handed out twice shows as *)
(* one too many.  The stack keeps its lists in cells, and its top is the    *)
(* address of a cell with the number of the push that put it there in its   *)
(* 17 upper bits.  The cells come from a stack of the same making           *)
(* (LFreeMemoryPool, and LMemoryPool is a third copy); here it is a set.     *)
(***************************************************************************)
EXTENDS Integers, FiniteSets

CONSTANTS
    Thread,     \* threads of the program
    Cell,       \* nodes of LFreeStack
    Null,       \* nullptr
    NODECOUNT,  \* objects in a list that goes over the stack
    MaxMade,    \* bound: objects made
    MaxPushes   \* bound: pushes on the stack

VARIABLES
    made,       \* objects made by new so far
    held,       \* objects that Alloc has handed out and nobody has deleted
    local,      \* local[t]: localPool of thread t
    top,        \* _top: a cell and the push that put it there
    list,       \* list[c]: the length of the list in cell c
    next,       \* next[c]: _next of the cell, with its number
    msize,      \* _msize of the stack
    spare,      \* cells in _LFMemoryPool
    pushes,     \* _count
    th          \* th[t]: where thread t is, and its localTop and nextNode

vars == <<made, held, local, top, list, next, msize, spare, pushes, th>>

-----------------------------------------------------------------------------
Nil == <<Null, 0>>
Empty == [msize |-> 0, top |-> 0, freeTop |-> 0]    \* lists by their length
Idle == [pc |-> "idle", cell |-> Null, top |-> Nil, next |-> Nil]

Init ==
    /\ made = 0 /\ held = 0
    /\ local = [t \in Thread |-> Empty]
    /\ top = Nil /\ next = [c \in Cell |-> Nil] /\ list = [c \in Cell |-> 0]
    /\ msize = 0 /\ spare = Cell /\ pushes = 0
    /\ th = [t \in Thread |-> Idle]

At(t, pc) == th[t].pc = pc
Goto(t, pc) == th' = [th EXCEPT ![t].pc = pc]

(* InterlockedCompareExchangePointer compares address and number.          *)
SameTop_NoCount(p, q) == p[1] = q[1]
SameTop(p, q) == p = q

-----------------------------------------------------------------------------
(* TMemoryPool::Delete: SwapList first if the list is full.                *)

Keep(t) == [local EXCEPT ![t].msize = @ + 1, ![t].top = @ + 1]

SwapList(t) ==
    [local EXCEPT ![t] = [msize |-> 1, top |-> 1, freeTop |-> local[t].top]]

(* The second list goes to the stack in a cell.                            *)
StartPush(t) ==
    /\ pushes < MaxPushes
    /\ pushes' = pushes + 1
    /\ \E c \in spare :
          /\ spare' = spare \ {c}
          /\ list' = [list EXCEPT ![c] = local[t].freeTop]
          /\ th' = [th EXCEPT ![t] = [Idle EXCEPT !.pc = "readpush", !.cell = c,
                                                 !.next = <<c, pushes'>>]]

Full_Late(t) == local[t].msize > NODECOUNT
Full(t) == local[t].msize >= NODECOUNT

Delete(t) ==
    /\ At(t, "idle") /\ held > 0
    /\ held' = held - 1
    /\ \/ ~Full(t) /\ local' = Keep(t)
       \/ Full(t) /\ local' = SwapList(t)
    /\ IF Full(t) /\ local[t].freeTop # 0
       THEN StartPush(t)
       ELSE UNCHANGED <<list, th, spare, pushes>>
    /\ UNCHANGED <<made, top, next, msize>>

(* A thread ends, and its pool with it; another one may start.             *)
EndThread(t) ==
    /\ At(t, "idle")
    /\ made' = made - local[t].top
    /\ local' = [local EXCEPT ![t] = Empty]
    /\ IF local[t].freeTop # 0
       THEN StartPush(t)
       ELSE UNCHANGED <<list, th, spare, pushes>>
    /\ UNCHANGED <<held, top, next, msize>>

(* LFreeStack::Delete                                                      *)
ReadForPush(t) ==
    /\ At(t, "readpush")
    /\ next' = [next EXCEPT ![th[t].cell] = top]
    /\ th' = [th EXCEPT ![t].top = top, ![t].pc = "push"]
    /\ UNCHANGED <<made, held, local, top, list, msize, spare, pushes>>

Push(t) ==
    /\ At(t, "push")
    /\ IF SameTop(top, th[t].top)
       THEN top' = th[t].next /\ Goto(t, "grow")
       ELSE UNCHANGED top /\ Goto(t, "readpush")
    /\ UNCHANGED <<made, held, local, next, list, msize, spare, pushes>>

Grow(t) ==
    /\ At(t, "grow")
    /\ msize' = msize + 1
    /\ th' = [th EXCEPT ![t] = Idle]
    /\ UNCHANGED <<made, held, local, top, list, next, spare, pushes>>

-----------------------------------------------------------------------------
(* TMemoryPool::Alloc: from the list, the other list, the stack, or new.    *)

Take(l) == [l EXCEPT !.msize = @ - 1, !.top = @ - 1]

Alloc(t) ==
    /\ At(t, "idle")
    /\ IF local[t].msize = 0 /\ local[t].freeTop = 0
       THEN Goto(t, "readsize") /\ UNCHANGED <<held, local>>
       ELSE /\ held' = held + 1
            /\ local' = [local EXCEPT ![t] =
                 Take(IF @.msize # 0 THEN @
                      ELSE [msize |-> NODECOUNT, top |-> @.freeTop, freeTop |-> 0])]
            /\ UNCHANGED th
    /\ UNCHANGED <<made, top, next, list, msize, spare, pushes>>

(* LFreeStack::Alloc: empty by its _msize, or by its top.                  *)
ReadSize(t) ==
    /\ At(t, "readsize")
    /\ Goto(t, IF msize = 0 THEN "new" ELSE "readtop")
    /\ UNCHANGED <<made, held, local, top, next, list, msize, spare, pushes>>

ReadTop(t) ==
    /\ At(t, "readtop")
    /\ th' = [th EXCEPT ![t].top = top,
                        ![t].pc = IF top = Nil THEN "new" ELSE "readnext"]
    /\ UNCHANGED <<made, held, local, top, next, list, msize, spare, pushes>>

(* The cell may be another thread's by now, and its _next anything.        *)
ReadNext(t) ==
    /\ At(t, "readnext")
    /\ th' = [th EXCEPT ![t].next = next[th[t].top[1]], ![t].pc = "pop"]
    /\ UNCHANGED <<made, held, local, top, next, list, msize, spare, pushes>>

Pop(t) ==
    /\ At(t, "pop")
    /\ IF SameTop(top, th[t].top)
       THEN top' = th[t].next /\ Goto(t, "shrink")
       ELSE UNCHANGED top /\ Goto(t, "readtop")
    /\ UNCHANGED <<made, held, local, next, list, msize, spare, pushes>>

(* The list is the thread's, and one of its objects goes out.              *)
Shrink(t) ==
    /\ At(t, "shrink")
    /\ msize' = msize - 1
    /\ spare' = spare \cup {th[t].top[1]}
    /\ local' = [local EXCEPT ![t] =
                   Take([msize |-> NODECOUNT, top |-> list[th[t].top[1]], freeTop |-> 0])]
    /\ held' = held + 1
    /\ th' = [th EXCEPT ![t] = Idle]
    /\ UNCHANGED <<made, top, list, next, pushes>>

New(t) ==
    /\ At(t, "new")
    /\ made < MaxMade
    /\ made' = made + 1 /\ held' = held + 1
    /\ th' = [th EXCEPT ![t] = Idle]
    /\ UNCHANGED <<local, top, list, next, msize, spare, pushes>>

-----------------------------------------------------------------------------
Step(t) ==
    \/ ReadForPush(t) \/ Push(t) \/ Grow(t)
    \/ ReadSize(t) \/ ReadTop(t) \/ ReadNext(t) \/ Pop(t) \/ Shrink(t) \/ New(t)

Next == \E t \in Thread : Alloc(t) \/ Delete(t) \/ EndThread(t) \/ Step(t)

Spec == Init /\ [][Next]_vars

-----------------------------------------------------------------------------
(* Every variable has its type. *)
TypeOK ==
    /\ {made, held} \subseteq 0 .. MaxMade
    /\ local \in [Thread -> [msize : 0 .. NODECOUNT, top : 0 .. NODECOUNT,
                             freeTop : 0 .. NODECOUNT]]
    /\ top \in (Cell \cup {Null}) \X (0 .. MaxPushes)
    /\ list \in [Cell -> 0 .. NODECOUNT]
    /\ msize \in Int /\ spare \subseteq Cell /\ pushes \in 0 .. MaxPushes

(* The cells on the stack, and those on their way to it or from it.        *)
Stacked ==
    LET at[k \in 0 .. Cardinality(Cell)] ==
          IF k = 0 THEN top[1]
          ELSE IF at[k - 1] = Null THEN Null ELSE next[at[k - 1]][1]
    IN  {at[k] : k \in DOMAIN at} \ {Null}

Pushed == {th[t].cell : t \in {u \in Thread : th[u].pc \in {"readpush", "push"}}}
Popped == {<<t, th[t].top[1]>> : t \in {u \in Thread : At(u, "shrink")}}

(* Every object made is handed out, in one thread's lists or in one list of *)
(* the stack, and in one of these only: no exchange, however the pushes and *)
(* pops of the threads interleave, hands out what is still in use or loses  *)
(* a list.  And a list has as many objects as _msize says, NODECOUNT if it  *)
(* comes from the stack.                                                   *)
OwnedOnce ==
    LET InPool(t) == local[t].top + local[t].freeTop
        inPools[S \in SUBSET Thread] ==
          IF S = {} THEN 0
          ELSE LET t == CHOOSE t \in S : TRUE IN InPool(t) + inPools[S \ {t}]
        lists == Cardinality(Stacked) + Cardinality(Pushed) + Cardinality(Popped)
    IN  /\ made = held + inPools[Thread] + NODECOUNT * lists
        /\ Stacked \cap spare = {}
        /\ \A c \in Stacked \cup Pushed : list[c] = NODECOUNT
        /\ \A t \in Thread : local[t].msize = local[t].top

=============================================================================
