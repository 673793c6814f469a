----------------------------- MODULE AllocCache -----------------------------
(***************************************************************************)
(* ALLOC_CACHE_HANDLER of IISLib/acache.cxx over PER_CPU of                *)
(* IISLib/percpu.h: freed blocks of one size wait for their next use in    *)
(* lists, one per processor, of interlocked singly linked entries.  The    *)
(* first word behind the link of a waiting block carries a signature.  A   *)
(* thread may be moved to another processor between any two steps, so the  *)
(* list it works on is any of them.                                        *)
(***************************************************************************)
EXTENDS Naturals, FiniteSets, Sequences

CONSTANTS
    Threads,
    Cpus,
    Blocks,     \* the blocks of m_cbSize bytes the heap can hand out
    nThreshold, \* the argument of Initialize
    MaxDepth,   \* what QueryDepthSList can return, 0xffff in the code
    Null

VARIABLES
    m_nThreshold,
    lists,      \* lists[c] : the entries of a processor's list, the top first
    heap,       \* the blocks that are free in the heap
    signed,     \* the blocks whose signature word is FREE_SIGNATURE
    users,      \* the blocks in the hands of the callers
    pc, block,  \* block[t] : pMemory of the call t is in
    list        \* list[t] : the processor whose list t has chosen

vars == <<m_nThreshold, lists, heap, signed, users, pc, block, list>>

\* Initialize: under page heap or the verifier (IsPageheapEnabled) nothing is
\* cached.
Init ==
    /\ \E IsPageheapEnabled \in BOOLEAN :
        m_nThreshold = IF IsPageheapEnabled THEN 0
                       ELSE IF nThreshold > MaxDepth THEN MaxDepth ELSE nThreshold
    /\ lists = [c \in Cpus |-> <<>>]
    /\ heap = Blocks /\ signed = {} /\ users = {}
    /\ pc = [t \in Threads |-> "idle"]
    /\ block = [t \in Threads |-> Null] /\ list = [t \in Threads |-> Null]

Goto(t, l) == pc' = [pc EXCEPT ![t] = l]
Holds(t, b) == block' = [block EXCEPT ![t] = b]
GetLocal(t) == \E c \in Cpus : list' = [list EXCEPT ![t] = c]

Alloc(t) ==
    /\ pc[t] = "idle"
    /\ IF m_nThreshold > 0 THEN GetLocal(t) /\ Goto(t, "pop")
       ELSE Goto(t, "heap") /\ UNCHANGED list
    /\ UNCHANGED <<m_nThreshold, lists, heap, signed, users, block>>

\* InterlockedPopEntrySList
Pop(t) ==
    LET l == lists[list[t]] IN
    /\ pc[t] = "pop"
    /\ IF l = <<>> THEN Goto(t, "heap") /\ UNCHANGED <<lists, block>>
       ELSE /\ Holds(t, Head(l)) /\ lists' = [lists EXCEPT ![list[t]] = Tail(l)]
            /\ Goto(t, "clear")
    /\ UNCHANGED <<m_nThreshold, heap, signed, users, list>>

\* HeapAlloc, which may fail; the memory holds what was there before.
HeapAlloc(t) ==
    /\ pc[t] = "heap"
    /\ \/ \E b \in heap : Holds(t, b) /\ heap' = heap \ {b} /\ Goto(t, "clear")
       \/ Goto(t, "idle") /\ UNCHANGED <<heap, block>>
    /\ UNCHANGED <<m_nThreshold, lists, signed, users, list>>

\* Mutant: the signature of a block handed out stays.
ClearSignature_Not(t) ==
    /\ pc[t] = "clear" /\ Goto(t, "idle")
    /\ users' = users \cup {block[t]} /\ Holds(t, Null)
    /\ UNCHANGED <<m_nThreshold, lists, heap, signed, list>>

\* The signature is cleared and the block given to the caller.
ClearSignature(t) ==
    /\ pc[t] = "clear" /\ Goto(t, "idle")
    /\ signed' = signed \ {block[t]}
    /\ users' = users \cup {block[t]} /\ Holds(t, Null)
    /\ UNCHANGED <<m_nThreshold, lists, heap, list>>

\* Any thread may free a block, whoever allocated it; it is filled and signed.
Free(t, b) ==
    /\ pc[t] = "idle" /\ b \in users
    /\ users' = users \ {b} /\ Holds(t, b) /\ signed' = signed \cup {b}
    /\ GetLocal(t) /\ Goto(t, "depth")
    /\ UNCHANGED <<m_nThreshold, lists, heap>>

\* QueryDepthSList, 16 bits wide.
Depth(c) == Len(lists[c]) % (MaxDepth + 1)

\* Mutant: a list that is full takes one more.
QueryDepth_OneMore(t) ==
    /\ pc[t] = "depth"
    /\ Goto(t, IF Depth(list[t]) > m_nThreshold THEN "heapfree" ELSE "push")
    /\ UNCHANGED <<m_nThreshold, lists, heap, signed, users, block, list>>

QueryDepth(t) ==
    /\ pc[t] = "depth"
    /\ Goto(t, IF Depth(list[t]) >= m_nThreshold THEN "heapfree" ELSE "push")
    /\ UNCHANGED <<m_nThreshold, lists, heap, signed, users, block, list>>

HeapFree(t) ==
    /\ pc[t] = "heapfree" /\ Goto(t, "idle") /\ Holds(t, Null)
    /\ heap' = heap \cup {block[t]}
    /\ UNCHANGED <<m_nThreshold, lists, signed, users, list>>

\* InterlockedPushEntrySList
Push(t) ==
    /\ pc[t] = "push" /\ Goto(t, "idle") /\ Holds(t, Null)
    /\ lists' = [lists EXCEPT ![list[t]] = <<block[t]>> \o @]
    /\ UNCHANGED <<m_nThreshold, heap, signed, users, list>>

\* The destructor, once nobody calls any more: CleanupLookaside empties every
\* list into the heap.
CleanupLookaside ==
    /\ \A t \in Threads : pc[t] = "idle"
    /\ heap' = heap \cup UNION {{lists[c][i] : i \in 1 .. Len(lists[c])} : c \in Cpus}
    /\ lists' = [c \in Cpus |-> <<>>]
    /\ UNCHANGED <<m_nThreshold, signed, users, pc, block, list>>

Next ==
    \/ \E t \in Threads :
        \/ Alloc(t) \/ Pop(t) \/ HeapAlloc(t) \/ ClearSignature(t)
        \/ QueryDepth(t) \/ HeapFree(t) \/ Push(t)
        \/ \E b \in Blocks : Free(t, b)
    \/ CleanupLookaside

Spec == Init /\ [][Next]_vars

-----------------------------------------------------------------------------
(* Properties                                                              *)

Waiting(c) == {lists[c][i] : i \in 1 .. Len(lists[c])}

SignatureTells ==
    /\ \A c \in Cpus : Waiting(c) \subseteq signed
    /\ users \cap signed = {}

InOnePlace ==
    /\ \A c, d \in Cpus : \A i \in 1 .. Len(lists[c]), j \in 1 .. Len(lists[d]) :
        lists[c][i] = lists[d][j] => c = d /\ i = j
    /\ \A c \in Cpus : Waiting(c) \cap (users \cup heap) = {}
    /\ users \cap heap = {}
    /\ \A t \in Threads : block[t] # Null =>
        /\ block[t] \notin users \cup heap
        /\ \A c \in Cpus : block[t] \notin Waiting(c)
        /\ \A u \in Threads : block[u] = block[t] => u = t

DepthBound ==
    \A c \in Cpus :
        m_nThreshold > 0 =>
            Len(lists[c]) + Cardinality({t \in Threads : pc[t] = "push" /\ list[t] = c})
                <= m_nThreshold + Cardinality(Threads) - 1

\* The signature tells a freed block from one in use, as the assertions of
\* Alloc and Free expect ("to check against double deletions", acache.cxx:274),
\* though heap memory comes back with whatever it held; a block is in one
\* place only: in one list once, with one caller or one call, or in the heap;
\* and a list stays short: the depth is read before the push, so threads may
\* together pass the threshold, but by less than one entry each.
CacheIsSound == SignatureTells /\ InOnePlace /\ DepthBound
=============================================================================
