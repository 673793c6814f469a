------------------------------ MODULE TraceLog ------------------------------
(***************************************************************************)
(* The trace log of IISLib/tracelog.c, a ring of entries written without a *)
(* lock, as the reference traces of IISLib/reftrace.c use it: the handlers *)
(* log every change of a reference count from whatever thread makes it.    *)
(* Sizes and the counter of entries are integers of Width bits.            *)
(***************************************************************************)
EXTENDS Integers, FiniteSets

CONSTANTS
    Threads,
    Width,      \* bits of a ULONG
    HeaderSize, \* sizeof(TRACE_LOG)
    Sizes,      \* the arguments LogSize, ExtraBytesInHeader, EntrySize of a creation
    MaxWrites,  \* bound: writes to one log
    Null

VARIABLES
    log,        \* the TRACE_LOG, or Null
    memory,     \* memory[i] : which write a byte of the log comes from, 0 for none
    NextEntry,
    writes,     \* the writes begun, in the order of their increments
    pc, index, number, copied   \* a write: its slot, its place in that order,
                                \* the bytes it has copied

vars == <<log, memory, NextEntry, writes, pc, index, number, copied>>

ULongRange == 2 ^ Width

Init ==
    /\ log = Null /\ memory = [i \in {} |-> 0] /\ NextEntry = ULongRange - 1 /\ writes = 0
    /\ pc = [t \in Threads |-> "idle"] /\ index = [t \in Threads |-> 0]
    /\ number = index /\ copied = index

\* ULongMult and ULongAdd: the result or, where it needs more bits, Null.
Fits(n) == IF n < ULongRange THEN n ELSE Null
ULongMult(a, b) == IF a = Null \/ b = Null THEN Null ELSE Fits(a * b)

\* Mutant: the sum is not checked.
ULongAdd_Wraps(a, b) == IF a = Null \/ b = Null THEN Null ELSE (a + b) % ULongRange

ULongAdd(a, b) == IF a = Null \/ b = Null THEN Null ELSE Fits(a + b)

\* The size is computed with checks for overflow and may not pass a LONG;
\* what is left of the memory is zero.
CreateTraceLog(LogSize, ExtraBytesInHeader, EntrySize) ==
    LET total == ULongAdd(ULongAdd(HeaderSize, ExtraBytesInHeader),
                          ULongMult(LogSize, EntrySize))
    IN
    /\ log = Null /\ total # Null /\ total < ULongRange \div 2
    /\ log' = [LogSize |-> LogSize, EntrySize |-> EntrySize,
               LogBuffer |-> HeaderSize + ExtraBytesInHeader]
    /\ memory' = [i \in 0 .. total - 1 |-> 0]
    /\ NextEntry' = ULongRange - 1 /\ writes' = 0
    /\ UNCHANGED <<pc, index, number, copied>>

Quiet == \A t \in Threads : pc[t] = "idle"

\* At the module's end, when nothing is referenced any more.
DestroyTraceLog ==
    /\ log # Null /\ Quiet
    /\ log' = Null /\ memory' = [i \in {} |-> 0]
    /\ UNCHANGED <<NextEntry, writes, pc, index, number, copied>>

\* WriteRefTraceLogEx builds its entry on the writer's stack; the slot is
\* claimed by the interlocked increment,
WriteTraceLog(t) ==
    /\ log # Null /\ pc[t] = "idle" /\ writes < MaxWrites
    /\ NextEntry' = (NextEntry + 1) % ULongRange
    /\ writes' = writes + 1
    /\ index' = [index EXCEPT ![t] = NextEntry' % log.LogSize]
    /\ number' = [number EXCEPT ![t] = writes']
    /\ copied' = [copied EXCEPT ![t] = 0] /\ pc' = [pc EXCEPT ![t] = "copy"]
    /\ UNCHANGED <<log, memory>>

\* and filled byte by byte.
Target(t) == log.LogBuffer + index[t] * log.EntrySize
CopyByte(t) ==
    /\ pc[t] = "copy"
    /\ memory' = [i \in DOMAIN memory |->
                    IF i = Target(t) + copied[t] THEN number[t] ELSE memory[i]]
    /\ copied' = [copied EXCEPT ![t] = @ + 1]
    /\ pc' = [pc EXCEPT ![t] = IF copied'[t] = log.EntrySize THEN "idle" ELSE "copy"]
    /\ UNCHANGED <<log, NextEntry, writes, index, number>>

Next ==
    \/ \E s \in Sizes : CreateTraceLog(s[1], s[2], s[3])
    \/ DestroyTraceLog
    \/ \E t \in Threads : WriteTraceLog(t) \/ CopyByte(t)

Spec == Init /\ [][Next]_vars

-----------------------------------------------------------------------------
(* Properties                                                              *)

Slot(i) == log.LogBuffer + i * log.EntrySize .. log.LogBuffer + (i + 1) * log.EntrySize - 1

\* Whatever sizes the log was made with, a write touches only bytes of the
\* log behind its header.  Two writes meet in a slot only if the ring was
\* filled once between them, and so a slot nobody is writing holds one entry
\* whole or the pieces of entries at least a lap apart (tracelog.c:202).  The
\* counter does not wrap within MaxWrites; when it does, the module's 10000
\* entries do not divide 2^32 and that one lap is shorter.
EntriesStayApart ==
    log # Null =>
        /\ \A t \in Threads : pc[t] = "copy" =>
            /\ index[t] < log.LogSize /\ Slot(index[t]) \subseteq DOMAIN memory
            /\ \A u \in Threads \ {t} :
                pc[u] = "copy" /\ index[u] = index[t]
                    => number[t] - number[u] >= log.LogSize
                       \/ number[u] - number[t] >= log.LogSize
        /\ \A i \in 0 .. log.LogSize - 1 : \A a, b \in Slot(i) \cap DOMAIN memory :
            /\ \A t \in Threads : ~(pc[t] = "copy" /\ index[t] = i)
            /\ memory[a] > memory[b]
            => memory[a] - memory[b] >= log.LogSize
=============================================================================
