------------------------ MODULE WebSocketHandler_proofs ------------------------
(***************************************************************************)
(* Theorems about WebSocketHandler, for any number of worker threads.      *)
(***************************************************************************)
EXTENDS WebSocketHandler, FiniteSetTheorems, SequenceTheorems, TLAPS

\* Who is inside the critical section, or holds it further down a stack.
Holding == {"call", "leave", "leaveFailed", "close"}

WorkerLabels == InHandler \cup {"idle", "last", "completion"}

StarterLabels == {"start", "call", "leave", "leaveFailed", "started", "failure",
                  "leaving", "leavingFailed", "done", "doneFailed"}

Control ==
    /\ pc \in [Threads -> WorkerLabels \cup StarterLabels]
    /\ pc[Starter] \in StarterLabels
    /\ \A w \in Workers : pc[w] \in WorkerLabels
    /\ op \in [Workers -> Ops \cup {None}] /\ call \in [Threads -> Ops \cup {None}]
    /\ \A t \in Threads : pc[t] = "call" => call[t] \in Ops
    /\ \A w \in Workers : pc[w] = "enter" => op[w] \in Ops
    /\ pc[Starter] = "call" => call[Starter] \in {"IisReceive", "WinHttpReceive"}

Memory ==
    /\ outstanding \in Int /\ pending \in [Ops -> Nat]
    /\ fCleanup \in BOOLEAN /\ fIndicate = fCleanup
    /\ hSocket \in {"uninit", "open", "null"} /\ ioCancelled \in BOOLEAN
    /\ hRequest \in BOOLEAN /\ status \in {"websocket", "done"}
    /\ refs \in Int /\ indicated \in Nat
    /\ answer \in {"none", "finish", "continue", "destroyed"}
    /\ result \in [Workers -> {"ok", "failed"}]

Locking == lock \in Seq(Threads) /\ parent \in [Workers -> Threads \cup {None}]

Types == Control /\ Memory /\ Locking

\* _RequestLock is held once per thread, each time from inside the thread
\* that entered it before, which waits.
Stack ==
    /\ \A t \in Threads : pc[t] \in Holding <=> \E i \in 1..Len(lock) : lock[i] = t
    /\ \A i \in 1..Len(lock), j \in 1..Len(lock) : lock[i] = lock[j] => i = j
    /\ \A i \in 1..(Len(lock) - 1) : lock[i+1] \in Workers /\ parent[lock[i+1]] = lock[i]
    /\ \A w \in Workers : parent[w] # None =>
           pc[parent[w]] \in {"leave", "close"} /\ pc[w] # "idle"

\* Before ProcessRequest nothing has happened.
Untouched == pc[Starter] = "start" =>
    /\ outstanding = 0 /\ indicated = 0 /\ status = "websocket" /\ fCleanup = FALSE
    /\ \A o \in Ops : pending[o] = 0
    /\ \A w \in Workers : pc[w] = "idle"

\* The count, and what is left of it after a failed start, when a callback
\* may be lost: never less than what runs.
Counted ==
    /\ PendingIo + Cardinality(Active) + Cardinality(Issuing) <= outstanding
    /\ OutstandingIsExact

\* One thread finds the count zero, and the count stays zero.
Last == ~StartFailed =>
    /\ status = "done" => indicated = 1
    /\ indicated <= 1
    /\ indicated = 1 => outstanding = 0 /\ fIndicate
    /\ \A w \in Workers : pc[w] = "last" =>
        /\ outstanding = 0 /\ indicated = 0
        /\ \A v \in Workers : pc[v] = "last" => v = w

\* Until a cleanup, the loop from the backend to the client has an operation
\* in flight, a handler at work on the next, or a failure about to clean up.
Reading == pc[Starter] \in {"leave", "started", "leaving", "done"} =>
    \/ fCleanup
    \/ pending["WinHttpReceive"] > 0 \/ pending["IisSend"] > 0
    \/ \E w \in Workers :
        \/ pc[w] = "enter" /\ op[w] \in ServerLoop
        \/ pc[w] = "call" /\ call[w] \in ServerLoop
        \/ pc[w] \in {"leaveFailed", "cleanup"}

\* The second loop does not begin before its first receive is issued.
Loops ==
    /\ OneStepPerLoop
    /\ pc[Starter] = "call" /\ call[Starter] = "IisReceive" =>
           InFlight(ServerLoop) + pending["WinHttpReceive"] + pending["IisSend"] = 0

\* The websocket handle: opened before the first operation, closed by Cleanup.
Handle ==
    /\ UsesOpenHandle
    /\ hSocket = "null" => fCleanup
    /\ hSocket = "uninit" =>
        /\ \A o \in Ops : pending[o] = 0
        /\ \A w \in Workers : pc[w] = "idle"
    /\ pc[Starter] = "call" => hSocket = "open"
    /\ \A w \in Workers : pc[w] = "close" => fCleanup

IInv == Types /\ Stack /\ Untouched /\ Counted /\ Last /\ Reading /\ Loops /\ Handle

-----------------------------------------------------------------------------
(* The four completion handlers are one kind of step, the three ways a     *)
(* completion is delivered another.                                        *)

Follows(o, next) ==
    \/ o = "IisReceive" /\ next \in {"WinHttpSend", "WinHttpShutdown"}
    \/ o = "WinHttpSend" /\ next = "IisReceive"
    \/ o = "WinHttpReceive" /\ next = "IisSend"
    \/ o = "IisSend" /\ next = "WinHttpReceive"

HandlerStep(w) ==
    /\ Runs(w) /\ pc[w] = "enter" /\ CanEnter(w) /\ EnterLock(w)
    /\ \/ /\ ~fCleanup /\ IncrementOutstandingIo /\ Goto(w, "call")
          /\ \E o \in Ops : Follows(op[w], o) /\ call' = [call EXCEPT ![w] = o]
       \/ fCleanup /\ Goto(w, "leave") /\ UNCHANGED <<outstanding, call>>
       \/ Goto(w, "leaveFailed") /\ UNCHANGED <<outstanding, call>>
    /\ UNCHANGED <<parent, pending, sockVars, fwdVars, indicated, op, result>>

DeliverStep(w, o, p) ==
    /\ pending[o] > 0 /\ pc[w] = "idle"
    /\ p # None => Runs(p) /\ pc[p] \in {"leave", "close"}
    /\ pending' = [pending EXCEPT ![o] = @ - 1]
    /\ op' = [op EXCEPT ![w] = o]
    /\ \E res \in {"ok", "failed"} : result' = [result EXCEPT ![w] = res]
    /\ parent' = [parent EXCEPT ![w] = p]
    /\ Goto(w, "enter") \/ Goto(w, "cleanup") \/ (o = "WinHttpShutdown" /\ Goto(w, "decrement"))
    /\ UNCHANGED <<lock, outstanding, sockVars, fwdVars, indicated, call>>

\* A handler does one of three things inside the lock.
LEMMA HandlerSteps ==
    ASSUME NEW w \in Workers,
           OnWinHttpSendComplete(w) \/ OnWinHttpReceiveComplete(w)
               \/ OnIisSendComplete(w) \/ OnIisReceiveComplete(w)
    PROVE  HandlerStep(w)
<1> USE DEF HandlerStep, Handles, Body, Skip, Fail, Issue, Follows, Ops, IisOps,
    WinHttpOps, DoIisWebSocketReceive, DoWinHttpWebSocketReceive,
    DoIisWebSocketSend, DoWinHttpWebSocketSend
<1>1. CASE OnWinHttpSendComplete(w)
  BY <1>1 DEF OnWinHttpSendComplete
<1>2. CASE OnWinHttpReceiveComplete(w)
  BY <1>2 DEF OnWinHttpReceiveComplete
<1>3. CASE OnIisSendComplete(w)
  BY <1>3 DEF OnIisSendComplete
<1>4. CASE OnIisReceiveComplete(w)
  BY <1>4 DEF OnIisReceiveComplete
<1> QED
  BY <1>1, <1>2, <1>3, <1>4

\* However a completion is delivered, an idle worker takes it.
LEMMA DeliverSteps ==
    ASSUME NEW w \in Workers, NEW o \in Ops,
           \/ DeliverIis(w, o) \/ DeliverWinHttp(w, o)
           \/ \E t \in Threads : DeliverInline(w, o, t)
    PROVE  \E p \in Threads \cup {None} : DeliverStep(w, o, p)
<1> USE DEF DeliverStep, Activate, Route
<1>1. CASE DeliverIis(w, o)
  <2> DeliverStep(w, o, None)
    BY <1>1 DEF DeliverIis
  <2> QED  OBVIOUS
<1>2. CASE DeliverWinHttp(w, o)
  <2> DeliverStep(w, o, None)
    BY <1>2 DEF DeliverWinHttp
  <2> QED  OBVIOUS
<1>3. ASSUME NEW t \in Threads, DeliverInline(w, o, t)
      PROVE  DeliverStep(w, o, t)
  BY <1>3 DEF DeliverInline
<1> QED
  BY <1>1, <1>2, <1>3

\* Every step is one of these.
LEMMA NextSteps ==
    ASSUME [Next]_vars
    PROVE  \/ \E w \in Workers : HandlerStep(w)
           \/ \E w \in Workers, o \in Ops, p \in Threads \cup {None} : DeliverStep(w, o, p)
           \/ \E w \in Workers :
                  \/ Call(w) \/ Leave(w) \/ CleanupBegin(w) \/ CleanupEnd(w)
                  \/ DecrementOutstandingIo(w) \/ IndicateCompletionToIIS(w)
                  \/ OnAsyncCompletionDone(w)
           \/ \E o \in Ops : Misroute(o)
           \/ ProcessRequest \/ ProcessRequestCall \/ ProcessRequestLeave
           \/ OnAsyncCompletionStarted \/ OnAsyncCompletionFailure
           \/ OnAsyncCompletionReturn \/ DestroyModule
           \/ UNCHANGED vars
BY HandlerSteps, DeliverSteps DEF Next, StarterStep, WorkerStep, Completes

\* One step keeps every thread at a label, with the operation it needs there.
LEMMA NextControl ==
    ASSUME WebSocketHandlerAssumption, Control, [Next]_vars
    PROVE  Control'
<1> USE DEF WebSocketHandlerAssumption, Control, Threads, Ops, IisOps, WinHttpOps,
    WorkerLabels, StarterLabels, InHandler, Goto, Retire, lockVars, ioVars, sockVars,
    fwdVars, actVars
<1>1. ASSUME NEW w \in Workers, HandlerStep(w)
     PROVE  Control'
  BY <1>1 DEF HandlerStep, EnterLock, IncrementOutstandingIo
<1>2. ASSUME NEW w \in Workers, NEW o \in Ops,
             NEW p \in Threads \cup {None}, DeliverStep(w, o, p)
     PROVE  Control'
  BY <1>2 DEF DeliverStep
<1>3. ASSUME NEW w \in Workers, Call(w)
     PROVE  Control'
  BY <1>3 DEF Call, CallSucceeds, CallFails
<1>4. ASSUME NEW w \in Workers, Leave(w)
     PROVE  Control'
  BY <1>4 DEF Leave, LeaveLock
<1>5. ASSUME NEW w \in Workers, CleanupBegin(w)
     PROVE  Control'
  BY <1>5 DEF CleanupBegin, EnterLock
<1>6. ASSUME NEW w \in Workers, CleanupEnd(w)
     PROVE  Control'
  BY <1>6 DEF CleanupEnd, LeaveLock
<1>7. ASSUME NEW w \in Workers, DecrementOutstandingIo(w)
     PROVE  Control'
  BY <1>7 DEF DecrementOutstandingIo
<1>8. ASSUME NEW w \in Workers, IndicateCompletionToIIS(w)
     PROVE  Control'
  BY <1>8 DEF IndicateCompletionToIIS
<1>9. ASSUME NEW w \in Workers, OnAsyncCompletionDone(w)
     PROVE  Control'
  BY <1>9 DEF OnAsyncCompletionDone
<1>10. ASSUME NEW o \in Ops, Misroute(o)
     PROVE  Control'
  BY <1>10 DEF Misroute
<1>11. ASSUME ProcessRequest  PROVE Control'
  <2>1. CASE Fail(Starter)
    BY <1>11, <2>1 DEF ProcessRequest, EnterLock, Fail
  <2>2. CASE DoIisWebSocketReceive(Starter)
    BY <1>11, <2>2 DEF ProcessRequest, EnterLock, Issue, IncrementOutstandingIo,
        DoIisWebSocketReceive
  <2> QED
    BY <1>11, <2>1, <2>2 DEF ProcessRequest
<1>12. ASSUME ProcessRequestCall  PROVE Control'
  BY <1>12 DEF ProcessRequestCall, CallSucceeds, CallFails, Issue,
      IncrementOutstandingIo, DoWinHttpWebSocketReceive
<1>13. ASSUME ProcessRequestLeave  PROVE Control'
  BY <1>13 DEF ProcessRequestLeave, LeaveLock
<1>14. ASSUME OnAsyncCompletionStarted  PROVE Control'
  BY <1>14 DEF OnAsyncCompletionStarted
<1>15. ASSUME OnAsyncCompletionFailure  PROVE Control'
  BY <1>15 DEF OnAsyncCompletionFailure
<1>16. ASSUME OnAsyncCompletionReturn  PROVE Control'
  BY <1>16 DEF OnAsyncCompletionReturn
<1>17. ASSUME DestroyModule  PROVE Control'
  BY <1>17 DEF DestroyModule
<1>18. CASE UNCHANGED vars
  BY <1>18 DEF vars, lockVars, ioVars, sockVars, fwdVars, actVars
<1> QED
  BY <1>1, <1>2, <1>3, <1>4, <1>5, <1>6, <1>7, <1>8, <1>9,
     <1>10, <1>11, <1>12, <1>13, <1>14, <1>15, <1>16, <1>17, <1>18, NextSteps

\* One step keeps the types of the shared state.
LEMMA NextMemory ==
    ASSUME WebSocketHandlerAssumption, Control, Memory, [Next]_vars
    PROVE  Memory'
<1> USE DEF Control, Memory, Threads, Goto, Retire, lockVars, ioVars, sockVars,
    fwdVars, actVars
<1>1. ASSUME NEW w \in Workers, HandlerStep(w)
     PROVE  Memory'
  BY <1>1 DEF HandlerStep, EnterLock, IncrementOutstandingIo
<1>2. ASSUME NEW w \in Workers, NEW o \in Ops,
             NEW p \in Threads \cup {None}, DeliverStep(w, o, p)
     PROVE  Memory'
  BY <1>2 DEF DeliverStep
<1>3. ASSUME NEW w \in Workers, Call(w)
     PROVE  Memory'
  BY <1>3 DEF Call, CallSucceeds, CallFails
<1>4. ASSUME NEW w \in Workers, Leave(w)
     PROVE  Memory'
  BY <1>4 DEF Leave, LeaveLock
<1>5. ASSUME NEW w \in Workers, CleanupBegin(w)
     PROVE  Memory'
  BY <1>5 DEF CleanupBegin, EnterLock
<1>6. ASSUME NEW w \in Workers, CleanupEnd(w)
     PROVE  Memory'
  BY <1>6 DEF CleanupEnd, LeaveLock
<1>7. ASSUME NEW w \in Workers, DecrementOutstandingIo(w)
     PROVE  Memory'
  BY <1>7 DEF DecrementOutstandingIo
<1>8. ASSUME NEW w \in Workers, IndicateCompletionToIIS(w)
     PROVE  Memory'
  BY <1>8 DEF IndicateCompletionToIIS
<1>9. ASSUME NEW w \in Workers, OnAsyncCompletionDone(w)
     PROVE  Memory'
  BY <1>9 DEF OnAsyncCompletionDone
<1>10. ASSUME NEW o \in Ops, Misroute(o)
     PROVE  Memory'
  BY <1>10 DEF Misroute
<1>11. ASSUME ProcessRequest  PROVE Memory'
  BY <1>11 DEF ProcessRequest, EnterLock, Issue, Fail, IncrementOutstandingIo,
      DoIisWebSocketReceive
<1>12. ASSUME ProcessRequestCall  PROVE Memory'
  BY <1>12 DEF ProcessRequestCall, CallSucceeds, CallFails, Issue,
      IncrementOutstandingIo, DoWinHttpWebSocketReceive
<1>13. ASSUME ProcessRequestLeave  PROVE Memory'
  BY <1>13 DEF ProcessRequestLeave, LeaveLock
<1>14. ASSUME OnAsyncCompletionStarted  PROVE Memory'
  BY <1>14 DEF OnAsyncCompletionStarted
<1>15. ASSUME OnAsyncCompletionFailure  PROVE Memory'
  BY <1>15 DEF OnAsyncCompletionFailure
<1>16. ASSUME OnAsyncCompletionReturn  PROVE Memory'
  BY <1>16 DEF OnAsyncCompletionReturn
<1>17. ASSUME DestroyModule  PROVE Memory'
  BY <1>17 DEF DestroyModule
<1>18. CASE UNCHANGED vars
  BY <1>18 DEF vars, lockVars, ioVars, sockVars, fwdVars, actVars
<1> QED
  BY <1>1, <1>2, <1>3, <1>4, <1>5, <1>6, <1>7, <1>8, <1>9,
     <1>10, <1>11, <1>12, <1>13, <1>14, <1>15, <1>16, <1>17, <1>18, NextSteps

\* Entering and leaving the lock keep it a sequence of threads.
LEMMA LockSteps ==
    ASSUME Locking
    PROVE  /\ \A t \in Threads : Append(lock, t) \in Seq(Threads)
           /\ SubSeq(lock, 1, Len(lock) - 1) \in Seq(Threads)
BY AppendProperties, SubSeqProperties, LenProperties DEF Locking

\* One step keeps the types of the lock and of the parents.
LEMMA NextLocking ==
    ASSUME WebSocketHandlerAssumption, Locking, [Next]_vars
    PROVE  Locking'
<1> USE DEF Locking, Threads, Goto, Retire, lockVars, ioVars, sockVars, fwdVars, actVars
<1>1. ASSUME NEW w \in Workers, HandlerStep(w)
     PROVE  Locking'
  BY <1>1, LockSteps DEF HandlerStep, EnterLock, IncrementOutstandingIo
<1>2. ASSUME NEW w \in Workers, NEW o \in Ops,
             NEW p \in Threads \cup {None}, DeliverStep(w, o, p)
     PROVE  Locking'
  BY <1>2 DEF DeliverStep
<1>3. ASSUME NEW w \in Workers, Call(w)
     PROVE  Locking'
  BY <1>3 DEF Call, CallSucceeds, CallFails
<1>4. ASSUME NEW w \in Workers, Leave(w)
     PROVE  Locking'
  BY <1>4, LockSteps DEF Leave, LeaveLock
<1>5. ASSUME NEW w \in Workers, CleanupBegin(w)
     PROVE  Locking'
  BY <1>5, LockSteps DEF CleanupBegin, EnterLock
<1>6. ASSUME NEW w \in Workers, CleanupEnd(w)
     PROVE  Locking'
  BY <1>6, LockSteps DEF CleanupEnd, LeaveLock
<1>7. ASSUME NEW w \in Workers, DecrementOutstandingIo(w)
     PROVE  Locking'
  BY <1>7 DEF DecrementOutstandingIo
<1>8. ASSUME NEW w \in Workers, IndicateCompletionToIIS(w)
     PROVE  Locking'
  BY <1>8 DEF IndicateCompletionToIIS
<1>9. ASSUME NEW w \in Workers, OnAsyncCompletionDone(w)
     PROVE  Locking'
  BY <1>9 DEF OnAsyncCompletionDone
<1>10. ASSUME NEW o \in Ops, Misroute(o)
     PROVE  Locking'
  BY <1>10 DEF Misroute
<1>11. ASSUME ProcessRequest  PROVE Locking'
  BY <1>11, LockSteps DEF ProcessRequest, EnterLock, Issue, Fail,
      IncrementOutstandingIo, DoIisWebSocketReceive
<1>12. ASSUME ProcessRequestCall  PROVE Locking'
  BY <1>12, LockSteps DEF ProcessRequestCall, CallSucceeds, CallFails, Issue,
      IncrementOutstandingIo, DoWinHttpWebSocketReceive
<1>13. ASSUME ProcessRequestLeave  PROVE Locking'
  BY <1>13, LockSteps DEF ProcessRequestLeave, LeaveLock
<1>14. ASSUME OnAsyncCompletionStarted  PROVE Locking'
  BY <1>14 DEF OnAsyncCompletionStarted
<1>15. ASSUME OnAsyncCompletionFailure  PROVE Locking'
  BY <1>15 DEF OnAsyncCompletionFailure
<1>16. ASSUME OnAsyncCompletionReturn  PROVE Locking'
  BY <1>16 DEF OnAsyncCompletionReturn
<1>17. ASSUME DestroyModule  PROVE Locking'
  BY <1>17 DEF DestroyModule
<1>18. CASE UNCHANGED vars
  BY <1>18 DEF vars, lockVars, ioVars, sockVars, fwdVars, actVars
<1> QED
  BY <1>1, <1>2, <1>3, <1>4, <1>5, <1>6, <1>7, <1>8, <1>9,
     <1>10, <1>11, <1>12, <1>13, <1>14, <1>15, <1>16, <1>17, <1>18, NextSteps

\* The critical section is entered on top of the thread waited for ...
LEMMA Push ==
    ASSUME Control, Locking, Stack, NEW t \in Threads, pc[t] \notin Holding,
           CanEnter(t), EnterLock(t), NEW l \in Holding, Goto(t, l), UNCHANGED parent
    PROVE  Stack'
<1> DEFINE n == Len(lock)
<1>1. /\ n \in Nat /\ Len(lock') = n + 1 /\ lock'[n+1] = t
      /\ \A i \in 1..n : lock'[i] = lock[i] /\ lock[i] \in Threads
      /\ \A i \in 1..(n+1) : i \in 1..n \/ i = n + 1
  BY AppendProperties, LenProperties, ElementOfSeq DEF EnterLock, Locking
<1>2. \A i \in 1..n : lock[i] # t
  BY DEF Stack
<1>3. pc'[t] \in Holding /\ \A u \in Threads \ {t} : pc'[u] = pc[u]
  BY DEF Goto, Control
<1>4. \A w \in Workers : parent[w] # t \/ parent[w] = None
  BY DEF Stack, Holding
<1>5. ASSUME NEW u \in Threads
      PROVE  pc'[u] \in Holding <=> \E i \in 1..Len(lock') : lock'[i] = u
  <2>1. CASE u = t
    BY <1>1, <1>3, <2>1
  <2>2. CASE u # t
    <3>1. pc'[u] \in Holding <=> \E i \in 1..n : lock[i] = u
      BY <1>3, <2>2 DEF Stack
    <3>2. (\E i \in 1..n : lock[i] = u) <=> \E i \in 1..(n+1) : lock'[i] = u
      BY <1>1, <2>2
    <3> QED
      BY <1>1, <3>1, <3>2
  <2> QED
    BY <2>1, <2>2
<1>6. ASSUME NEW i \in 1..Len(lock'), NEW j \in 1..Len(lock'), lock'[i] = lock'[j]
      PROVE  i = j
  BY <1>1, <1>2, <1>6 DEF Stack
<1>7. ASSUME NEW i \in 1..(Len(lock') - 1)
      PROVE  lock'[i+1] \in Workers /\ parent'[lock'[i+1]] = lock'[i]
  <2>1. i \in 1..n
    BY <1>1
  <2>2. CASE i = n
    <3>1. lock # <<>>
      BY <2>1
    <3>2. t \in Workers /\ lock[n] = parent[t]
      BY <3>1 DEF CanEnter
    <3> QED
      BY <1>1, <2>1, <2>2, <3>2
  <2>3. CASE i # n
    <3>1. i \in 1..(n-1) /\ i + 1 \in 1..n
      BY <1>1, <2>1, <2>3
    <3> QED
      BY <1>1, <2>1, <3>1 DEF Stack
  <2> QED
    BY <2>2, <2>3
<1>8. ASSUME NEW w \in Workers, parent'[w] # None
      PROVE  pc'[parent'[w]] \in {"leave", "close"} /\ pc'[w] # "idle"
  <2>1. parent[w] \in Threads /\ parent[w] # t
    BY <1>4, <1>8 DEF Locking
  <2>2. pc'[w] # "idle"
    BY <1>3, <1>8 DEF Stack, Holding, Threads
  <2> QED
    BY <1>3, <1>8, <2>1, <2>2 DEF Stack
<1> QED
  BY <1>5, <1>6, <1>7, <1>8 DEF Stack

\* A thread that runs and is inside entered last.
LEMMA RunsOnTop ==
    ASSUME Locking, Stack, NEW t \in Threads, Runs(t), pc[t] \in Holding
    PROVE  /\ Len(lock) \in Nat \ {0} /\ lock[Len(lock)] = t
           /\ \A u \in Threads : Runs(u) /\ pc[u] \in Holding => u = t
<1>1. Len(lock) \in Nat
  BY LenProperties DEF Locking
<1>2. ASSUME NEW u \in Threads, Runs(u), pc[u] \in Holding
      PROVE  Len(lock) # 0 /\ lock[Len(lock)] = u
  <2>1. PICK i \in 1..Len(lock) : lock[i] = u
    BY <1>2 DEF Stack
  <2>2. CASE i < Len(lock)
    <3>1. i \in 1..(Len(lock) - 1)
      BY <1>1, <2>1, <2>2
    <3> QED
      BY <1>2, <2>1, <3>1 DEF Stack, Runs
  <2> QED
    BY <1>1, <2>1, <2>2
<1> QED
  BY <1>1, <1>2

\* ... and left by the thread that entered last.
LEMMA Pop ==
    ASSUME Control, Locking, Stack, NEW t \in Threads, pc[t] \in Holding, Runs(t),
           LeaveLock, NEW l, l \notin Holding, l # "idle", Goto(t, l), UNCHANGED parent
    PROVE  Stack'
<1> DEFINE n == Len(lock)
<1>1. n \in Nat \ {0} /\ lock[n] = t
  BY RunsOnTop
<1>2. /\ Len(lock') = n - 1
      /\ \A i \in 1..(n-1) : lock'[i] = lock[i] /\ i \in 1..n
  <2>1. \A i \in 1..(n-1) : lock[i] \in Threads /\ i \in 1..n
    BY <1>1, ElementOfSeq DEF Locking
  <2>2. n - 1 \in Int /\ 1 \in Int
    BY <1>1
  <2> HIDE DEF n
  <2>3. /\ Len(SubSeq(lock, 1, n-1)) = IF 1 <= n-1 THEN (n-1) - 1 + 1 ELSE 0
        /\ \A i \in 1..((n-1) - 1 + 1) : SubSeq(lock, 1, n-1)[i] = lock[1 + i - 1]
    BY <2>1, <2>2, SubSeqProperties
  <2>4. n \in Nat \ {0} /\ lock' = SubSeq(lock, 1, n-1)
    BY <1>1 DEF n, LeaveLock
  <2>5. Len(lock') = n - 1
    BY <2>3, <2>4
  <2> QED
    BY <2>1, <2>3, <2>4, <2>5
<1>3. pc'[t] \notin Holding /\ pc'[t] # "idle" /\ \A u \in Threads \ {t} : pc'[u] = pc[u]
  BY DEF Goto, Control
<1>4. \A w \in Workers : parent[w] # t
  BY DEF Runs
<1>5. \A i \in 1..n : lock[i] = t <=> i = n
  BY <1>1 DEF Stack
<1>6. ASSUME NEW u \in Threads
      PROVE  pc'[u] \in Holding <=> \E i \in 1..Len(lock') : lock'[i] = u
  <2>1. CASE u = t
    BY <1>1, <1>2, <1>3, <1>5, <2>1
  <2>2. CASE u # t
    <3>1. pc'[u] \in Holding <=> \E i \in 1..n : lock[i] = u
      BY <1>3, <2>2 DEF Stack
    <3>2. (\E i \in 1..n : lock[i] = u) <=> \E i \in 1..(n-1) : lock[i] = u
      BY <1>1, <2>2
    <3> QED
      BY <1>2, <3>1, <3>2
  <2> QED
    BY <2>1, <2>2
<1>7. ASSUME NEW i \in 1..Len(lock'), NEW j \in 1..Len(lock'), lock'[i] = lock'[j]
      PROVE  i = j
  BY <1>2, <1>7 DEF Stack
<1>8. ASSUME NEW i \in 1..(Len(lock') - 1)
      PROVE  lock'[i+1] \in Workers /\ parent'[lock'[i+1]] = lock'[i]
  <2>1. i \in 1..(n-1) /\ i + 1 \in 1..(n-1)
    BY <1>1, <1>2
  <2> QED
    BY <1>2, <2>1 DEF Stack
<1>9. ASSUME NEW w \in Workers, parent'[w] # None
      PROVE  pc'[parent'[w]] \in {"leave", "close"} /\ pc'[w] # "idle"
  <2>1. parent[w] \in Threads /\ parent[w] # t
    BY <1>4, <1>9 DEF Locking
  <2>2. pc'[w] # "idle"
    BY <1>3, <1>9 DEF Stack, Threads
  <2> QED
    BY <1>3, <1>9, <2>1, <2>2 DEF Stack
<1> QED
  BY <1>6, <1>7, <1>8, <1>9 DEF Stack

\* A step of a thread that enters or leaves nothing, and is not waiting for
\* another; it may have just begun or ended its activation.
LEMMA Stay ==
    ASSUME Control, Locking, Stack, NEW t \in Threads, NEW l, Goto(t, l),
        UNCHANGED lock,
           pc[t] \in Holding <=> l \in Holding,
           l # "idle" \/ parent' = [parent EXCEPT ![t] = None],
           pc[t] \notin {"leave", "close"},
           \/ UNCHANGED parent
           \/ t \in Workers /\ pc[t] \notin Holding /\ parent' = [parent EXCEPT ![t] = None]
           \/ /\ t \in Workers /\ pc[t] = "idle"
              /\ \E p \in Threads : /\ pc[p] \in {"leave", "close"}
                                    /\ parent' = [parent EXCEPT ![t] = p]
    PROVE  Stack'
<1>1. pc'[t] = l /\ \A u \in Threads \ {t} : pc'[u] = pc[u]
  BY DEF Goto, Control
<1>2. \A u \in Threads : pc'[u] \in Holding <=> pc[u] \in Holding
  BY <1>1
<1>3. ASSUME NEW w \in Workers
      PROVE  /\ pc[w] \in Holding => parent'[w] = parent[w]
             /\ parent'[w] # None =>
                  /\ parent'[w] = parent[w] \/ (w = t /\ parent'[w] \in Threads
                                                  /\ pc[parent'[w]] \in {"leave", "close"})
  BY DEF Locking, Threads, Holding
<1>4. ASSUME NEW i \in 1..(Len(lock') - 1)
      PROVE  lock'[i+1] \in Workers /\ parent'[lock'[i+1]] = lock'[i]
  <2>1. i + 1 \in 1..Len(lock) /\ lock[i+1] \in Workers /\ parent[lock[i+1]] = lock[i]
    BY LenProperties DEF Stack, Locking
  <2>2. pc[lock[i+1]] \in Holding
    BY <2>1 DEF Stack, Threads
  <2> QED
    BY <1>3, <2>1, <2>2
<1>5. ASSUME NEW w \in Workers, parent'[w] # None
      PROVE  pc'[parent'[w]] \in {"leave", "close"} /\ pc'[w] # "idle"
  <2>1. parent'[w] \in Threads /\ pc[parent'[w]] \in {"leave", "close"}
    BY <1>3, <1>5 DEF Stack, Locking
  <2>2. parent'[w] # t
    BY <2>1
  <2>3. CASE w = t
    BY <1>1, <1>5, <2>1, <2>2, <2>3 DEF Locking
  <2>4. CASE w # t
    BY <1>1, <1>3, <1>5, <2>1, <2>2, <2>4 DEF Stack, Threads
  <2> QED
    BY <2>3, <2>4
<1> QED
  <2>1. \A u \in Threads : pc'[u] \in Holding <=> \E i \in 1..Len(lock') : lock'[i] = u
    BY <1>2 DEF Stack
  <2> QED
    BY <1>4, <1>5, <2>1 DEF Stack

\* The lock is taken and left in nested pairs, action by action.
LEMMA NextStack ==
    ASSUME WebSocketHandlerAssumption, Control, Locking, Stack, [Next]_vars
    PROVE  Stack'
<1>1. ASSUME NEW w \in Workers, HandlerStep(w)
     PROVE  Stack'
  <2>1. PICK l \in {"call", "leave", "leaveFailed"} : Goto(w, l)
    BY <1>1 DEF HandlerStep, EnterLock, IncrementOutstandingIo
  <2> QED
    BY <1>1, <2>1, Push DEF Threads, HandlerStep, Holding, lockVars, ioVars, sockVars,
        fwdVars, actVars
<1>2. ASSUME NEW w \in Workers, NEW o \in Ops,
             NEW p \in Threads \cup {None}, DeliverStep(w, o, p)
     PROVE  Stack'
  <2>1. PICK l \in {"enter", "cleanup", "decrement"} : Goto(w, l)
    BY <1>2 DEF DeliverStep
  <2>2. UNCHANGED lock /\ pc[w] = "idle" /\ parent' = [parent EXCEPT ![w] = p]
    BY <1>2 DEF DeliverStep
  <2>3. p # None => p \in Threads /\ pc[p] \in {"leave", "close"}
    BY <1>2 DEF DeliverStep
  <2>4. pc[w] \notin Holding /\ l \notin Holding /\ l # "idle" /\ pc[w] \notin {"leave", "close"}
    BY <2>1, <2>2 DEF Holding
  <2> QED
    BY <2>1, <2>2, <2>3, <2>4, Stay DEF Threads
<1>3. ASSUME NEW w \in Workers, Call(w)
     PROVE  Stack'
  <2>1. PICK l \in {"leave", "leaveFailed"} :
         Goto(w, l) /\ (l # "idle" \/ parent' = [parent EXCEPT ![w] = None])
    BY <1>3 DEF Call, CallSucceeds, CallFails
  <2>2. UNCHANGED lock /\ (UNCHANGED parent)
    BY <1>3 DEF Call, CallSucceeds, CallFails, lockVars, ioVars, sockVars, fwdVars,
        actVars
  <2>3. (pc[w] \in Holding <=> l \in Holding) /\ pc[w] \notin {"leave", "close"}
    BY <1>3, <2>1 DEF Call, Holding
  <2> QED
    BY <1>3, <2>1, <2>2, <2>3, Stay DEF Holding, Threads
<1>4. ASSUME NEW w \in Workers, Leave(w)
     PROVE  Stack'
  <2>1. PICK l \in {"decrement", "cleanup"} : Goto(w, l)
    BY <1>4 DEF Leave
  <2>2. pc[w] \in Holding /\ l \notin Holding /\ l # "idle"
    BY <1>4, <2>1 DEF Leave, Holding
  <2> QED
    BY <1>4, <2>1, <2>2, Pop DEF Threads, Leave, Holding, lockVars, ioVars, sockVars,
        fwdVars, actVars
<1>5. ASSUME NEW w \in Workers, CleanupBegin(w)
     PROVE  Stack'
  <2>1. CASE fCleanup
    <3>1. Goto(w, "decrement") /\ UNCHANGED <<lock, parent>> /\ pc[w] = "cleanup"
      BY <1>5, <2>1 DEF CleanupBegin
    <3> QED
      BY <3>1, Stay DEF Holding, Threads
  <2>2. CASE ~fCleanup
    <3>1. Goto(w, "close") /\ EnterLock(w) /\ CanEnter(w) /\ UNCHANGED parent /\ pc[w] = "cleanup"
      BY <1>5, <2>2 DEF CleanupBegin
    <3> QED
      BY <3>1, Push DEF Holding, Threads
  <2> QED
    BY <2>1, <2>2
<1>6. ASSUME NEW w \in Workers, CleanupEnd(w)
     PROVE  Stack'
  <2>1. PICK l \in {"decrement"} : Goto(w, l)
    BY <1>6 DEF CleanupEnd
  <2>2. pc[w] \in Holding /\ l \notin Holding /\ l # "idle"
    BY <1>6, <2>1 DEF CleanupEnd, Holding
  <2> QED
    BY <1>6, <2>1, <2>2, Pop DEF Threads, CleanupEnd, Holding, lockVars, ioVars,
        sockVars, fwdVars, actVars
<1>7. ASSUME NEW w \in Workers, DecrementOutstandingIo(w)
     PROVE  Stack'
  <2>1. PICK l \in {"last", "idle"} :
         Goto(w, l) /\ (l # "idle" \/ parent' = [parent EXCEPT ![w] = None])
    BY <1>7 DEF DecrementOutstandingIo, Retire
  <2>2. UNCHANGED lock
       /\ (UNCHANGED parent \/ (pc[w] \notin Holding /\ parent' = [parent EXCEPT ![w] = None]))
    BY <1>7 DEF DecrementOutstandingIo, Retire, Holding, lockVars, ioVars, sockVars,
        fwdVars, actVars
  <2>3. (pc[w] \in Holding <=> l \in Holding) /\ pc[w] \notin {"leave", "close"}
    BY <1>7, <2>1 DEF DecrementOutstandingIo, Holding
  <2> QED
    BY <1>7, <2>1, <2>2, <2>3, Stay DEF Holding, Threads
<1>8. ASSUME NEW w \in Workers, IndicateCompletionToIIS(w)
     PROVE  Stack'
  <2>1. PICK l \in {"completion", "idle"} :
         Goto(w, l) /\ (l # "idle" \/ parent' = [parent EXCEPT ![w] = None])
    BY <1>8 DEF IndicateCompletionToIIS, Retire
  <2>2. UNCHANGED lock
       /\ (UNCHANGED parent \/ (pc[w] \notin Holding /\ parent' = [parent EXCEPT ![w] = None]))
    BY <1>8 DEF IndicateCompletionToIIS, Retire, Holding, lockVars, ioVars, sockVars,
        fwdVars, actVars
  <2>3. (pc[w] \in Holding <=> l \in Holding) /\ pc[w] \notin {"leave", "close"}
    BY <1>8, <2>1 DEF IndicateCompletionToIIS, Holding
  <2> QED
    BY <1>8, <2>1, <2>2, <2>3, Stay DEF Holding, Threads
<1>9. ASSUME NEW w \in Workers, OnAsyncCompletionDone(w)
     PROVE  Stack'
  <2>1. PICK l \in {"idle"} :
         Goto(w, l) /\ (l # "idle" \/ parent' = [parent EXCEPT ![w] = None])
    BY <1>9 DEF OnAsyncCompletionDone, Retire
  <2>2. UNCHANGED lock
       /\ (UNCHANGED parent \/ (pc[w] \notin Holding /\ parent' = [parent EXCEPT ![w] = None]))
    BY <1>9 DEF OnAsyncCompletionDone, Retire, Holding, lockVars, ioVars, sockVars,
        fwdVars, actVars
  <2>3. (pc[w] \in Holding <=> l \in Holding) /\ pc[w] \notin {"leave", "close"}
    BY <1>9, <2>1 DEF OnAsyncCompletionDone, Holding
  <2> QED
    BY <1>9, <2>1, <2>2, <2>3, Stay DEF Holding, Threads
<1>10. ASSUME NEW o \in Ops, Misroute(o)
     PROVE  Stack'
  BY <1>10 DEF Misroute, Stack, lockVars
<1>11. ASSUME ProcessRequest  PROVE Stack'
  <2>1. PICK l \in {"call", "leaveFailed"} : Goto(Starter, l)
    BY <1>11 DEF ProcessRequest, EnterLock, Issue, Fail, IncrementOutstandingIo,
        DoIisWebSocketReceive
  <2> QED
    BY <1>11, <2>1, Push DEF Threads, ProcessRequest, Holding, lockVars, ioVars,
        sockVars, fwdVars, actVars
<1>12. ASSUME ProcessRequestCall  PROVE Stack'
  <2>1. PICK l \in {"call", "leave", "leaveFailed"} :
         Goto(Starter, l) /\ (l # "idle" \/ parent' = [parent EXCEPT ![Starter] = None])
    BY <1>12 DEF ProcessRequestCall, CallSucceeds, CallFails, Issue,
        IncrementOutstandingIo, DoWinHttpWebSocketReceive
  <2>2. UNCHANGED lock /\ (UNCHANGED parent)
    BY <1>12 DEF ProcessRequestCall, CallSucceeds, CallFails, Issue,
        IncrementOutstandingIo, DoWinHttpWebSocketReceive, lockVars, ioVars, sockVars,
        fwdVars, actVars
  <2>3. (pc[Starter] \in Holding <=> l \in Holding) /\ pc[Starter] \notin {"leave", "close"}
    BY <1>12, <2>1 DEF ProcessRequestCall, Holding
  <2> QED
    BY <1>12, <2>1, <2>2, <2>3, Stay DEF Holding, Threads
<1>13. ASSUME ProcessRequestLeave  PROVE Stack'
  <2>1. PICK l \in {"started", "failure"} : Goto(Starter, l)
    BY <1>13 DEF ProcessRequestLeave
  <2>2. pc[Starter] \in Holding /\ l \notin Holding /\ l # "idle"
    BY <1>13, <2>1 DEF ProcessRequestLeave, Holding
  <2> QED
    BY <1>13, <2>1, <2>2, Pop DEF Threads, ProcessRequestLeave, Holding, lockVars,
        ioVars, sockVars, fwdVars, actVars
<1>14. ASSUME OnAsyncCompletionStarted  PROVE Stack'
  <2>1. PICK l \in {"leaving"} :
         Goto(Starter, l) /\ (l # "idle" \/ parent' = [parent EXCEPT ![Starter] = None])
    BY <1>14 DEF OnAsyncCompletionStarted
  <2>2. UNCHANGED lock /\ (UNCHANGED parent)
    BY <1>14 DEF OnAsyncCompletionStarted, lockVars, ioVars, sockVars, fwdVars, actVars
  <2>3. (pc[Starter] \in Holding <=> l \in Holding) /\ pc[Starter] \notin {"leave", "close"}
    BY <1>14, <2>1 DEF OnAsyncCompletionStarted, Holding
  <2> QED
    BY <1>14, <2>1, <2>2, <2>3, Stay DEF Holding, Threads
<1>15. ASSUME OnAsyncCompletionFailure  PROVE Stack'
  <2>1. PICK l \in {"leavingFailed"} :
         Goto(Starter, l) /\ (l # "idle" \/ parent' = [parent EXCEPT ![Starter] = None])
    BY <1>15 DEF OnAsyncCompletionFailure
  <2>2. UNCHANGED lock /\ (UNCHANGED parent)
    BY <1>15 DEF OnAsyncCompletionFailure, lockVars, ioVars, sockVars, fwdVars, actVars
  <2>3. (pc[Starter] \in Holding <=> l \in Holding) /\ pc[Starter] \notin {"leave", "close"}
    BY <1>15, <2>1 DEF OnAsyncCompletionFailure, Holding
  <2> QED
    BY <1>15, <2>1, <2>2, <2>3, Stay DEF Holding, Threads
<1>16. ASSUME OnAsyncCompletionReturn  PROVE Stack'
  <2>1. PICK l \in {"done", "doneFailed"} :
         Goto(Starter, l) /\ (l # "idle" \/ parent' = [parent EXCEPT ![Starter] = None])
    BY <1>16 DEF OnAsyncCompletionReturn
  <2>2. UNCHANGED lock /\ (UNCHANGED parent)
    BY <1>16 DEF OnAsyncCompletionReturn, lockVars, ioVars, sockVars, fwdVars, actVars
  <2>3. (pc[Starter] \in Holding <=> l \in Holding) /\ pc[Starter] \notin {"leave", "close"}
    BY <1>16, <2>1 DEF OnAsyncCompletionReturn, Holding
  <2> QED
    BY <1>16, <2>1, <2>2, <2>3, Stay DEF Holding, Threads
<1>17. ASSUME DestroyModule  PROVE Stack'
  BY <1>17 DEF DestroyModule, Stack, lockVars
<1>18. CASE UNCHANGED vars
  BY <1>18 DEF vars, Stack, lockVars
<1> QED
  BY <1>1, <1>2, <1>3, <1>4, <1>5, <1>6, <1>7, <1>8, <1>9,
     <1>10, <1>11, <1>12, <1>13, <1>14, <1>15, <1>16, <1>17, <1>18, NextSteps

\* Before ProcessRequest no worker has anything to do.
LEMMA NextUntouched ==
    ASSUME WebSocketHandlerAssumption, Control, Untouched, [Next]_vars
    PROVE  Untouched'
<1> USE DEF WebSocketHandlerAssumption, Control, Untouched, Threads, Goto, Retire,
    lockVars, ioVars, sockVars, fwdVars, actVars
<1>1. ASSUME NEW w \in Workers, HandlerStep(w)
     PROVE  Untouched'
  BY <1>1 DEF HandlerStep
<1>2. ASSUME NEW w \in Workers, NEW o \in Ops,
             NEW p \in Threads \cup {None}, DeliverStep(w, o, p)
     PROVE  Untouched'
  BY <1>2 DEF DeliverStep
<1>3. ASSUME NEW w \in Workers, Call(w)
     PROVE  Untouched'
  BY <1>3 DEF Call, CallSucceeds, CallFails
<1>4. ASSUME NEW w \in Workers, Leave(w)
     PROVE  Untouched'
  BY <1>4 DEF Leave
<1>5. ASSUME NEW w \in Workers, CleanupBegin(w)
     PROVE  Untouched'
  BY <1>5 DEF CleanupBegin
<1>6. ASSUME NEW w \in Workers, CleanupEnd(w)
     PROVE  Untouched'
  BY <1>6 DEF CleanupEnd
<1>7. ASSUME NEW w \in Workers, DecrementOutstandingIo(w)
     PROVE  Untouched'
  BY <1>7 DEF DecrementOutstandingIo
<1>8. ASSUME NEW w \in Workers, IndicateCompletionToIIS(w)
     PROVE  Untouched'
  BY <1>8 DEF IndicateCompletionToIIS
<1>9. ASSUME NEW w \in Workers, OnAsyncCompletionDone(w)
     PROVE  Untouched'
  BY <1>9 DEF OnAsyncCompletionDone
<1>10. ASSUME NEW o \in Ops, Misroute(o)
     PROVE  Untouched'
  BY <1>10 DEF Misroute
<1>11. ASSUME ProcessRequest  PROVE Untouched'
  <2>1. PICK l \in {"call", "leaveFailed"} : Goto(Starter, l)
    BY <1>11 DEF ProcessRequest, Issue, Fail, DoIisWebSocketReceive
  <2> QED
    BY <2>1
<1>12. ASSUME ProcessRequestCall  PROVE Untouched'
  BY <1>12 DEF ProcessRequestCall, CallSucceeds, CallFails, Issue,
      IncrementOutstandingIo, DoWinHttpWebSocketReceive
<1>13. ASSUME ProcessRequestLeave  PROVE Untouched'
  BY <1>13 DEF ProcessRequestLeave
<1>14. ASSUME OnAsyncCompletionStarted  PROVE Untouched'
  BY <1>14 DEF OnAsyncCompletionStarted
<1>15. ASSUME OnAsyncCompletionFailure  PROVE Untouched'
  BY <1>15 DEF OnAsyncCompletionFailure
<1>16. ASSUME OnAsyncCompletionReturn  PROVE Untouched'
  BY <1>16 DEF OnAsyncCompletionReturn
<1>17. ASSUME DestroyModule  PROVE Untouched'
  BY <1>17 DEF DestroyModule
<1>18. CASE UNCHANGED vars
  BY <1>18 DEF vars, lockVars, ioVars, sockVars, fwdVars, actVars
<1> QED
  BY <1>1, <1>2, <1>3, <1>4, <1>5, <1>6, <1>7, <1>8, <1>9,
     <1>10, <1>11, <1>12, <1>13, <1>14, <1>15, <1>16, <1>17, <1>18, NextSteps

-----------------------------------------------------------------------------
(* The count.  A step moves one thread; what it adds to or takes from the  *)
(* operations and handlers under way it adds to or takes from the count.   *)

Is(b) == IF b THEN 1 ELSE 0

Load == PendingIo + Cardinality(Active) + Cardinality(Issuing)

\* A set that differs in one element has at most one more or one less.
LEMMA CardMoves ==
    ASSUME NEW S, NEW T, NEW x, IsFiniteSet(S), T \ {x} = S \ {x}
    PROVE  /\ IsFiniteSet(T) /\ Cardinality(S) \in Nat /\ Cardinality(T) \in Nat
           /\ Cardinality(T) = Cardinality(S) + Is(x \in T) - Is(x \in S)
<1> DEFINE R == S \ {x}
<1>1. /\ IsFiniteSet(R) /\ Cardinality(S) = Cardinality(R) + Is(x \in S)
      /\ Cardinality(R) \in Nat /\ Cardinality(S) \in Nat
  BY FS_RemoveElement, FS_CardinalityType DEF Is
<1>2. CASE x \in T
  <2>1. T = R \cup {x} /\ x \notin R
    BY <1>2
  <2>2. IsFiniteSet(T) /\ Cardinality(T) = Cardinality(R) + 1
    BY <1>1, <2>1, FS_AddElement
  <2> QED
    BY <1>1, <1>2, <2>2 DEF Is
<1>3. CASE x \notin T
  <2>1. T = R
    BY <1>3
  <2> QED
    BY <1>1, <1>3, <2>1 DEF Is
<1> QED
  BY <1>2, <1>3

\* One thread moves: who is active and who issues an operation.
LEMMA Moves ==
    ASSUME WebSocketHandlerAssumption, Control, NEW t \in Threads, NEW l, Goto(t, l)
    PROVE  /\ Cardinality(Active) \in Nat /\ Cardinality(Issuing) \in Nat
           /\ Cardinality(Active') = Cardinality(Active)
                  + Is(t \in Workers /\ l \in InHandler) - Is(t \in Workers /\ pc[t] \in InHandler)
           /\ Cardinality(Issuing') = Cardinality(Issuing) + Is(l = "call") - Is(pc[t] = "call")
<1>1. pc'[t] = l /\ \A u \in Threads \ {t} : pc'[u] = pc[u]
  BY DEF Goto, Control
<1>2. IsFiniteSet(Active) /\ IsFiniteSet(Issuing)
  <2>1. IsFiniteSet(Threads)
    BY FS_AddElement DEF WebSocketHandlerAssumption, Threads
  <2>2. Active \in SUBSET Threads /\ Issuing \in SUBSET Threads
    BY DEF Active, Issuing, Threads
  <2> QED
    BY <2>1, <2>2, FS_Subset
<1>3. Active' \ {t} = Active \ {t} /\ Issuing' \ {t} = Issuing \ {t}
  BY <1>1 DEF Active, Issuing, Threads
<1>4. /\ t \in Active' <=> t \in Workers /\ l \in InHandler
      /\ t \in Active <=> t \in Workers /\ pc[t] \in InHandler
      /\ t \in Issuing' <=> l = "call"
      /\ t \in Issuing <=> pc[t] = "call"
  BY <1>1 DEF Active, Issuing
<1> HIDE DEF Active, Issuing
<1>5. /\ Cardinality(Active) \in Nat
      /\ Cardinality(Active') = Cardinality(Active) + Is(t \in Active') - Is(t \in Active)
  BY <1>2, <1>3, CardMoves
<1>6. /\ Cardinality(Issuing) \in Nat
      /\ Cardinality(Issuing') = Cardinality(Issuing) + Is(t \in Issuing') - Is(t \in Issuing)
  BY <1>2, <1>3, CardMoves
<1> QED
  BY <1>4, <1>5, <1>6 DEF Is

\* One operation begins, or completes.
LEMMA PendingMoves ==
    ASSUME Memory, NEW o \in Ops
    PROVE  /\ PendingIo \in Nat /\ pending[o] <= PendingIo
           /\ pending' = [pending EXCEPT ![o] = @ + 1] => PendingIo' = PendingIo + 1
           /\ pending' = [pending EXCEPT ![o] = @ - 1] => PendingIo' = PendingIo - 1
           /\ pending' = pending => PendingIo' = PendingIo
BY DEF Memory, PendingIo, Ops, IisOps, WinHttpOps

\* Finitely many threads are active, or issue an operation.
LEMMA ThreadsFinite ==
    ASSUME WebSocketHandlerAssumption
    PROVE  /\ IsFiniteSet(Active) /\ IsFiniteSet(Issuing)
           /\ Cardinality(Active) \in Nat /\ Cardinality(Issuing) \in Nat
<1>1. IsFiniteSet(Threads)
  BY FS_AddElement DEF WebSocketHandlerAssumption, Threads
<1>2. Active \in SUBSET Threads /\ Issuing \in SUBSET Threads
  BY DEF Active, Issuing, Threads
<1> QED
  BY <1>1, <1>2, FS_Subset, FS_CardinalityType

\* The load is a number, the operations a part of it.
LEMMA LoadTyped ==
    ASSUME WebSocketHandlerAssumption, Memory
    PROVE  Load \in Nat /\ PendingIo \in Nat /\ PendingIo <= Load
<1>1. Cardinality(Active) \in Nat /\ Cardinality(Issuing) \in Nat
  BY ThreadsFinite
<1>2. PendingIo \in Nat
  BY DEF PendingIo, Memory, Ops, IisOps, WinHttpOps
<1> QED
  BY <1>1, <1>2 DEF Load

\* Every step but a lost callback is balanced.
LEMMA Balanced ==
    ASSUME WebSocketHandlerAssumption, Control, Memory, [Next]_vars
    PROVE  \/ outstanding' - outstanding = Load' - Load
           \/ \E x \in Ops : Misroute(x)
<1>0. outstanding \in Int /\ Load \in Int /\ PendingIo \in Int
  BY LoadTyped DEF Memory
<1>1. ASSUME NEW w \in Workers, HandlerStep(w)
     PROVE  \/ outstanding' - outstanding = Load' - Load
           \/ \E x \in Ops : Misroute(x)
  <2>1. PICK l \in {"call", "leave", "leaveFailed"} :
          /\ Goto(w, l)
          /\ pc[w] = "enter"
          /\ outstanding' = outstanding + Is(l = "call")
    BY <1>1 DEF HandlerStep, IncrementOutstandingIo, Is, Memory, lockVars, ioVars,
        sockVars, fwdVars, actVars
  <2>2. PendingIo' = PendingIo
    BY <1>1 DEF HandlerStep, IncrementOutstandingIo, Is, Memory, PendingIo, lockVars,
        ioVars, sockVars, fwdVars, actVars
  <2> QED
    BY <1>0, <2>1, <2>2, Moves DEF Load, Is, InHandler, Threads,
        WebSocketHandlerAssumption
<1>2. ASSUME NEW w \in Workers, NEW o \in Ops,
             NEW p \in Threads \cup {None}, DeliverStep(w, o, p)
     PROVE  \/ outstanding' - outstanding = Load' - Load
           \/ \E x \in Ops : Misroute(x)
  <2>1. PICK l \in {"enter", "cleanup", "decrement"} :
          /\ Goto(w, l)
          /\ pc[w] = "idle"
          /\ UNCHANGED outstanding
    BY <1>2 DEF DeliverStep, lockVars, ioVars, sockVars, fwdVars, actVars
  <2>2. PendingIo' = PendingIo - 1
    BY <1>2, PendingMoves DEF DeliverStep
  <2> QED
    BY <1>0, <2>1, <2>2, Moves DEF Load, Is, InHandler, Threads,
        WebSocketHandlerAssumption
<1>3. ASSUME NEW w \in Workers, Call(w)
     PROVE  \/ outstanding' - outstanding = Load' - Load
           \/ \E x \in Ops : Misroute(x)
  <2>1. pc[w] = "call" /\ call[w] \in Ops
    BY <1>3 DEF Call, Control, Threads
  <2>2. CASE CallSucceeds(w)
    <3>1. Goto(w, "leave")
         /\ UNCHANGED outstanding /\ pending' = [pending EXCEPT ![call[w]] = @ + 1]
      BY <2>2 DEF CallSucceeds
    <3>2. PendingIo' = PendingIo + 1
      BY <2>1, <3>1, PendingMoves
    <3> QED
      BY <1>0, <2>1, <3>1, <3>2, Moves DEF Load, Is, InHandler, Threads,
          WebSocketHandlerAssumption
  <2>3. CASE CallFails(w)
    BY <1>0, <2>1, <2>3, Moves, PendingMoves DEF CallFails, Load, Is, InHandler,
        Threads, Memory
  <2> QED
    BY <1>3, <2>2, <2>3 DEF Call
<1>4. ASSUME NEW w \in Workers, Leave(w)
     PROVE  \/ outstanding' - outstanding = Load' - Load
           \/ \E x \in Ops : Misroute(x)
  <2>1. PICK l \in {"decrement", "cleanup"} :
          /\ Goto(w, l)
          /\ pc[w] \in {"leave", "leaveFailed"}
          /\ UNCHANGED outstanding
    BY <1>4 DEF Leave, lockVars, ioVars, sockVars, fwdVars, actVars
  <2>2. PendingIo' = PendingIo
    BY <1>4 DEF Leave, PendingIo, lockVars, ioVars, sockVars, fwdVars, actVars
  <2> QED
    BY <1>0, <2>1, <2>2, Moves DEF Load, Is, InHandler, Threads,
        WebSocketHandlerAssumption
<1>5. ASSUME NEW w \in Workers, CleanupBegin(w)
     PROVE  \/ outstanding' - outstanding = Load' - Load
           \/ \E x \in Ops : Misroute(x)
  <2>1. PICK l \in {"decrement", "close"} :
          /\ Goto(w, l)
          /\ pc[w] = "cleanup"
          /\ UNCHANGED outstanding
    BY <1>5 DEF CleanupBegin, lockVars, ioVars, sockVars, fwdVars, actVars
  <2>2. PendingIo' = PendingIo
    BY <1>5 DEF CleanupBegin, PendingIo, lockVars, ioVars, sockVars, fwdVars, actVars
  <2> QED
    BY <1>0, <2>1, <2>2, Moves DEF Load, Is, InHandler, Threads,
        WebSocketHandlerAssumption
<1>6. ASSUME NEW w \in Workers, CleanupEnd(w)
     PROVE  \/ outstanding' - outstanding = Load' - Load
           \/ \E x \in Ops : Misroute(x)
  <2>1. PICK l \in {"decrement"} :
          /\ Goto(w, l)
          /\ pc[w] = "close"
          /\ UNCHANGED outstanding
    BY <1>6 DEF CleanupEnd, lockVars, ioVars, sockVars, fwdVars, actVars
  <2>2. PendingIo' = PendingIo
    BY <1>6 DEF CleanupEnd, PendingIo, lockVars, ioVars, sockVars, fwdVars, actVars
  <2> QED
    BY <1>0, <2>1, <2>2, Moves DEF Load, Is, InHandler, Threads,
        WebSocketHandlerAssumption
<1>7. ASSUME NEW w \in Workers, DecrementOutstandingIo(w)
     PROVE  \/ outstanding' - outstanding = Load' - Load
           \/ \E x \in Ops : Misroute(x)
  <2>1. PICK l \in {"last", "idle"} :
          /\ Goto(w, l)
          /\ pc[w] = "decrement"
          /\ outstanding' = outstanding - 1
    BY <1>7 DEF DecrementOutstandingIo, Retire, lockVars, ioVars, sockVars, fwdVars,
        actVars
  <2>2. PendingIo' = PendingIo
    BY <1>7 DEF DecrementOutstandingIo, Retire, PendingIo, lockVars, ioVars, sockVars,
        fwdVars, actVars
  <2> QED
    BY <1>0, <2>1, <2>2, Moves DEF Load, Is, InHandler, Threads,
        WebSocketHandlerAssumption
<1>8. ASSUME NEW w \in Workers, IndicateCompletionToIIS(w)
     PROVE  \/ outstanding' - outstanding = Load' - Load
           \/ \E x \in Ops : Misroute(x)
  <2>1. PICK l \in {"completion", "idle"} :
          /\ Goto(w, l)
          /\ pc[w] = "last"
          /\ UNCHANGED outstanding
    BY <1>8 DEF IndicateCompletionToIIS, Retire, lockVars, ioVars, sockVars, fwdVars,
        actVars
  <2>2. PendingIo' = PendingIo
    BY <1>8 DEF IndicateCompletionToIIS, Retire, PendingIo, lockVars, ioVars, sockVars,
        fwdVars, actVars
  <2> QED
    BY <1>0, <2>1, <2>2, Moves DEF Load, Is, InHandler, Threads,
        WebSocketHandlerAssumption
<1>9. ASSUME NEW w \in Workers, OnAsyncCompletionDone(w)
     PROVE  \/ outstanding' - outstanding = Load' - Load
           \/ \E x \in Ops : Misroute(x)
  <2>1. PICK l \in {"idle"} :
          /\ Goto(w, l)
          /\ pc[w] = "completion"
          /\ UNCHANGED outstanding
    BY <1>9 DEF OnAsyncCompletionDone, Retire, lockVars, ioVars, sockVars, fwdVars,
        actVars
  <2>2. PendingIo' = PendingIo
    BY <1>9 DEF OnAsyncCompletionDone, Retire, PendingIo, lockVars, ioVars, sockVars,
        fwdVars, actVars
  <2> QED
    BY <1>0, <2>1, <2>2, Moves DEF Load, Is, InHandler, Threads,
        WebSocketHandlerAssumption
<1>10. ASSUME NEW o \in Ops, Misroute(o)
     PROVE  \/ outstanding' - outstanding = Load' - Load
           \/ \E x \in Ops : Misroute(x)
  BY <1>10
<1>11. ASSUME ProcessRequest
     PROVE  \/ outstanding' - outstanding = Load' - Load
           \/ \E x \in Ops : Misroute(x)
  <2>1. PICK l \in {"call", "leaveFailed"} :
          /\ Goto(Starter, l)
          /\ pc[Starter] = "start"
          /\ outstanding' = outstanding + Is(l = "call")
    BY <1>11 DEF ProcessRequest, EnterLock, Issue, Fail, IncrementOutstandingIo,
        DoIisWebSocketReceive, Is, Memory, lockVars, ioVars, sockVars, fwdVars, actVars
  <2>2. PendingIo' = PendingIo
    BY <1>11 DEF ProcessRequest, EnterLock, Issue, Fail, IncrementOutstandingIo,
        DoIisWebSocketReceive, Is, Memory, PendingIo, lockVars, ioVars, sockVars,
        fwdVars, actVars
  <2> QED
    BY <1>0, <2>1, <2>2, Moves DEF Load, Is, InHandler, Threads,
        WebSocketHandlerAssumption
<1>12. ASSUME ProcessRequestCall
     PROVE  \/ outstanding' - outstanding = Load' - Load
           \/ \E x \in Ops : Misroute(x)
  <2>1. pc[Starter] = "call" /\ call[Starter] \in Ops
    BY <1>12 DEF ProcessRequestCall, Control, Threads
  <2>2. CASE /\ pending' = [pending EXCEPT !["IisReceive"] = @ + 1]
             /\ DoWinHttpWebSocketReceive(Starter)
    <3>1. Goto(Starter, "call") /\ outstanding' = outstanding + 1
      BY <2>2 DEF DoWinHttpWebSocketReceive, Issue, IncrementOutstandingIo
    <3>2. PendingIo' = PendingIo + 1
      BY <2>2, PendingMoves DEF Ops, IisOps
    <3> QED
      BY <1>0, <2>1, <3>1, <3>2, Moves DEF Load, Is, InHandler, Threads,
          WebSocketHandlerAssumption
  <2>3. CASE CallSucceeds(Starter)
    <3>1. Goto(Starter, "leave")
         /\ UNCHANGED outstanding /\ pending' = [pending EXCEPT ![call[Starter]] = @ + 1]
      BY <2>3 DEF CallSucceeds
    <3>2. PendingIo' = PendingIo + 1
      BY <2>1, <3>1, PendingMoves
    <3> QED
      BY <1>0, <2>1, <3>1, <3>2, Moves DEF Load, Is, InHandler, Threads,
          WebSocketHandlerAssumption
  <2>4. CASE CallFails(Starter)
    BY <1>0, <2>1, <2>4, Moves, PendingMoves DEF CallFails, Load, Is, InHandler,
        Threads, Memory, WebSocketHandlerAssumption
  <2> QED
    BY <1>12, <2>2, <2>3, <2>4 DEF ProcessRequestCall
<1>13. ASSUME ProcessRequestLeave
     PROVE  \/ outstanding' - outstanding = Load' - Load
           \/ \E x \in Ops : Misroute(x)
  <2>1. PICK l \in {"started", "failure"} :
          /\ Goto(Starter, l)
          /\ pc[Starter] \in {"leave", "leaveFailed"}
          /\ UNCHANGED outstanding
    BY <1>13 DEF ProcessRequestLeave, lockVars, ioVars, sockVars, fwdVars, actVars
  <2>2. PendingIo' = PendingIo
    BY <1>13 DEF ProcessRequestLeave, PendingIo, lockVars, ioVars, sockVars, fwdVars,
        actVars
  <2> QED
    BY <1>0, <2>1, <2>2, Moves DEF Load, Is, InHandler, Threads,
        WebSocketHandlerAssumption
<1>14. ASSUME OnAsyncCompletionStarted
     PROVE  \/ outstanding' - outstanding = Load' - Load
           \/ \E x \in Ops : Misroute(x)
  <2>1. PICK l \in {"leaving"} :
          /\ Goto(Starter, l)
          /\ pc[Starter] = "started"
          /\ UNCHANGED outstanding
    BY <1>14 DEF OnAsyncCompletionStarted, lockVars, ioVars, sockVars, fwdVars, actVars
  <2>2. PendingIo' = PendingIo
    BY <1>14 DEF OnAsyncCompletionStarted, PendingIo, lockVars, ioVars, sockVars,
        fwdVars, actVars
  <2> QED
    BY <1>0, <2>1, <2>2, Moves DEF Load, Is, InHandler, Threads,
        WebSocketHandlerAssumption
<1>15. ASSUME OnAsyncCompletionFailure
     PROVE  \/ outstanding' - outstanding = Load' - Load
           \/ \E x \in Ops : Misroute(x)
  <2>1. PICK l \in {"leavingFailed"} :
          /\ Goto(Starter, l)
          /\ pc[Starter] = "failure"
          /\ UNCHANGED outstanding
    BY <1>15 DEF OnAsyncCompletionFailure, lockVars, ioVars, sockVars, fwdVars, actVars
  <2>2. PendingIo' = PendingIo
    BY <1>15 DEF OnAsyncCompletionFailure, PendingIo, lockVars, ioVars, sockVars,
        fwdVars, actVars
  <2> QED
    BY <1>0, <2>1, <2>2, Moves DEF Load, Is, InHandler, Threads,
        WebSocketHandlerAssumption
<1>16. ASSUME OnAsyncCompletionReturn
     PROVE  \/ outstanding' - outstanding = Load' - Load
           \/ \E x \in Ops : Misroute(x)
  <2>1. PICK l \in {"done", "doneFailed"} :
          /\ Goto(Starter, l)
          /\ pc[Starter] \in {"leaving", "leavingFailed"}
          /\ UNCHANGED outstanding
    BY <1>16 DEF OnAsyncCompletionReturn, lockVars, ioVars, sockVars, fwdVars, actVars
  <2>2. PendingIo' = PendingIo
    BY <1>16 DEF OnAsyncCompletionReturn, PendingIo, lockVars, ioVars, sockVars,
        fwdVars, actVars
  <2> QED
    BY <1>0, <2>1, <2>2, Moves DEF Load, Is, InHandler, Threads,
        WebSocketHandlerAssumption
<1>17. ASSUME DestroyModule
     PROVE  \/ outstanding' - outstanding = Load' - Load
           \/ \E x \in Ops : Misroute(x)
  <2>1. UNCHANGED <<outstanding, pending, pc>>
    BY <1>17 DEF DestroyModule, lockVars, ioVars, sockVars, fwdVars, actVars
  <2>2. UNCHANGED <<PendingIo, Active, Issuing>>
    BY <2>1 DEF PendingIo, Active, Issuing
  <2> QED
    BY <1>0, <2>1, <2>2 DEF Load
<1>18. CASE UNCHANGED vars
  <2>1. UNCHANGED <<outstanding, pending, pc>>
    BY <1>18 DEF vars, lockVars, ioVars, sockVars, fwdVars, actVars
  <2>2. UNCHANGED <<PendingIo, Active, Issuing>>
    BY <2>1 DEF PendingIo, Active, Issuing
  <2> QED
    BY <1>0, <2>1, <2>2 DEF Load
<1> QED
  BY <1>1, <1>2, <1>3, <1>4, <1>5, <1>6, <1>7, <1>8, <1>9,
     <1>10, <1>11, <1>12, <1>13, <1>14, <1>15, <1>16, <1>17, <1>18, NextSteps

\* A failed start stays a failed start.
LEMMA StartFailedStays ==
    ASSUME WebSocketHandlerAssumption, Control, StartFailed, [Next]_vars
    PROVE  StartFailed'
<1> USE DEF WebSocketHandlerAssumption, Control, StartFailed, Threads, Goto, Retire,
    lockVars, ioVars, sockVars, fwdVars, actVars
<1>1. ASSUME NEW w \in Workers, HandlerStep(w)
     PROVE  StartFailed'
  BY <1>1 DEF HandlerStep
<1>2. ASSUME NEW w \in Workers, NEW o \in Ops,
             NEW p \in Threads \cup {None}, DeliverStep(w, o, p)
     PROVE  StartFailed'
  BY <1>2 DEF DeliverStep
<1>3. ASSUME NEW w \in Workers, Call(w)
     PROVE  StartFailed'
  BY <1>3 DEF Call, CallSucceeds, CallFails
<1>4. ASSUME NEW w \in Workers, Leave(w)
     PROVE  StartFailed'
  BY <1>4 DEF Leave
<1>5. ASSUME NEW w \in Workers, CleanupBegin(w)
     PROVE  StartFailed'
  BY <1>5 DEF CleanupBegin
<1>6. ASSUME NEW w \in Workers, CleanupEnd(w)
     PROVE  StartFailed'
  BY <1>6 DEF CleanupEnd
<1>7. ASSUME NEW w \in Workers, DecrementOutstandingIo(w)
     PROVE  StartFailed'
  BY <1>7 DEF DecrementOutstandingIo
<1>8. ASSUME NEW w \in Workers, IndicateCompletionToIIS(w)
     PROVE  StartFailed'
  BY <1>8 DEF IndicateCompletionToIIS
<1>9. ASSUME NEW w \in Workers, OnAsyncCompletionDone(w)
     PROVE  StartFailed'
  BY <1>9 DEF OnAsyncCompletionDone
<1>10. ASSUME NEW o \in Ops, Misroute(o)
     PROVE  StartFailed'
  BY <1>10 DEF Misroute
<1>11. ASSUME ProcessRequest  PROVE StartFailed'
  BY <1>11 DEF ProcessRequest
<1>12. ASSUME ProcessRequestCall  PROVE StartFailed'
  BY <1>12 DEF ProcessRequestCall, CallSucceeds, CallFails, Issue,
      IncrementOutstandingIo, DoWinHttpWebSocketReceive
<1>13. ASSUME ProcessRequestLeave  PROVE StartFailed'
  BY <1>13 DEF ProcessRequestLeave
<1>14. ASSUME OnAsyncCompletionStarted  PROVE StartFailed'
  BY <1>14 DEF OnAsyncCompletionStarted
<1>15. ASSUME OnAsyncCompletionFailure  PROVE StartFailed'
  BY <1>15 DEF OnAsyncCompletionFailure
<1>16. ASSUME OnAsyncCompletionReturn  PROVE StartFailed'
  BY <1>16 DEF OnAsyncCompletionReturn
<1>17. ASSUME DestroyModule  PROVE StartFailed'
  BY <1>17 DEF DestroyModule
<1>18. CASE UNCHANGED vars
  BY <1>18 DEF vars, lockVars, ioVars, sockVars, fwdVars, actVars
<1> QED
  BY <1>1, <1>2, <1>3, <1>4, <1>5, <1>6, <1>7, <1>8, <1>9,
     <1>10, <1>11, <1>12, <1>13, <1>14, <1>15, <1>16, <1>17, <1>18, NextSteps

\* Whoever is at work keeps the count above zero, so that nobody has seen it
\* at zero yet.
LEMMA Busy ==
    ASSUME WebSocketHandlerAssumption, Control, Memory, Counted, Last, ~StartFailed,
           \/ \E t \in Threads : pc[t] = "call"
           \/ \E w \in Workers : pc[w] \in InHandler
           \/ \E o \in Ops : pending[o] > 0
    PROVE  /\ outstanding > 0 /\ status = "websocket" /\ indicated = 0
           /\ \A w \in Workers : pc[w] # "last"
<1>1. outstanding = Load /\ Load \in Nat /\ PendingIo \in Nat /\ PendingIo <= Load
  BY LoadTyped DEF Counted, OutstandingIsExact, Load
<1>2. /\ IsFiniteSet(Active) /\ IsFiniteSet(Issuing)
      /\ Cardinality(Active) \in Nat /\ Cardinality(Issuing) \in Nat
  BY ThreadsFinite
<1>3. outstanding > 0
  <2>1. CASE \E t \in Threads : pc[t] = "call"
    <3>1. Issuing # {}
      BY <2>1 DEF Issuing
    <3>2. Cardinality(Issuing) # 0
      BY <1>2, <3>1, FS_EmptySet
    <3> QED
      BY <1>1, <1>2, <3>2 DEF Load
  <2>2. CASE \E w \in Workers : pc[w] \in InHandler
    <3>1. Active # {}
      BY <2>2 DEF Active
    <3>2. Cardinality(Active) # 0
      BY <1>2, <3>1, FS_EmptySet
    <3> QED
      BY <1>1, <1>2, <3>2 DEF Load
  <2>3. CASE \E o \in Ops : pending[o] > 0
    <3>1. PendingIo > 0
      BY <1>1, <2>3, PendingMoves DEF Memory
    <3> QED
      BY <1>1, <3>1
  <2> QED
    BY <2>1, <2>2, <2>3
<1> QED
  BY <1>3 DEF Last, Memory

\* A callback is lost only after a failed start, so that every other step keeps
\* the count exact.
LEMMA NextCounted ==
    ASSUME WebSocketHandlerAssumption, Control, Memory, Counted, Last, [Next]_vars,
        Memory'
    PROVE  Counted'
<1>1. /\ Load \in Nat /\ PendingIo \in Nat /\ PendingIo <= Load
      /\ outstanding \in Int /\ outstanding' \in Int
      /\ Load <= outstanding /\ (StartFailed \/ outstanding = Load)
  BY LoadTyped DEF Counted, OutstandingIsExact, Load, Memory
<1>2. StartFailed => StartFailed'
  BY StartFailedStays
<1>3. CASE outstanding' - outstanding = Load' - Load /\ Load' \in Int
  <2>1. Load' <= outstanding' /\ (StartFailed' \/ outstanding' = Load')
    BY <1>1, <1>2, <1>3
  <2> QED
    BY <2>1 DEF Counted, OutstandingIsExact, Load
<1>4. ASSUME NEW o \in Ops, Misroute(o)
      PROVE  Counted'
  <2>1. /\ pending[o] > 0 /\ status = "done" /\ outstanding' = outstanding /\ pc' = pc
        /\ pending' = [pending EXCEPT ![o] = @ - 1]
    BY <1>4 DEF Misroute
  <2>2. StartFailed
    BY <2>1, Busy
  <2>3. UNCHANGED <<Active, Issuing>> /\ PendingIo' = PendingIo - 1
    BY <2>1, PendingMoves DEF Active, Issuing
  <2>4. Load' = Load - 1
    <3>1. Cardinality(Active) \in Nat /\ Cardinality(Issuing) \in Nat
      BY ThreadsFinite
    <3> QED
      BY <1>1, <2>3, <3>1 DEF Load
  <2>5. Load' <= outstanding' /\ StartFailed'
    BY <1>1, <1>2, <2>1, <2>2, <2>4
  <2> QED
    BY <2>5 DEF Counted, OutstandingIsExact, Load
<1>5. Load' \in Int \/ \E o \in Ops : Misroute(o)
  <2>1. IsFiniteSet(Active') /\ IsFiniteSet(Issuing')
    <3>1. IsFiniteSet(Threads)
      BY FS_AddElement DEF WebSocketHandlerAssumption, Threads
    <3>2. Active' \in SUBSET Threads /\ Issuing' \in SUBSET Threads
      BY DEF Active, Issuing, Threads
    <3> QED
      BY <3>1, <3>2, FS_Subset
  <2>2. PendingIo' \in Nat
    BY DEF PendingIo, Memory, Ops, IisOps, WinHttpOps
  <2> QED
    BY <2>1, <2>2, FS_CardinalityType DEF Load
<1> QED
  BY <1>3, <1>4, <1>5, Balanced

\* Only the decrement to zero finds the count at zero, and nobody follows it.
LEMMA NextLast ==
    ASSUME WebSocketHandlerAssumption, Control, Memory, Untouched, Counted, Last,
        [Next]_vars
    PROVE  Last'
<1> USE DEF Control, Memory, Threads, Goto, Retire, lockVars, ioVars, sockVars,
    fwdVars, actVars
<1> SUFFICES ASSUME ~StartFailed'  PROVE Last'
  BY DEF Last
<1>0. ~StartFailed
  BY StartFailedStays
<1>1. ASSUME NEW w \in Workers, HandlerStep(w)
     PROVE  Last'
  <2>1. pc[w] \in InHandler
    BY <1>1 DEF HandlerStep, InHandler
  <2> QED
    BY <1>1, <1>0, <2>1, Busy DEF HandlerStep, Last, IncrementOutstandingIo
<1>2. ASSUME NEW w \in Workers, NEW o \in Ops,
             NEW p \in Threads \cup {None}, DeliverStep(w, o, p)
     PROVE  Last'
  <2>1. pending[o] > 0
    BY <1>2 DEF DeliverStep
  <2> QED
    BY <1>2, <1>0, <2>1, Busy DEF DeliverStep, Last
<1>3. ASSUME NEW w \in Workers, Call(w)
     PROVE  Last'
  <2>1. pc[w] \in InHandler
    BY <1>3 DEF Call, InHandler
  <2> QED
    BY <1>3, <1>0, <2>1, Busy DEF Call, CallSucceeds, CallFails, Last
<1>4. ASSUME NEW w \in Workers, Leave(w)
     PROVE  Last'
  <2>1. pc[w] \in InHandler
    BY <1>4 DEF Leave, InHandler
  <2> QED
    BY <1>4, <1>0, <2>1, Busy DEF Leave, Last, IncrementOutstandingIo
<1>5. ASSUME NEW w \in Workers, CleanupBegin(w)
     PROVE  Last'
  <2>1. pc[w] \in InHandler
    BY <1>5 DEF CleanupBegin, InHandler
  <2> QED
    BY <1>5, <1>0, <2>1, Busy DEF CleanupBegin, Last, IncrementOutstandingIo
<1>6. ASSUME NEW w \in Workers, CleanupEnd(w)
     PROVE  Last'
  <2>1. pc[w] \in InHandler
    BY <1>6 DEF CleanupEnd, InHandler
  <2> QED
    BY <1>6, <1>0, <2>1, Busy DEF CleanupEnd, Last, IncrementOutstandingIo
<1>7. ASSUME NEW w \in Workers, DecrementOutstandingIo(w)
     PROVE  Last'
  <2>1. pc[w] \in InHandler
    BY <1>7 DEF DecrementOutstandingIo, InHandler
  <2> QED
    BY <1>7, <1>0, <2>1, Busy DEF DecrementOutstandingIo, Last, IncrementOutstandingIo
<1>8. ASSUME NEW w \in Workers, IndicateCompletionToIIS(w)
     PROVE  Last'
  BY <1>8, <1>0 DEF IndicateCompletionToIIS, Last
<1>9. ASSUME NEW w \in Workers, OnAsyncCompletionDone(w)
     PROVE  Last'
  BY <1>9, <1>0 DEF OnAsyncCompletionDone, Last
<1>10. ASSUME NEW o \in Ops, Misroute(o)
     PROVE  Last'
  BY <1>10, <1>0, Busy DEF Misroute, Last
<1>11. ASSUME ProcessRequest  PROVE Last'
  BY <1>11, <1>0 DEF ProcessRequest, Last, Untouched, Issue, Fail, EnterLock,
      DoIisWebSocketReceive, IncrementOutstandingIo
<1>12. ASSUME ProcessRequestCall  PROVE Last'
  <2>1. pc[Starter] = "call"
    BY <1>12 DEF ProcessRequestCall
  <2> QED
    BY <1>12, <1>0, <2>1, Busy DEF ProcessRequestCall, Last, CallSucceeds, CallFails,
        Issue, DoWinHttpWebSocketReceive, IncrementOutstandingIo
<1>13. ASSUME ProcessRequestLeave  PROVE Last'
  BY <1>13, <1>0 DEF ProcessRequestLeave, Last
<1>14. ASSUME OnAsyncCompletionStarted  PROVE Last'
  BY <1>14, <1>0 DEF OnAsyncCompletionStarted, Last
<1>15. ASSUME OnAsyncCompletionFailure  PROVE Last'
  BY <1>15 DEF OnAsyncCompletionFailure, Last, StartFailed
<1>16. ASSUME OnAsyncCompletionReturn  PROVE Last'
  BY <1>16, <1>0 DEF OnAsyncCompletionReturn, Last
<1>17. ASSUME DestroyModule  PROVE Last'
  BY <1>17, <1>0 DEF DestroyModule, Last
<1>18. CASE UNCHANGED vars
  BY <1>18, <1>0 DEF vars, Last
<1> QED
  BY <1>1, <1>2, <1>3, <1>4, <1>5, <1>6, <1>7, <1>8, <1>9,
     <1>10, <1>11, <1>12, <1>13, <1>14, <1>15, <1>16, <1>17, <1>18, NextSteps

\* The loop that reads from the backend goes on until a cleanup.
LEMMA NextReading ==
    ASSUME WebSocketHandlerAssumption, Control, Memory, Counted, Last, Reading,
        [Next]_vars
    PROVE  Reading'
<1> USE DEF WebSocketHandlerAssumption, Control, Memory, Reading, ServerLoop, Ops,
    IisOps, WinHttpOps, Threads, Goto, Retire, lockVars, ioVars, sockVars, fwdVars,
    actVars
<1>1. ASSUME NEW w \in Workers, HandlerStep(w)
     PROVE  Reading'
  BY <1>1 DEF HandlerStep, Follows
<1>2. ASSUME NEW w \in Workers, NEW o \in Ops,
             NEW p \in Threads \cup {None}, DeliverStep(w, o, p)
     PROVE  Reading'
  BY <1>2 DEF DeliverStep
<1>3. ASSUME NEW w \in Workers, Call(w)
     PROVE  Reading'
  BY <1>3 DEF Call, CallSucceeds, CallFails
<1>4. ASSUME NEW w \in Workers, Leave(w)
     PROVE  Reading'
  BY <1>4 DEF Leave
<1>5. ASSUME NEW w \in Workers, CleanupBegin(w)
     PROVE  Reading'
  BY <1>5 DEF CleanupBegin
<1>6. ASSUME NEW w \in Workers, CleanupEnd(w)
     PROVE  Reading'
  BY <1>6 DEF CleanupEnd
<1>7. ASSUME NEW w \in Workers, DecrementOutstandingIo(w)
     PROVE  Reading'
  BY <1>7 DEF DecrementOutstandingIo
<1>8. ASSUME NEW w \in Workers, IndicateCompletionToIIS(w)
     PROVE  Reading'
  BY <1>8 DEF IndicateCompletionToIIS
<1>9. ASSUME NEW w \in Workers, OnAsyncCompletionDone(w)
     PROVE  Reading'
  BY <1>9 DEF OnAsyncCompletionDone
<1>10. ASSUME NEW o \in Ops, Misroute(o)
     PROVE  Reading'
  <2>1. status = "done" /\ pending[o] > 0 /\ UNCHANGED <<pc, fCleanup>>
    BY <1>10 DEF Misroute
  <2>2. StartFailed
    BY <2>1, Busy
  <2> QED
    BY <2>1, <2>2 DEF StartFailed
<1>11. ASSUME ProcessRequest  PROVE Reading'
  BY <1>11 DEF ProcessRequest, EnterLock, Issue, Fail, IncrementOutstandingIo,
      DoIisWebSocketReceive
<1>12. ASSUME ProcessRequestCall  PROVE Reading'
  BY <1>12 DEF ProcessRequestCall, CallSucceeds, CallFails, Issue,
      IncrementOutstandingIo, DoWinHttpWebSocketReceive
<1>13. ASSUME ProcessRequestLeave  PROVE Reading'
  BY <1>13 DEF ProcessRequestLeave
<1>14. ASSUME OnAsyncCompletionStarted  PROVE Reading'
  BY <1>14 DEF OnAsyncCompletionStarted
<1>15. ASSUME OnAsyncCompletionFailure  PROVE Reading'
  BY <1>15 DEF OnAsyncCompletionFailure
<1>16. ASSUME OnAsyncCompletionReturn  PROVE Reading'
  BY <1>16 DEF OnAsyncCompletionReturn
<1>17. ASSUME DestroyModule  PROVE Reading'
  BY <1>17 DEF DestroyModule
<1>18. CASE UNCHANGED vars
  BY <1>18 DEF vars, lockVars, ioVars, sockVars, fwdVars, actVars
<1> QED
  BY <1>1, <1>2, <1>3, <1>4, <1>5, <1>6, <1>7, <1>8, <1>9,
     <1>10, <1>11, <1>12, <1>13, <1>14, <1>15, <1>16, <1>17, <1>18, NextSteps

\* The handle is open while anybody may use it: Cleanup closes it inside the
\* lock, after the flag that keeps the handlers from issuing another operation.
LEMMA NextHandle ==
    ASSUME WebSocketHandlerAssumption, Control, Memory, Locking, Stack, Untouched,
        Handle, [Next]_vars
    PROVE  Handle'
<1> USE DEF WebSocketHandlerAssumption, Control, Memory, Handle, UsesOpenHandle,
    Threads, Goto, Retire, lockVars, ioVars, sockVars, fwdVars, actVars
<1>1. ASSUME NEW w \in Workers, HandlerStep(w)
     PROVE  Handle'
  BY <1>1 DEF HandlerStep
<1>2. ASSUME NEW w \in Workers, NEW o \in Ops,
             NEW p \in Threads \cup {None}, DeliverStep(w, o, p)
     PROVE  Handle'
  BY <1>2 DEF DeliverStep
<1>3. ASSUME NEW w \in Workers, Call(w)
     PROVE  Handle'
  BY <1>3 DEF Call, CallSucceeds, CallFails
<1>4. ASSUME NEW w \in Workers, Leave(w)
     PROVE  Handle'
  BY <1>4 DEF Leave
<1>5. ASSUME NEW w \in Workers, CleanupBegin(w)
     PROVE  Handle'
  BY <1>5 DEF CleanupBegin
<1>6. ASSUME NEW w \in Workers, CleanupEnd(w)
     PROVE  Handle'
  <2>1. \A t \in Threads : pc[t] = "call" => FALSE
    <3>1. ASSUME NEW t \in Threads, pc[t] = "call"  PROVE FALSE
      <4>1. Runs(t)
        BY <1>6, <3>1 DEF CleanupEnd, Runs, Stack
      <4>2. Runs(w) /\ pc[w] \in Holding /\ pc[t] \in Holding /\ w \in Threads /\ pc[w] # "call"
        BY <1>6, <3>1 DEF CleanupEnd, Holding, Threads
      <4> QED
        BY <3>1, <4>1, <4>2, RunsOnTop
    <3> QED
      BY <3>1
  <2> QED
    BY <1>6, <2>1 DEF CleanupEnd
<1>7. ASSUME NEW w \in Workers, DecrementOutstandingIo(w)
     PROVE  Handle'
  BY <1>7 DEF DecrementOutstandingIo
<1>8. ASSUME NEW w \in Workers, IndicateCompletionToIIS(w)
     PROVE  Handle'
  BY <1>8 DEF IndicateCompletionToIIS
<1>9. ASSUME NEW w \in Workers, OnAsyncCompletionDone(w)
     PROVE  Handle'
  BY <1>9 DEF OnAsyncCompletionDone
<1>10. ASSUME NEW o \in Ops, Misroute(o)
     PROVE  Handle'
  BY <1>10 DEF Misroute
<1>11. ASSUME ProcessRequest  PROVE Handle'
  BY <1>11 DEF ProcessRequest, Issue, Fail, DoIisWebSocketReceive, Untouched
<1>12. ASSUME ProcessRequestCall  PROVE Handle'
  BY <1>12 DEF ProcessRequestCall, CallSucceeds, CallFails, Issue,
      DoWinHttpWebSocketReceive
<1>13. ASSUME ProcessRequestLeave  PROVE Handle'
  BY <1>13 DEF ProcessRequestLeave
<1>14. ASSUME OnAsyncCompletionStarted  PROVE Handle'
  BY <1>14 DEF OnAsyncCompletionStarted
<1>15. ASSUME OnAsyncCompletionFailure  PROVE Handle'
  BY <1>15 DEF OnAsyncCompletionFailure
<1>16. ASSUME OnAsyncCompletionReturn  PROVE Handle'
  BY <1>16 DEF OnAsyncCompletionReturn
<1>17. ASSUME DestroyModule  PROVE Handle'
  BY <1>17 DEF DestroyModule
<1>18. CASE UNCHANGED vars
  BY <1>18 DEF vars, lockVars, ioVars, sockVars, fwdVars, actVars
<1> QED
  BY <1>1, <1>2, <1>3, <1>4, <1>5, <1>6, <1>7, <1>8, <1>9,
     <1>10, <1>11, <1>12, <1>13, <1>14, <1>15, <1>16, <1>17, <1>18, NextSteps

-----------------------------------------------------------------------------
(* The two loops.  A step takes the operation of a loop one place further. *)

Entering(loop) == {w \in Workers : pc[w] = "enter" /\ op[w] \in loop}
Calling(loop)  == {t \in Threads : pc[t] = "call" /\ call[t] \in loop}

ClientPending == pending["IisReceive"] + pending["WinHttpSend"] + pending["WinHttpShutdown"]
ServerPending == pending["WinHttpReceive"] + pending["IisSend"]

ClientFlight == InFlight(ClientLoop) + ClientPending
ServerFlight == InFlight(ServerLoop) + ServerPending

\* One thread moves: what is in flight in a loop.
LEMMA FlightMoves ==
    ASSUME WebSocketHandlerAssumption, Control, NEW t \in Threads, NEW l, Goto(t, l),
           \A u \in Threads \ {t} : call'[u] = call[u],
           \A u \in Workers \ {t} : op'[u] = op[u], NEW CONSTANT loop
    PROVE  /\ InFlight(loop) \in Nat
           /\ InFlight(loop)' = InFlight(loop)
                + Is(t \in Workers /\ l = "enter" /\ op'[t] \in loop) + Is(l = "call" /\ call'[t] \in loop)
                - Is(t \in Workers /\ pc[t] = "enter" /\ op[t] \in loop)
                - Is(pc[t] = "call" /\ call[t] \in loop)
<1>1. pc'[t] = l /\ \A u \in Threads \ {t} : pc'[u] = pc[u]
  BY DEF Goto, Control
<1>2. IsFiniteSet(Entering(loop)) /\ IsFiniteSet(Calling(loop))
  <2>1. IsFiniteSet(Threads)
    BY FS_AddElement DEF WebSocketHandlerAssumption, Threads
  <2>2. Entering(loop) \in SUBSET Threads /\ Calling(loop) \in SUBSET Threads
    BY DEF Entering, Calling, Threads
  <2> QED
    BY <2>1, <2>2, FS_Subset
<1>3. /\ Entering(loop)' \ {t} = Entering(loop) \ {t}
      /\ Calling(loop)' \ {t} = Calling(loop) \ {t}
  BY <1>1 DEF Entering, Calling, Threads
<1>4. /\ t \in Entering(loop)' <=> t \in Workers /\ l = "enter" /\ op'[t] \in loop
      /\ t \in Entering(loop) <=> t \in Workers /\ pc[t] = "enter" /\ op[t] \in loop
      /\ t \in Calling(loop)' <=> l = "call" /\ call'[t] \in loop
      /\ t \in Calling(loop) <=> pc[t] = "call" /\ call[t] \in loop
  BY <1>1 DEF Entering, Calling
<1>5. /\ InFlight(loop) = Cardinality(Entering(loop)) + Cardinality(Calling(loop))
      /\ InFlight(loop)' = Cardinality(Entering(loop)') + Cardinality(Calling(loop)')
  BY DEF InFlight, Entering, Calling
<1> HIDE DEF Entering, Calling
<1>6. /\ Cardinality(Entering(loop)) \in Nat
      /\ Cardinality(Entering(loop)') = Cardinality(Entering(loop))
             + Is(t \in Entering(loop)') - Is(t \in Entering(loop))
  BY <1>2, <1>3, CardMoves
<1>7. /\ Cardinality(Calling(loop)) \in Nat
      /\ Cardinality(Calling(loop)') = Cardinality(Calling(loop))
             + Is(t \in Calling(loop)') - Is(t \in Calling(loop))
  BY <1>2, <1>3, CardMoves
<1> QED
  BY <1>4, <1>5, <1>6, <1>7 DEF Is

\* What is in flight is a number.
LEMMA FlightTyped ==
    ASSUME WebSocketHandlerAssumption, Memory
    PROVE  /\ InFlight(ClientLoop) \in Nat /\ InFlight(ServerLoop) \in Nat
           /\ ClientFlight \in Nat /\ ServerFlight \in Nat
<1>1. ASSUME NEW loop  PROVE InFlight(loop) \in Nat
  <2>1. IsFiniteSet(Threads)
    BY FS_AddElement DEF WebSocketHandlerAssumption, Threads
  <2>2. Entering(loop) \in SUBSET Threads /\ Calling(loop) \in SUBSET Threads
    BY DEF Entering, Calling, Threads
  <2>3. InFlight(loop) = Cardinality(Entering(loop)) + Cardinality(Calling(loop))
    BY DEF InFlight, Entering, Calling
  <2> QED
    BY <2>1, <2>2, <2>3, FS_Subset, FS_CardinalityType
<1> QED
  BY <1>1 DEF Memory, ClientFlight, ServerFlight, ClientPending, ServerPending, Ops,
      IisOps, WinHttpOps

\* A thread that neither begins a handler nor a call adds nothing.
LEMMA AddsNothing ==
    ASSUME WebSocketHandlerAssumption, Control, Memory, NEW t \in Threads, NEW l,
        Goto(t, l),
           l \notin {"enter", "call"}, UNCHANGED pending,
           \A u \in Threads \ {t} : call'[u] = call[u],
           \A u \in Workers \ {t} : op'[u] = op[u]
    PROVE  ClientFlight' <= ClientFlight /\ ServerFlight' <= ServerFlight
<1>1. /\ InFlight(ClientLoop) \in Nat /\ InFlight(ClientLoop)' \in Int
      /\ InFlight(ClientLoop)' <= InFlight(ClientLoop)
  BY FlightMoves DEF Is
<1>2. /\ InFlight(ServerLoop) \in Nat /\ InFlight(ServerLoop)' \in Int
      /\ InFlight(ServerLoop)' <= InFlight(ServerLoop)
  BY FlightMoves DEF Is
<1> QED
  BY <1>1, <1>2 DEF ClientFlight, ServerFlight, ClientPending, ServerPending, Memory,
      Ops, IisOps, WinHttpOps

NoMore == ClientFlight' <= ClientFlight /\ ServerFlight' <= ServerFlight

Begins == ProcessRequest \/ ProcessRequestCall

\* No step adds to a loop, but ProcessRequest, which starts them.
LEMMA NothingAdded ==
    ASSUME WebSocketHandlerAssumption, Control, Memory, [Next]_vars
    PROVE  NoMore \/ Begins
<1> USE DEF NoMore, Begins
<1>0. /\ InFlight(ClientLoop) \in Nat /\ InFlight(ServerLoop) \in Nat
      /\ ClientPending \in Nat /\ ServerPending \in Nat
      /\ ClientFlight = InFlight(ClientLoop) + ClientPending /\ ClientFlight \in Nat
      /\ ServerFlight = InFlight(ServerLoop) + ServerPending /\ ServerFlight \in Nat
      /\ ClientFlight' = InFlight(ClientLoop)' + ClientPending'
      /\ ServerFlight' = InFlight(ServerLoop)' + ServerPending'
  BY FlightTyped DEF Memory, ClientFlight, ServerFlight, ClientPending, ServerPending,
      Ops, IisOps, WinHttpOps
<1>1. ASSUME NEW w \in Workers, HandlerStep(w)
     PROVE  NoMore \/ Begins
  <2>2. /\ \A u \in Threads \ {w} : call'[u] = call[u]
        /\ \A u \in Workers \ {w} : op'[u] = op[u]
        /\ w \in Threads
    BY <1>1 DEF HandlerStep, Control, Threads, lockVars, ioVars, sockVars, fwdVars,
        actVars
  <2>3. CASE \E l \in {"leave", "leaveFailed"} : Goto(w, l)
    BY <1>1, <2>2, <2>3, AddsNothing DEF HandlerStep
  <2>4. CASE Goto(w, "call") /\ \E o \in Ops : Follows(op[w], o) /\ call' = [call EXCEPT ![w] = o]
    <3>1. PICK o \in Ops : Follows(op[w], o) /\ call'[w] = o
      BY <2>2, <2>4 DEF Control
    <3>2. /\ pc[w] = "enter" /\ UNCHANGED pending
          /\ op[w] \in ClientLoop <=> call'[w] \in ClientLoop
          /\ op[w] \in ServerLoop <=> call'[w] \in ServerLoop
      BY <1>1, <3>1 DEF HandlerStep, Follows, ClientLoop, ServerLoop
    <3>3. InFlight(ClientLoop)' = InFlight(ClientLoop)
      BY <1>0, <2>2, <2>4, <3>2, FlightMoves DEF Is
    <3>4. InFlight(ServerLoop)' = InFlight(ServerLoop)
      BY <1>0, <2>2, <2>4, <3>2, FlightMoves DEF Is
    <3> QED
      BY <1>0, <3>2, <3>3, <3>4 DEF ClientPending, ServerPending
  <2> QED
    BY <1>1, <2>3, <2>4 DEF HandlerStep
<1>2. ASSUME NEW w \in Workers, NEW o \in Ops,
             NEW p \in Threads \cup {None}, DeliverStep(w, o, p)
     PROVE  NoMore \/ Begins
  <2>2. /\ \A u \in Threads \ {w} : call'[u] = call[u]
        /\ \A u \in Workers \ {w} : op'[u] = op[u]
        /\ w \in Threads
    BY <1>2 DEF DeliverStep, Control, Threads, lockVars, ioVars, sockVars, fwdVars,
        actVars
  <2>3. /\ o \in ClientLoop => ClientPending' = ClientPending - 1 /\ ServerPending' = ServerPending
        /\ o \in ServerLoop => ServerPending' = ServerPending - 1 /\ ClientPending' = ClientPending
        /\ o \in ClientLoop <=> o \notin ServerLoop
    BY <1>2, <1>0 DEF DeliverStep, ClientPending, ServerPending, Memory, ClientLoop,
        ServerLoop, Ops, IisOps, WinHttpOps
  <2>4. /\ op'[w] = o /\ pc[w] = "idle"
        /\ \E l \in {"enter", "cleanup", "decrement"} : Goto(w, l)
    BY <1>2 DEF DeliverStep, Control
  <2>5. /\ InFlight(ClientLoop)' \in Int
        /\ o \in ServerLoop => InFlight(ClientLoop)' <= InFlight(ClientLoop)
        /\ InFlight(ClientLoop)' <= InFlight(ClientLoop) + 1
    BY <1>0, <2>2, <2>3, <2>4, FlightMoves DEF Is
  <2>6. /\ InFlight(ServerLoop)' \in Int
        /\ o \in ClientLoop => InFlight(ServerLoop)' <= InFlight(ServerLoop)
        /\ InFlight(ServerLoop)' <= InFlight(ServerLoop) + 1
    BY <1>0, <2>2, <2>3, <2>4, FlightMoves DEF Is
  <2> QED
    BY <1>0, <2>3, <2>5, <2>6
<1>3. ASSUME NEW w \in Workers, Call(w)
     PROVE  NoMore \/ Begins
  <2>2. /\ \A u \in Threads \ {w} : call'[u] = call[u]
        /\ \A u \in Workers \ {w} : op'[u] = op[u]
        /\ w \in Threads
    BY <1>3 DEF Call, Control, Threads, lockVars, ioVars, sockVars, fwdVars, actVars
  <2>3. pc[w] = "call" /\ call[w] \in Ops /\ call' = call
    BY <1>3, <2>2 DEF Call, Control, actVars
  <2>4. CASE CallSucceeds(w)
    <3>1. Goto(w, "leave") /\ pending' = [pending EXCEPT ![call[w]] = @ + 1]
      BY <2>4 DEF CallSucceeds
    <3>2. /\ call[w] \in ClientLoop => ClientPending' = ClientPending + 1 /\ ServerPending' = ServerPending
          /\ call[w] \in ServerLoop => ServerPending' = ServerPending + 1 /\ ClientPending' = ClientPending
          /\ call[w] \in ClientLoop <=> call[w] \notin ServerLoop
      BY <1>0, <2>3, <3>1 DEF ClientPending, ServerPending, Memory, ClientLoop,
          ServerLoop, Ops, IisOps, WinHttpOps
    <3>3. InFlight(ClientLoop)' = InFlight(ClientLoop) - Is(call[w] \in ClientLoop)
      BY <1>0, <2>2, <2>3, <3>1, FlightMoves DEF Is
    <3>4. InFlight(ServerLoop)' = InFlight(ServerLoop) - Is(call[w] \in ServerLoop)
      BY <1>0, <2>2, <2>3, <3>1, FlightMoves DEF Is
    <3> QED
      BY <1>0, <3>2, <3>3, <3>4 DEF Is
  <2>5. CASE CallFails(w)
    BY <2>2, <2>5, AddsNothing DEF CallFails
  <2> QED
    BY <1>3, <2>4, <2>5 DEF Call
<1>4. ASSUME NEW w \in Workers, Leave(w)
     PROVE  NoMore \/ Begins
  <2>1. PICK l \in {"decrement", "cleanup"} : Goto(w, l)
    BY <1>4 DEF Leave
  <2>2. /\ UNCHANGED pending
        /\ \A u \in Threads \ {w} : call'[u] = call[u]
        /\ \A u \in Workers \ {w} : op'[u] = op[u]
    BY <1>4 DEF Leave, Control, Threads, lockVars, ioVars, sockVars, fwdVars, actVars
  <2>3. w \in Threads
    BY DEF Threads
  <2> QED
    BY <2>1, <2>2, <2>3, AddsNothing
<1>5. ASSUME NEW w \in Workers, CleanupBegin(w)
     PROVE  NoMore \/ Begins
  <2>1. PICK l \in {"decrement", "close"} : Goto(w, l)
    BY <1>5 DEF CleanupBegin
  <2>2. /\ UNCHANGED pending
        /\ \A u \in Threads \ {w} : call'[u] = call[u]
        /\ \A u \in Workers \ {w} : op'[u] = op[u]
    BY <1>5 DEF CleanupBegin, Control, Threads, lockVars, ioVars, sockVars, fwdVars,
        actVars
  <2>3. w \in Threads
    BY DEF Threads
  <2> QED
    BY <2>1, <2>2, <2>3, AddsNothing
<1>6. ASSUME NEW w \in Workers, CleanupEnd(w)
     PROVE  NoMore \/ Begins
  <2>1. PICK l \in {"decrement"} : Goto(w, l)
    BY <1>6 DEF CleanupEnd
  <2>2. /\ UNCHANGED pending
        /\ \A u \in Threads \ {w} : call'[u] = call[u]
        /\ \A u \in Workers \ {w} : op'[u] = op[u]
    BY <1>6 DEF CleanupEnd, Control, Threads, lockVars, ioVars, sockVars, fwdVars,
        actVars
  <2>3. w \in Threads
    BY DEF Threads
  <2> QED
    BY <2>1, <2>2, <2>3, AddsNothing
<1>7. ASSUME NEW w \in Workers, DecrementOutstandingIo(w)
     PROVE  NoMore \/ Begins
  <2>1. PICK l \in {"last", "idle"} : Goto(w, l)
    BY <1>7 DEF DecrementOutstandingIo, Retire
  <2>2. /\ UNCHANGED pending
        /\ \A u \in Threads \ {w} : call'[u] = call[u]
        /\ \A u \in Workers \ {w} : op'[u] = op[u]
    BY <1>7 DEF DecrementOutstandingIo, Retire, Control, Threads, lockVars, ioVars,
        sockVars, fwdVars, actVars
  <2>3. w \in Threads
    BY DEF Threads
  <2> QED
    BY <2>1, <2>2, <2>3, AddsNothing
<1>8. ASSUME NEW w \in Workers, IndicateCompletionToIIS(w)
     PROVE  NoMore \/ Begins
  <2>1. PICK l \in {"completion", "idle"} : Goto(w, l)
    BY <1>8 DEF IndicateCompletionToIIS, Retire
  <2>2. /\ UNCHANGED pending
        /\ \A u \in Threads \ {w} : call'[u] = call[u]
        /\ \A u \in Workers \ {w} : op'[u] = op[u]
    BY <1>8 DEF IndicateCompletionToIIS, Retire, Control, Threads, lockVars, ioVars,
        sockVars, fwdVars, actVars
  <2>3. w \in Threads
    BY DEF Threads
  <2> QED
    BY <2>1, <2>2, <2>3, AddsNothing
<1>9. ASSUME NEW w \in Workers, OnAsyncCompletionDone(w)
     PROVE  NoMore \/ Begins
  <2>1. PICK l \in {"idle"} : Goto(w, l)
    BY <1>9 DEF OnAsyncCompletionDone, Retire
  <2>2. /\ UNCHANGED pending
        /\ \A u \in Threads \ {w} : call'[u] = call[u]
        /\ \A u \in Workers \ {w} : op'[u] = op[u]
    BY <1>9 DEF OnAsyncCompletionDone, Retire, Control, Threads, lockVars, ioVars,
        sockVars, fwdVars, actVars
  <2>3. w \in Threads
    BY DEF Threads
  <2> QED
    BY <2>1, <2>2, <2>3, AddsNothing
<1>10. ASSUME NEW o \in Ops, Misroute(o)
     PROVE  NoMore \/ Begins
  <2>1. UNCHANGED <<InFlight(ClientLoop), InFlight(ServerLoop)>>
    BY <1>10 DEF Misroute, InFlight, actVars
  <2>2. ClientPending' <= ClientPending /\ ServerPending' <= ServerPending
    BY <1>10 DEF Misroute, Memory, ClientPending, ServerPending, Ops, IisOps, WinHttpOps
  <2>3. ClientPending' \in Int /\ ServerPending' \in Int
    BY <1>10 DEF Misroute, Memory, ClientPending, ServerPending, Ops, IisOps, WinHttpOps
  <2> QED
    BY <1>0, <2>1, <2>2, <2>3
<1>11. ASSUME ProcessRequest  PROVE NoMore \/ Begins
  BY <1>11
<1>12. ASSUME ProcessRequestCall  PROVE NoMore \/ Begins
  BY <1>12
<1>13. ASSUME ProcessRequestLeave  PROVE NoMore \/ Begins
  <2>1. PICK l \in {"started", "failure"} : Goto(Starter, l)
    BY <1>13 DEF ProcessRequestLeave
  <2>2. /\ UNCHANGED pending
        /\ \A u \in Threads \ {Starter} : call'[u] = call[u]
        /\ \A u \in Workers \ {Starter} : op'[u] = op[u]
    BY <1>13 DEF ProcessRequestLeave, Control, Threads, lockVars, ioVars, sockVars,
        fwdVars, actVars
  <2>3. Starter \in Threads
    BY DEF Threads
  <2> QED
    BY <2>1, <2>2, <2>3, AddsNothing
<1>14. ASSUME OnAsyncCompletionStarted  PROVE NoMore \/ Begins
  <2>1. PICK l \in {"leaving"} : Goto(Starter, l)
    BY <1>14 DEF OnAsyncCompletionStarted
  <2>2. /\ UNCHANGED pending
        /\ \A u \in Threads \ {Starter} : call'[u] = call[u]
        /\ \A u \in Workers \ {Starter} : op'[u] = op[u]
    BY <1>14 DEF OnAsyncCompletionStarted, Control, Threads, lockVars, ioVars,
        sockVars, fwdVars, actVars
  <2>3. Starter \in Threads
    BY DEF Threads
  <2> QED
    BY <2>1, <2>2, <2>3, AddsNothing
<1>15. ASSUME OnAsyncCompletionFailure  PROVE NoMore \/ Begins
  <2>1. PICK l \in {"leavingFailed"} : Goto(Starter, l)
    BY <1>15 DEF OnAsyncCompletionFailure
  <2>2. /\ UNCHANGED pending
        /\ \A u \in Threads \ {Starter} : call'[u] = call[u]
        /\ \A u \in Workers \ {Starter} : op'[u] = op[u]
    BY <1>15 DEF OnAsyncCompletionFailure, Control, Threads, lockVars, ioVars,
        sockVars, fwdVars, actVars
  <2>3. Starter \in Threads
    BY DEF Threads
  <2> QED
    BY <2>1, <2>2, <2>3, AddsNothing
<1>16. ASSUME OnAsyncCompletionReturn  PROVE NoMore \/ Begins
  <2>1. PICK l \in {"done", "doneFailed"} : Goto(Starter, l)
    BY <1>16 DEF OnAsyncCompletionReturn
  <2>2. /\ UNCHANGED pending
        /\ \A u \in Threads \ {Starter} : call'[u] = call[u]
        /\ \A u \in Workers \ {Starter} : op'[u] = op[u]
    BY <1>16 DEF OnAsyncCompletionReturn, Control, Threads, lockVars, ioVars, sockVars,
        fwdVars, actVars
  <2>3. Starter \in Threads
    BY DEF Threads
  <2> QED
    BY <2>1, <2>2, <2>3, AddsNothing
<1>17. ASSUME DestroyModule  PROVE NoMore \/ Begins
  <2>1. UNCHANGED <<ClientFlight, ServerFlight>>
    BY <1>17 DEF DestroyModule, ClientFlight, ServerFlight, ClientPending,
        ServerPending, InFlight, lockVars, ioVars, sockVars, fwdVars, actVars
  <2> QED
    BY <1>0, <2>1
<1>18. CASE UNCHANGED vars
  <2>1. UNCHANGED <<ClientFlight, ServerFlight>>
    BY <1>18 DEF vars, ClientFlight, ServerFlight, ClientPending, ServerPending,
        InFlight, lockVars, ioVars, sockVars, fwdVars, actVars
  <2> QED
    BY <1>0, <2>1
<1> QED
  BY <1>1, <1>2, <1>3, <1>4, <1>5, <1>6, <1>7, <1>8, <1>9,
     <1>10, <1>11, <1>12, <1>13, <1>14, <1>15, <1>16, <1>17, <1>18, NextSteps

ReadsFirst == pc[Starter] = "call" /\ call[Starter] = "IisReceive"

\* The starter issues its first read once.
LEMMA StarterCall ==
    ASSUME WebSocketHandlerAssumption, Control, pc'[Starter] = "call",
        call'[Starter] = "IisReceive", [Next]_vars
    PROVE  ReadsFirst \/ ProcessRequest
<1> USE DEF ReadsFirst, WebSocketHandlerAssumption, Control, Threads, Goto, Retire,
    lockVars, ioVars, sockVars, fwdVars, actVars
<1>1. ASSUME NEW w \in Workers, HandlerStep(w)
     PROVE  ReadsFirst \/ ProcessRequest
  BY <1>1 DEF HandlerStep
<1>2. ASSUME NEW w \in Workers, NEW o \in Ops,
             NEW p \in Threads \cup {None}, DeliverStep(w, o, p)
     PROVE  ReadsFirst \/ ProcessRequest
  BY <1>2 DEF DeliverStep
<1>3. ASSUME NEW w \in Workers, Call(w)
     PROVE  ReadsFirst \/ ProcessRequest
  BY <1>3 DEF Call, CallSucceeds, CallFails
<1>4. ASSUME NEW w \in Workers, Leave(w)
     PROVE  ReadsFirst \/ ProcessRequest
  BY <1>4 DEF Leave
<1>5. ASSUME NEW w \in Workers, CleanupBegin(w)
     PROVE  ReadsFirst \/ ProcessRequest
  BY <1>5 DEF CleanupBegin
<1>6. ASSUME NEW w \in Workers, CleanupEnd(w)
     PROVE  ReadsFirst \/ ProcessRequest
  BY <1>6 DEF CleanupEnd
<1>7. ASSUME NEW w \in Workers, DecrementOutstandingIo(w)
     PROVE  ReadsFirst \/ ProcessRequest
  BY <1>7 DEF DecrementOutstandingIo
<1>8. ASSUME NEW w \in Workers, IndicateCompletionToIIS(w)
     PROVE  ReadsFirst \/ ProcessRequest
  BY <1>8 DEF IndicateCompletionToIIS
<1>9. ASSUME NEW w \in Workers, OnAsyncCompletionDone(w)
     PROVE  ReadsFirst \/ ProcessRequest
  BY <1>9 DEF OnAsyncCompletionDone
<1>10. ASSUME NEW o \in Ops, Misroute(o)
     PROVE  ReadsFirst \/ ProcessRequest
  BY <1>10 DEF Misroute
<1>11. ASSUME ProcessRequest  PROVE ReadsFirst \/ ProcessRequest
  BY <1>11
<1>12. ASSUME ProcessRequestCall  PROVE ReadsFirst \/ ProcessRequest
  BY <1>12 DEF ProcessRequestCall, CallSucceeds, CallFails, Issue,
      IncrementOutstandingIo, DoWinHttpWebSocketReceive
<1>13. ASSUME ProcessRequestLeave  PROVE ReadsFirst \/ ProcessRequest
  BY <1>13 DEF ProcessRequestLeave
<1>14. ASSUME OnAsyncCompletionStarted  PROVE ReadsFirst \/ ProcessRequest
  BY <1>14 DEF OnAsyncCompletionStarted
<1>15. ASSUME OnAsyncCompletionFailure  PROVE ReadsFirst \/ ProcessRequest
  BY <1>15 DEF OnAsyncCompletionFailure
<1>16. ASSUME OnAsyncCompletionReturn  PROVE ReadsFirst \/ ProcessRequest
  BY <1>16 DEF OnAsyncCompletionReturn
<1>17. ASSUME DestroyModule  PROVE ReadsFirst \/ ProcessRequest
  BY <1>17 DEF DestroyModule
<1>18. CASE UNCHANGED vars
  BY <1>18 DEF vars, lockVars, ioVars, sockVars, fwdVars, actVars
<1> QED
  BY <1>1, <1>2, <1>3, <1>4, <1>5, <1>6, <1>7, <1>8, <1>9,
     <1>10, <1>11, <1>12, <1>13, <1>14, <1>15, <1>16, <1>17, <1>18, NextSteps

\* Nothing is in flight before ProcessRequest.
LEMMA NothingInFlight ==
    ASSUME WebSocketHandlerAssumption, pc[Starter] = "start",
           \A w \in Workers : pc[w] = "idle", NEW CONSTANT loop
    PROVE  InFlight(loop) = 0
<1>1. Entering(loop) = {} /\ Calling(loop) = {}
  BY DEF Entering, Calling, Threads
<1>2. InFlight(loop) = Cardinality(Entering(loop)) + Cardinality(Calling(loop))
  BY DEF InFlight, Entering, Calling
<1> QED
  BY <1>1, <1>2, FS_EmptySet

\* Each loop has one operation or handler, the second since the first read of
\* the backend.
LEMMA NextLoops ==
    ASSUME WebSocketHandlerAssumption, Control, Memory, Untouched, Loops, [Next]_vars,
        Memory'
    PROVE  Loops'
<1>0. InFlight(ClientLoop)' \in Nat /\ InFlight(ServerLoop)' \in Nat
  <2>1. ASSUME NEW CONSTANT loop  PROVE InFlight(loop)' \in Nat
    <3>1. IsFiniteSet(Threads)
      BY FS_AddElement DEF WebSocketHandlerAssumption, Threads
    <3>2. Entering(loop)' \in SUBSET Threads /\ Calling(loop)' \in SUBSET Threads
      BY DEF Entering, Calling, Threads
    <3>3. InFlight(loop)' = Cardinality(Entering(loop)') + Cardinality(Calling(loop)')
      BY DEF InFlight, Entering, Calling
    <3> QED
      BY <3>1, <3>2, <3>3, FS_Subset, FS_CardinalityType
  <2> QED
    BY <2>1
<1>1. /\ ClientFlight \in Nat /\ ServerFlight \in Nat
      /\ ClientFlight' \in Nat /\ ServerFlight' \in Nat
  BY <1>0, FlightTyped DEF Memory, ClientFlight, ServerFlight, ClientPending,
      ServerPending,
                           Ops, IisOps, WinHttpOps
<1>2. /\ InFlight(ClientLoop) \in Nat /\ InFlight(ServerLoop) \in Nat
      /\ ClientPending \in Nat /\ ServerPending \in Nat
  BY FlightTyped DEF Memory, ClientPending, ServerPending, Ops, IisOps, WinHttpOps
<1>3. /\ ClientFlight <= 1 /\ ServerFlight <= 1
      /\ pc[Starter] = "call" /\ call[Starter] = "IisReceive" => ServerFlight = 0
  BY <1>2 DEF Loops, OneStepPerLoop, ClientFlight, ServerFlight, ClientPending,
      ServerPending,
              Memory, Ops, IisOps, WinHttpOps
<1>4. SUFFICES /\ ClientFlight' <= 1 /\ ServerFlight' <= 1
               /\ pc'[Starter] = "call" /\ call'[Starter] = "IisReceive" => ServerFlight' = 0
  BY <1>0 DEF Loops, OneStepPerLoop, ClientFlight, ServerFlight, ClientPending,
      ServerPending,
              Memory, Ops, IisOps, WinHttpOps
<1>5. CASE ProcessRequest
  <2>1. /\ pc[Starter] = "start" /\ UNCHANGED <<op, pending>>
        /\ \A u \in Threads \ {Starter} : call'[u] = call[u]
        /\ \E l \in {"call", "leaveFailed"} :
               Goto(Starter, l) /\ (l = "call" => call'[Starter] = "IisReceive")
    BY <1>5 DEF ProcessRequest, Issue, Fail, DoIisWebSocketReceive, Control, Threads
  <2>2. Starter \in Threads /\ Starter \notin Workers
    BY DEF Threads, WebSocketHandlerAssumption
  <2>3. /\ InFlight(ClientLoop) = 0 /\ InFlight(ServerLoop) = 0
        /\ ClientPending' = 0 /\ ServerPending' = 0
    BY <2>1, NothingInFlight DEF Untouched, ClientPending, ServerPending, Ops, IisOps,
        WinHttpOps
  <2>4. InFlight(ClientLoop)' \in Int /\ InFlight(ClientLoop)' <= 1
    BY <2>1, <2>2, <2>3, FlightMoves DEF Is
  <2>5. InFlight(ServerLoop)' = 0
    <3>1. "IisReceive" \notin ServerLoop
      BY DEF ServerLoop
    <3> QED
      BY <2>1, <2>2, <2>3, <3>1, FlightMoves DEF Is
  <2> QED
    BY <2>3, <2>4, <2>5 DEF ClientFlight, ServerFlight
<1>6. CASE ProcessRequestCall
  <2>1. /\ pc[Starter] = "call" /\ UNCHANGED op /\ Starter \in Threads /\ Starter \notin Workers
        /\ \A u \in Threads \ {Starter} : call'[u] = call[u]
    BY <1>6 DEF ProcessRequestCall, DoWinHttpWebSocketReceive, Issue, Control, Threads,
        WebSocketHandlerAssumption
  <2>2. CASE /\ call[Starter] = "IisReceive" /\ DoWinHttpWebSocketReceive(Starter)
             /\ pending' = [pending EXCEPT !["IisReceive"] = @ + 1]
    <3>1. Goto(Starter, "call") /\ call'[Starter] = "WinHttpReceive"
      BY <2>2 DEF DoWinHttpWebSocketReceive, Issue, Control, Threads
    <3>2. ClientPending' = ClientPending + 1 /\ ServerPending' = ServerPending
      BY <2>2 DEF ClientPending, ServerPending, Memory, Ops, IisOps, WinHttpOps
    <3>3. /\ "IisReceive" \in ClientLoop /\ "IisReceive" \notin ServerLoop
          /\ "WinHttpReceive" \notin ClientLoop /\ "WinHttpReceive" \in ServerLoop
      BY DEF ClientLoop, ServerLoop
    <3>4. InFlight(ClientLoop)' = InFlight(ClientLoop) - 1
      BY <1>2, <2>1, <2>2, <3>1, <3>3, FlightMoves DEF Is
    <3>5. InFlight(ServerLoop)' = InFlight(ServerLoop) + 1
      BY <1>2, <2>1, <2>2, <3>1, <3>3, FlightMoves DEF Is
    <3> QED
      BY <1>2, <1>3, <2>1, <2>2, <3>1, <3>2, <3>4, <3>5 DEF ClientFlight, ServerFlight
  <2>3. CASE call[Starter] = "WinHttpReceive" /\ CallSucceeds(Starter) /\ UNCHANGED call
    <3>1. Goto(Starter, "leave") /\ pc'[Starter] = "leave"
      BY <2>1, <2>3 DEF CallSucceeds, Goto, Control
    <3>2. ClientPending' = ClientPending /\ ServerPending' = ServerPending + 1
      BY <2>3 DEF CallSucceeds, ClientPending, ServerPending, Memory, Ops, IisOps,
          WinHttpOps
    <3>3. "WinHttpReceive" \notin ClientLoop /\ "WinHttpReceive" \in ServerLoop
      BY DEF ClientLoop, ServerLoop
    <3>4. InFlight(ClientLoop)' = InFlight(ClientLoop)
      BY <1>2, <2>1, <2>3, <3>1, <3>3, FlightMoves DEF Is
    <3>5. InFlight(ServerLoop)' = InFlight(ServerLoop) - 1
      BY <1>2, <2>1, <2>3, <3>1, <3>3, FlightMoves DEF Is
    <3> QED
      BY <1>2, <1>3, <3>1, <3>2, <3>4, <3>5 DEF ClientFlight, ServerFlight
  <2>4. CASE CallFails(Starter)
    <3>1. Goto(Starter, "leaveFailed") /\ pc'[Starter] = "leaveFailed" /\ UNCHANGED pending
      BY <2>1, <2>4 DEF CallFails, Goto, Control
    <3> QED
      BY <1>1, <1>3, <2>1, <3>1, AddsNothing
  <2> QED
    BY <1>6, <2>2, <2>3, <2>4 DEF ProcessRequestCall
<1> QED
  <2>1. CASE ClientFlight' <= ClientFlight /\ ServerFlight' <= ServerFlight /\ ~ProcessRequest
    BY <1>1, <1>3, <2>1, StarterCall DEF ReadsFirst
  <2> QED
    BY <1>5, <1>6, <2>1, NothingAdded DEF NoMore, Begins

-----------------------------------------------------------------------------
(* The theorems.                                                           *)

\* The invariant holds at first, and every step keeps it.
LEMMA InitInv == ASSUME WebSocketHandlerAssumption, Init  PROVE IInv
<1> USE DEF WebSocketHandlerAssumption, Init, Threads, Ops, IisOps, WinHttpOps
<1>1. Types
  <2>1. Control
    BY DEF Control, WorkerLabels, StarterLabels
  <2>2. Memory
    <3>1. fCleanup \in BOOLEAN /\ fIndicate = fCleanup
      OBVIOUS
    <3>2. /\ pending \in [Ops -> Nat] /\ result \in [Workers -> {"ok", "failed"}]
          /\ hRequest \in BOOLEAN /\ ioCancelled \in BOOLEAN
      OBVIOUS
    <3> QED
      BY <3>1, <3>2 DEF Memory
  <2>3. Locking
    BY DEF Locking
  <2> QED
    BY <2>1, <2>2, <2>3 DEF Types
<1>2. Stack /\ Untouched /\ Reading /\ Handle
  BY DEF Stack, Holding, Untouched, Reading, Handle, UsesOpenHandle
<1>3. Last
  BY DEF Last
<1>4. Counted
  <2>1. Active = {} /\ Issuing = {} /\ PendingIo = 0
    BY DEF Active, Issuing, InHandler, PendingIo
  <2> QED
    BY <2>1, FS_EmptySet DEF Counted, OutstandingIsExact
<1>5. Loops
  <2>1. InFlight(ClientLoop) = 0 /\ InFlight(ServerLoop) = 0
    BY NothingInFlight
  <2> QED
    BY <2>1 DEF Loops, OneStepPerLoop
<1> QED
  BY <1>1, <1>2, <1>3, <1>4, <1>5 DEF IInv

\* Every step keeps the invariant.
LEMMA NextInv == ASSUME WebSocketHandlerAssumption, IInv, [Next]_vars  PROVE IInv'
<1>1. Control' /\ Memory' /\ Locking' /\ Stack' /\ Untouched'
  BY NextControl, NextMemory, NextLocking, NextStack, NextUntouched DEF IInv, Types
<1>2. Counted' /\ Last' /\ Reading' /\ Loops' /\ Handle'
  BY <1>1, NextCounted, NextLast, NextReading, NextLoops, NextHandle DEF IInv, Types
<1> QED
  BY <1>1, <1>2 DEF IInv, Types

\* The invariant holds in every reachable state.
LEMMA Invariance == Spec => []IInv
BY InitInv, NextInv, WebSocketHandlerAssumption, PTL DEF Spec

\* A count of zero means that nothing runs.
LEMMA ZeroIsIdle ==
    ASSUME WebSocketHandlerAssumption, IInv, ~StartFailed, outstanding = 0
    PROVE  PendingIo = 0 /\ Active = {} /\ Issuing = {}
<1>1. Load = 0 /\ PendingIo \in Nat
  BY LoadTyped DEF IInv, Types, Counted, OutstandingIsExact, Load
<1>2. Cardinality(Active) = 0 /\ Cardinality(Issuing) = 0 /\ PendingIo = 0
  BY <1>1, ThreadsFinite DEF Load
<1> QED
  BY <1>2, ThreadsFinite, FS_EmptySet

\* Every variable has its type: above all _dwOutstandingIo is never negative.
THEOREM TypeOKTheorem == Spec => []TypeOK
<1>1. ASSUME IInv  PROVE TypeOK
  <2>1. outstanding \in Nat
    BY <1>1, LoadTyped, WebSocketHandlerAssumption DEF IInv, Types, Memory, Counted,
        Load
  <2>2. pc \in [Threads -> InHandler \cup {"idle", "last", "completion", "start",
            "started", "failure", "leaving", "leavingFailed", "done", "doneFailed"}]
    <3>1. WorkerLabels \cup StarterLabels \subseteq InHandler \cup {"idle", "last", "completion",
             "start", "started", "failure", "leaving", "leavingFailed", "done", "doneFailed"}
      BY DEF WorkerLabels, StarterLabels, InHandler
    <3> QED
      BY <1>1, <3>1 DEF IInv, Types, Control
  <2>3. fCleanup \in BOOLEAN /\ fIndicate \in BOOLEAN
    BY <1>1 DEF IInv, Types, Memory
  <2> QED
    BY <1>1, <2>1, <2>2, <2>3 DEF IInv, Types, Control, Memory, Locking, TypeOK
<1> QED
  BY <1>1, Invariance, PTL

\* _dwOutstandingIo counts the operations, handlers and calls under way.
THEOREM OutstandingIsExactTheorem == Spec => []OutstandingIsExact
<1>1. ASSUME IInv  PROVE OutstandingIsExact
  BY <1>1 DEF IInv, Counted
<1> QED
  BY <1>1, Invariance, PTL

\* IIS hears of the completion once, when nothing of the websocket runs.
THEOREM CompletionIsLastTheorem == Spec => []CompletionIsLast
<1>1. ASSUME IInv  PROVE CompletionIsLast
  BY <1>1, ZeroIsIdle, WebSocketHandlerAssumption DEF IInv, Last, CompletionIsLast
<1> QED
  BY <1>1, Invariance, PTL

\* The count does not reach zero before a cleanup has said who completes the
\* request: the loop from the backend is still reading.
THEOREM NeverStrandedTheorem == Spec => []NeverStranded
<1>1. ASSUME IInv, pc[Starter] \in {"started", "leaving", "done"}, outstanding = 0
      PROVE  fIndicate
  <2>1. PendingIo = 0 /\ Active = {}
    BY <1>1, ZeroIsIdle, WebSocketHandlerAssumption DEF StartFailed
  <2>2. pending["WinHttpReceive"] = 0 /\ pending["IisSend"] = 0
    BY <1>1, <2>1 DEF IInv, Types, Memory, PendingIo, Ops, IisOps, WinHttpOps
  <2>3. \A w \in Workers : pc[w] \notin InHandler
    BY <2>1 DEF Active
  <2> QED
    BY <1>1, <2>2, <2>3 DEF IInv, Types, Memory, Reading, InHandler
<1> QED
  BY <1>1, Invariance, PTL DEF NeverStranded

\* Each loop has one operation or handler in flight, and so one user of its
\* buffer.
THEOREM OneStepPerLoopTheorem == Spec => []OneStepPerLoop
<1>1. ASSUME IInv  PROVE OneStepPerLoop
  BY <1>1 DEF IInv, Loops
<1> QED
  BY <1>1, Invariance, PTL

\* No WinHTTP operation is issued on a websocket handle that is closed.
THEOREM UsesOpenHandleTheorem == Spec => []UsesOpenHandle
<1>1. ASSUME IInv  PROVE UsesOpenHandle
  BY <1>1 DEF IInv, Handle
<1> QED
  BY <1>1, Invariance, PTL

===============================================================================
