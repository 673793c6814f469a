-------------------------- MODULE WebSocketHandler --------------------------
(***************************************************************************)
(* WEBSOCKET_HANDLER: the two read/write loops of an upgraded request (the *)
(* client through IIS, the backend through WinHTTP), and the part of the   *)
(* FORWARDING_HANDLER that starts it, routes its completions and frees it. *)
(*                                                                         *)
(* Each completion is an activation: a worker thread that runs one On...-  *)
(* Complete handler to its end.  Handlers of one object serialise on       *)
(* _RequestLock, a recursive critical section, but the outstanding-IO      *)
(* count and the test that ends the request are outside it.  WinHTTP may   *)
(* call back on the thread that issued the operation or closed the handle, *)
(* before that call returns (forwardinghandler.cxx:2078); such an          *)
(* activation has a parent and may re-enter the lock the parent holds.     *)
(* IIS completes on a thread of its own.                                   *)
(***************************************************************************)
EXTENDS Integers, FiniteSets, Sequences

CONSTANTS
    Workers,    \* threads that run completions: bounds the activations
    Starter,    \* the thread in OnAsyncCompletion that starts the handler
    None

ASSUME WebSocketHandlerAssumption ==
    /\ IsFiniteSet(Workers)
    /\ Starter \notin Workers /\ None \notin Workers \cup {Starter}

VARIABLES
    lock,           \* holders of _RequestLock, innermost last
    outstanding,    \* _dwOutstandingIo
    pending,        \* the operations IIS and WinHTTP are working on
    fCleanup,       \* _fCleanupInProgress
    fIndicate,      \* _fIndicateCompletionToIis
    hSocket,        \* _hWebSocketRequest: "uninit", "open" or "null"
    ioCancelled,    \* CancelIo was called on the IHttpContext
    hRequest,       \* FORWARDING_HANDLER::m_hRequest is open
    status,         \* m_RequestStatus: "websocket" or "done"
    refs,           \* FORWARDING_HANDLER::m_cRefs
    indicated,      \* number of IndicateCompletion and PostCompletion calls
    answer,         \* what OnAsyncCompletion finally told IIS, and then
                    \* "destroyed", once the module is gone
    pc,             \* where each thread is
    op,             \* the operation whose completion a worker runs
    result,         \* that completion's status: "ok" or "failed"
    call,           \* the operation a thread issues, or issued last
    parent          \* the thread a worker runs on top of, or None

lockVars == <<lock, parent>>
ioVars   == <<outstanding, pending>>
sockVars == <<fCleanup, fIndicate, hSocket, ioCancelled>>
fwdVars  == <<hRequest, status, refs, answer>>
actVars  == <<op, result, call>>
vars == <<lockVars, ioVars, sockVars, fwdVars, indicated, pc, actVars>>

Threads    == Workers \cup {Starter}
IisOps     == {"IisReceive", "IisSend"}
WinHttpOps == {"WinHttpReceive", "WinHttpSend", "WinHttpShutdown"}
Ops        == IisOps \cup WinHttpOps

Init ==
    /\ lock = <<>> /\ parent = [w \in Workers |-> None]
    /\ outstanding = 0 /\ pending = [o \in Ops |-> 0]
    /\ fCleanup = FALSE /\ fIndicate = FALSE
    /\ hSocket = "uninit" /\ ioCancelled = FALSE
    /\ hRequest = TRUE /\ status = "websocket"
    /\ refs = 2 /\ answer = "none" \* the module's and OnAsyncCompletion's own
    /\ indicated = 0
    /\ pc = [t \in Threads |-> IF t = Starter THEN "start" ELSE "idle"]
    /\ op = [w \in Workers |-> None]
    /\ result = [w \in Workers |-> "ok"]
    /\ call = [t \in Threads |-> None]

\* The forwarding handler deletes its websocket handler in its destructor.
\* A completion taken for another's (Misroute) drops a reference too many.
Deleted == refs <= 0

\* A thread waits for the callback it was interrupted by.
Runs(t) == ~Deleted /\ \A w \in Workers : parent[w] # t

\* EnterCriticalSection succeeds on a free lock and on one held further down
\* the same stack.
CanEnter(t) ==
    lock = <<>> \/ (t \in Workers /\ parent[t] # None /\ lock[Len(lock)] = parent[t])

EnterLock(t) == lock' = Append(lock, t)

LeaveLock == lock' = SubSeq(lock, 1, Len(lock) - 1)

Goto(t, l) == pc' = [pc EXCEPT ![t] = l]

\* A worker goes back to the pool; what interrupted thread it ran on goes on.
Retire(w) ==
    /\ Goto(w, "idle")
    /\ parent' = [parent EXCEPT ![w] = None]
    /\ op' = [op EXCEPT ![w] = None]
    /\ result' = [result EXCEPT ![w] = "ok"]
    /\ call' = [call EXCEPT ![w] = None]

-----------------------------------------------------------------------------
(* The outstanding-IO count.                                               *)

IncrementOutstandingIo == outstanding' = outstanding + 1

\* Mutant: the flag alone decides, whatever the count.
DecrementOutstandingIo_AnyCount(w) ==
    /\ Runs(w) /\ pc[w] = "decrement"
    /\ outstanding' = outstanding - 1 /\ Goto(w, "last")
    /\ UNCHANGED <<lockVars, pending, sockVars, fwdVars, indicated, actVars>>

\* The interlocked decrement; only whoever reaches zero looks further.
\* Afterwards the object may be gone.
DecrementOutstandingIo(w) ==
    /\ Runs(w) /\ pc[w] = "decrement"
    /\ outstanding' = outstanding - 1
    /\ \/ outstanding = 1 /\ Goto(w, "last") /\ UNCHANGED <<parent, actVars>>
       \/ outstanding # 1 /\ Retire(w)
    /\ UNCHANGED <<lock, pending, sockVars, fwdVars, indicated>>

\* The unlocked read of _fIndicateCompletionToIis, and the indication.
IndicateCompletionToIIS(w) ==
    /\ Runs(w) /\ pc[w] = "last"
    /\ IF fIndicate
       THEN /\ status' = "done" /\ indicated' = indicated + 1
            /\ Goto(w, "completion") /\ UNCHANGED <<parent, actVars>>
       ELSE Retire(w) /\ UNCHANGED <<status, indicated>>
    /\ UNCHANGED <<lock, ioVars, sockVars, hRequest, refs, answer>>

-----------------------------------------------------------------------------
(* Issuing an operation.  DoX increments the count first (Issue); the API  *)
(* call itself then succeeds, or fails and takes the count back (Call).    *)

Issue(t, o) ==
    /\ IncrementOutstandingIo
    /\ call' = [call EXCEPT ![t] = o]
    /\ Goto(t, "call")

\* The failure of a Do... helper, or of the handler around it.
Fail(t) == Goto(t, "leaveFailed") /\ UNCHANGED <<outstanding, call>>

DoIisWebSocketReceive(t) == Issue(t, "IisReceive")

DoWinHttpWebSocketReceive(t) == Issue(t, "WinHttpReceive")

\* A close frame makes it query the close status, which may fail before
\* anything is counted, and send a close; other frames are written.
DoIisWebSocketSend(t) == Issue(t, "IisSend") \/ Fail(t)

\* A close frame shuts the backend's side down; reading the close status or
\* converting the reason may fail before anything is counted.
DoWinHttpWebSocketSend(t) ==
    Issue(t, "WinHttpSend") \/ Issue(t, "WinHttpShutdown") \/ Fail(t)

\* The API rejects a handle that is gone, and may fail at any time; it
\* cannot succeed on a WinHTTP handle that is gone.
CallSucceeds(t) ==
    /\ call[t] \in WinHttpOps => hSocket = "open"
    /\ pending' = [pending EXCEPT ![call[t]] = @ + 1]
    /\ Goto(t, "leave")
    /\ UNCHANGED outstanding

CallFails_KeepsCount(t) ==
    Goto(t, "leaveFailed") /\ UNCHANGED <<outstanding, pending>>

CallFails(t) ==
    /\ outstanding' = outstanding - 1
    /\ Goto(t, "leaveFailed")
    /\ UNCHANGED pending

Call(w) ==
    /\ Runs(w) /\ pc[w] = "call"
    /\ CallSucceeds(w) \/ CallFails(w)
    /\ UNCHANGED <<lockVars, sockVars, fwdVars, indicated, actVars>>

-----------------------------------------------------------------------------
(* Delivery of completions.                                                *)

Activate(w, o, res, p) ==
    /\ pending[o] > 0 /\ pc[w] = "idle"
    /\ pending' = [pending EXCEPT ![o] = @ - 1]
    /\ op' = [op EXCEPT ![w] = o]
    /\ result' = [result EXCEPT ![w] = res]
    /\ parent' = [parent EXCEPT ![w] = p]
    /\ UNCHANGED <<lock, outstanding, sockVars, fwdVars, indicated, call>>

\* OnReadIoCompletion and OnWriteIoCompletion hand over to the handlers.
DeliverIis(w, o) ==
    /\ o \in IisOps
    /\ \E res \in {"ok", "failed"} : Activate(w, o, res, None)
    /\ Goto(w, "enter")

\* OnWinHttpCompletionInternal routes on m_RequestStatus: a REQUEST_ERROR to
\* OnWinHttpIoError, SHUTDOWN_COMPLETE to OnWinHttpShutdownComplete (it only
\* decrements), the rest to the handler of the operation.
Route(w, o, res) ==
    /\ status = "websocket"
    /\ Goto(w, CASE res = "failed" -> "cleanup"
                 [] res = "ok" /\ o = "WinHttpShutdown" -> "decrement"
                 [] OTHER -> "enter")

DeliverWinHttp(w, o) ==
    /\ o \in WinHttpOps
    /\ \E res \in {"ok", "failed"} : Activate(w, o, res, None) /\ Route(w, o, res)

\* WinHTTP calls back from inside the call that issued the operation, or
\* from WinHttpCloseHandle, which aborts what is pending.
DeliverInline(w, o, t) ==
    /\ o \in WinHttpOps /\ Runs(t)
    /\ \/ /\ pc[t] = "leave" /\ call[t] = o
          /\ \E res \in {"ok", "failed"} : Activate(w, o, res, t) /\ Route(w, o, res)
       \/ /\ pc[t] = "close"
          /\ Activate(w, o, "failed", t) /\ Route(w, o, "failed")

\* Once the status is "done" the same callback is taken for one of the
\* response's: the websocket handler never hears of it.  On a websocket
\* handle each case fails, so the callback drops a reference, which no
\* websocket operation took, and posts a completion, which finds the request
\* answered and changes nothing.
Misroute(o) ==
    /\ ~Deleted
    /\ o \in WinHttpOps /\ status = "done" /\ pending[o] > 0
    /\ pending' = [pending EXCEPT ![o] = @ - 1]
    /\ refs' = refs - 1 /\ indicated' = indicated + 1
    /\ UNCHANGED <<lockVars, outstanding, sockVars, hRequest, status, answer, pc, actVars>>

-----------------------------------------------------------------------------
(* The completion handlers: lock, look at the status and at                *)
(* _fCleanupInProgress, issue the next operation of the loop.              *)

Handles(w, o) == Runs(w) /\ pc[w] = "enter" /\ op[w] = o /\ CanEnter(w)

\* What every handler leaves alone up to its Leave.
Body(w) ==
    /\ EnterLock(w)
    /\ UNCHANGED <<parent, pending, sockVars, fwdVars, indicated, op, result>>

Skip(w) == Goto(w, "leave") /\ UNCHANGED <<outstanding, call>>

OnWinHttpSendComplete(w) ==
    /\ Handles(w, "WinHttpSend")
    /\ IF fCleanup THEN Skip(w) ELSE DoIisWebSocketReceive(w)
    /\ Body(w)

OnWinHttpReceiveComplete(w) ==
    /\ Handles(w, "WinHttpReceive")
    /\ IF fCleanup THEN Skip(w) ELSE DoIisWebSocketSend(w)
    /\ Body(w)

OnIisSendComplete_ReadsClient(w) ==
    /\ Handles(w, "IisSend")
    /\ IF result[w] = "failed" THEN Fail(w)
       ELSE IF fCleanup THEN Skip(w) ELSE DoIisWebSocketReceive(w)
    /\ Body(w)

OnIisSendComplete(w) ==
    /\ Handles(w, "IisSend")
    /\ IF result[w] = "failed" THEN Fail(w)
       ELSE IF fCleanup THEN Skip(w) ELSE DoWinHttpWebSocketReceive(w)
    /\ Body(w)

OnIisReceiveComplete_NoCheck(w) ==
    /\ Handles(w, "IisReceive")
    /\ IF result[w] = "failed" THEN Fail(w) ELSE DoWinHttpWebSocketSend(w)
    /\ Body(w)

OnIisReceiveComplete(w) ==
    /\ Handles(w, "IisReceive")
    /\ IF result[w] = "failed" THEN Fail(w)
       ELSE IF fCleanup THEN Skip(w) ELSE DoWinHttpWebSocketSend(w)
    /\ Body(w)

\* Mutant: the failure is only logged.
Leave_NoCleanup(w) ==
    /\ Runs(w) /\ pc[w] \in {"leave", "leaveFailed"}
    /\ LeaveLock /\ Goto(w, "decrement")
    /\ UNCHANGED <<parent, ioVars, sockVars, fwdVars, indicated, actVars>>

\* LeaveCriticalSection; a failure then runs Cleanup before the decrement.
Leave(w) ==
    /\ Runs(w) /\ pc[w] \in {"leave", "leaveFailed"}
    /\ LeaveLock
    /\ Goto(w, IF pc[w] = "leave" THEN "decrement" ELSE "cleanup")
    /\ UNCHANGED <<parent, ioVars, sockVars, fwdVars, indicated, actVars>>

\* Cleanup, up to WinHttpCloseHandle; only the first one gets that far.
CleanupBegin(w) ==
    /\ Runs(w) /\ pc[w] = "cleanup" /\ CanEnter(w)
    /\ IF fCleanup
       THEN Goto(w, "decrement") /\ UNCHANGED <<lock, fCleanup, fIndicate>>
       ELSE /\ fCleanup' = TRUE /\ fIndicate' = TRUE
            /\ EnterLock(w) /\ Goto(w, "close")
    /\ UNCHANGED <<parent, ioVars, hSocket, ioCancelled, fwdVars, indicated, actVars>>

CleanupEnd_NoCancelIo(w) ==
    /\ Runs(w) /\ pc[w] = "close"
    /\ hSocket' = "null" /\ UNCHANGED ioCancelled
    /\ LeaveLock /\ Goto(w, "decrement")
    /\ UNCHANGED <<parent, ioVars, fCleanup, fIndicate, fwdVars, indicated, actVars>>

\* The rest of it: the handle is closed, IIS is told to cancel.
CleanupEnd(w) ==
    /\ Runs(w) /\ pc[w] = "close"
    /\ hSocket' = "null" /\ ioCancelled' = TRUE
    /\ LeaveLock /\ Goto(w, "decrement")
    /\ UNCHANGED <<parent, ioVars, fCleanup, fIndicate, fwdVars, indicated, actVars>>

-----------------------------------------------------------------------------
(* The forwarding handler.                                                 *)

\* OnAsyncCompletion of the 101 response's flush creates the handler and
\* runs ProcessRequest, which holds _RequestLock throughout: getting the IIS
\* context or the upgrade may fail ...
ProcessRequest ==
    /\ pc[Starter] = "start" /\ CanEnter(Starter)
    /\ EnterLock(Starter)
    /\ \/ Fail(Starter) /\ UNCHANGED hSocket
       \/ hSocket' = "open" /\ DoIisWebSocketReceive(Starter)
    /\ UNCHANGED <<parent, pending, fCleanup, fIndicate, ioCancelled, fwdVars,
                   indicated, op, result>>

\* ... then the reads are issued, first IIS's, then WinHTTP's.
ProcessRequestCall ==
    /\ Runs(Starter) /\ pc[Starter] = "call"
    /\ \/ /\ call[Starter] = "IisReceive"
          /\ pending' = [pending EXCEPT !["IisReceive"] = @ + 1]
          /\ DoWinHttpWebSocketReceive(Starter)
       \/ call[Starter] = "WinHttpReceive" /\ CallSucceeds(Starter) /\ UNCHANGED call
       \/ CallFails(Starter) /\ UNCHANGED call
    /\ UNCHANGED <<lockVars, sockVars, fwdVars, indicated, op, result>>

ProcessRequestLeave ==
    /\ Runs(Starter) /\ pc[Starter] \in {"leave", "leaveFailed"}
    /\ LeaveLock
    /\ Goto(Starter, IF pc[Starter] = "leave" THEN "started" ELSE "failure")
    /\ UNCHANGED <<parent, ioVars, sockVars, fwdVars, indicated, actVars>>

\* The rest of OnAsyncCompletion: close the request's own handle and return
\* PENDING, or finish the request with an error.
OnAsyncCompletionStarted ==
    /\ Runs(Starter) /\ pc[Starter] = "started"
    /\ hRequest' = FALSE /\ Goto(Starter, "leaving")
    /\ UNCHANGED <<lockVars, ioVars, sockVars, status, refs, answer, indicated, actVars>>

OnAsyncCompletionFailure ==
    /\ Runs(Starter) /\ pc[Starter] = "failure"
    /\ status' = "done" /\ Goto(Starter, "leavingFailed")
    /\ answer' = IF answer = "none" THEN "finish" ELSE answer
    /\ UNCHANGED <<lockVars, ioVars, sockVars, hRequest, refs, indicated, actVars>>

\* OnAsyncCompletion drops its reference.
OnAsyncCompletionReturn ==
    /\ Runs(Starter) /\ pc[Starter] \in {"leaving", "leavingFailed"}
    /\ refs' = refs - 1
    /\ Goto(Starter, IF pc[Starter] = "leaving" THEN "done" ELSE "doneFailed")
    /\ UNCHANGED <<lockVars, ioVars, sockVars, hRequest, status, answer, indicated, actVars>>

\* OnAsyncCompletion for the completion just indicated: with the request
\* handle already closed it finishes the request; should it overtake the
\* starter it finds the handle open, and lets the pipeline continue.
OnAsyncCompletionDone(w) ==
    /\ Runs(w) /\ pc[w] = "completion"
    /\ answer' = CASE answer # "none" -> answer
                   [] answer = "none" /\ hRequest -> "continue"
                   [] answer = "none" /\ ~hRequest -> "finish"
    /\ Retire(w)
    /\ UNCHANGED <<lock, ioVars, sockVars, hRequest, status, refs, indicated>>

\* IIS is done with the request and destroys the module: the forwarding
\* handler loses its first reference.  Whoever drops the last one deletes it
\* and, through Terminate, the websocket handler.
DestroyModule ==
    /\ answer \in {"finish", "continue"} /\ answer' = "destroyed"
    /\ refs' = refs - 1
    /\ UNCHANGED <<lockVars, ioVars, sockVars, hRequest, status, indicated, pc, actVars>>

-----------------------------------------------------------------------------

\* What a worker does of its own accord, once activated.
WorkerStep(w) ==
    \/ OnWinHttpSendComplete(w) \/ OnWinHttpReceiveComplete(w)
    \/ OnIisSendComplete(w) \/ OnIisReceiveComplete(w)
    \/ Call(w) \/ Leave(w) \/ CleanupBegin(w) \/ CleanupEnd(w)
    \/ DecrementOutstandingIo(w) \/ IndicateCompletionToIIS(w)
    \/ OnAsyncCompletionDone(w)

StarterStep ==
    \/ ProcessRequest \/ ProcessRequestCall \/ ProcessRequestLeave
    \/ OnAsyncCompletionStarted \/ OnAsyncCompletionFailure
    \/ OnAsyncCompletionReturn

Completes(o) ==
    \/ \E w \in Workers : DeliverIis(w, o) \/ DeliverWinHttp(w, o)
    \/ Misroute(o)

Next ==
    \/ StarterStep \/ DestroyModule
    \/ \E w \in Workers : WorkerStep(w)
    \/ \E o \in Ops : Completes(o)
    \/ \E w \in Workers, o \in Ops, t \in Threads : DeliverInline(w, o, t)

Spec == Init /\ [][Next]_vars

Cancelled(o) == IF o \in IisOps THEN ioCancelled ELSE hSocket = "null"

\* Threads run on, and get the critical section, since nobody takes it for
\* ever.  Peers may keep a connection open for as long as they like: only an
\* operation that was cancelled, or whose handle was closed, is sure to
\* complete.  IIS destroys the module of a finished request.
Fairness ==
    /\ \A w \in Workers : WF_vars(WorkerStep(w))
    /\ WF_vars(StarterStep) /\ WF_vars(DestroyModule)
    /\ \A o \in Ops : WF_vars(Cancelled(o) /\ Completes(o))

FairSpec == Spec /\ Fairness

-----------------------------------------------------------------------------
(* Properties                                                              *)

InHandler == {"enter", "call", "leave", "leaveFailed", "cleanup", "close", "decrement"}

\* Every variable has its type.
TypeOK ==
    /\ lock \in Seq(Threads) /\ parent \in [Workers -> Threads \cup {None}]
    /\ outstanding \in Nat /\ pending \in [Ops -> Nat]
    /\ fCleanup \in BOOLEAN /\ fIndicate \in BOOLEAN
    /\ hSocket \in {"uninit", "open", "null"} /\ ioCancelled \in BOOLEAN
    /\ hRequest \in BOOLEAN /\ status \in {"websocket", "done"}
    /\ refs \in Int /\ indicated \in Nat
    /\ answer \in {"none", "finish", "continue", "destroyed"}
    /\ pc \in [Threads -> InHandler \cup {"idle", "last", "completion", "start",
                  "started", "failure", "leaving", "leavingFailed", "done", "doneFailed"}]
    /\ op \in [Workers -> Ops \cup {None}] /\ result \in [Workers -> {"ok", "failed"}]
    /\ call \in [Threads -> Ops \cup {None}]

\* ProcessRequest failed; a read on the client's side may be outstanding.
StartFailed ==
    pc[Starter] \in {"leaveFailed", "failure", "leavingFailed", "doneFailed"}

PendingIo ==
    pending["IisReceive"] + pending["IisSend"] + pending["WinHttpReceive"]
        + pending["WinHttpSend"] + pending["WinHttpShutdown"]

Active == {w \in Workers : pc[w] \in InHandler}

Issuing == {t \in Threads : pc[t] = "call"}

\* Unless the start failed, _dwOutstandingIo counts exactly the operations
\* somebody is working on, the completion handlers that have not decremented,
\* and the calls being made.
OutstandingIsExact ==
    StartFailed \/ outstanding = PendingIo + Cardinality(Active) + Cardinality(Issuing)

\* Unless the start failed, IIS hears of the completion once, and only after
\* the last operation and the last handler: nothing of the websocket runs in a
\* finished request.
CompletionIsLast ==
    StartFailed \/ ( /\ indicated <= 1
                     /\ indicated = 1 => PendingIo = 0 /\ Active = {})

\* However the loops end - a close handshake on either side, an error, a
\* cancelled operation - the count never reaches zero without the flag that
\* makes the last one out complete the request, which nobody else would.
NeverStranded ==
    pc[Starter] \in {"started", "leaving", "done"} /\ outstanding = 0 => fIndicate

\* Each of the two loops has one operation or handler in flight: a receive
\* never overwrites the buffer that is being sent (_IisReceiveBuffer,
\* _WinHttpReceiveBuffer), nor data whose completion waits for the lock.
ClientLoop == {"IisReceive", "WinHttpSend", "WinHttpShutdown"}
ServerLoop == {"WinHttpReceive", "IisSend"}

InFlight(loop) ==
    Cardinality({w \in Workers : pc[w] = "enter" /\ op[w] \in loop})
        + Cardinality({t \in Threads : pc[t] = "call" /\ call[t] \in loop})

OneStepPerLoop ==
    /\ InFlight(ClientLoop) + pending["IisReceive"] + pending["WinHttpSend"]
           + pending["WinHttpShutdown"] <= 1
    /\ InFlight(ServerLoop) + pending["WinHttpReceive"] + pending["IisSend"] <= 1

\* No WinHTTP operation is issued on a websocket handle that Cleanup closed,
\* or that ProcessRequest has not obtained.
UsesOpenHandle ==
    \A t \in Threads : pc[t] = "call" /\ call[t] \in WinHttpOps => hSocket = "open"

\* The handler is freed only when no operation can call back into it, or
\* write into its buffers, any more.
HandlerOutlivesIo ==
    Deleted => PendingIo = 0 /\ Active = {}

\* Once a cleanup has begun the request is completed and freed.
CleanupFrees == fCleanup ~> Deleted

=============================================================================
