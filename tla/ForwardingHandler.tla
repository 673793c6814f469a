-------------------------- MODULE ForwardingHandler --------------------------
(***************************************************************************)
(* One FORWARDING_HANDLER: a request from OnExecuteRequestHandler, through *)
(* the completions of IIS and WinHTTP, to its answer and its deletion.     *)
(*                                                                         *)
(* Entry points and callbacks are frames: a thread runs one to its end.  A *)
(* completion may run while the frame that started the operation has not   *)
(* returned.  m_RequestLock and the TLS slot that guards its re-entry do   *)
(* not order anything: the lock is only taken shared, since nobody calls   *)
(* TerminateRequest any more (forwardinghandler.cxx:1198), and a callback  *)
(* on the stack of the call that started the operation is one during which *)
(* the caller stands still.  What keeps frames apart is that one operation *)
(* at a time is under way and whoever starts it touches no member after.   *)
(***************************************************************************)
EXTENDS Integers, FiniteSets

CONSTANTS
    Frames,     \* activations of the entry points: bounds how many overlap
    First,      \* the frame of OnExecuteRequestHandler
    MaxBody,    \* bounds the bytes of a body
    BufferSize, \* BUFFER_SIZE
    None

ASSUME ForwardingHandlerAssumption ==
    /\ IsFiniteSet(Frames) /\ First \in Frames
    /\ MaxBody \in Nat /\ BufferSize \in Nat \ {0}

VARIABLES
    entity,     \* request: bytes IIS will still deliver
    declared,   \* response: its Content-Length, 0 if none (or HEAD)
    reply,      \* response: bytes WinHTTP will still deliver
    served,     \* response: bytes sent to the client
    chunked,    \* request: its length is not declared
    lastChunks, \* request: terminating chunks handed to WinHTTP
    status,     \* m_RequestStatus
    toReceive,  \* m_BytesToReceive
    toSend,     \* m_BytesToSend
    contentLength, \* m_cContentLength
    fWebSocket, \* m_fWebSocketEnabled
    fHeaders,   \* m_fResponseHeadersReceivedAndSet
    buffers,    \* m_cEntityBuffers; m_pEntityBuffer is the last, NULL if 0
    hRequest,   \* m_hRequest: "null" or "open"
    cRefs,      \* m_cRefs; the handler is deleted at 0
    module,     \* CProxyModule, which holds a reference, exists
    ops,        \* how many operations of each kind are under way
    pc,         \* where each frame is
    op,         \* the operation whose completion it handles
    result,     \* how it ends: the notification status it returns, "PENDING"
                \* if it returns none, or "POST" if it has to post a completion
    chunk,      \* bytes of the entity chunk on the response, 0 if none
    http,       \* the status on the response: "unset", "backend", ...
    reset,      \* ResetConnection was called
    answers,    \* answers given to IIS
    answer      \* the last one

bodyVars == <<entity, declared, reply, served, chunked, lastChunks>>
dataVars == <<toReceive, toSend, contentLength, fWebSocket, fHeaders, buffers>>
responseVars == <<chunk, http, reset>>
answerVars == <<module, answers, answer>>
frameVars == <<pc, op, result>>
vars == <<bodyVars, dataVars, responseVars, answerVars, frameVars, status, hRequest,
          cRefs, ops>>

\* A request of unknown length; larger than every length there is.
INFINITE == MaxBody + 1

WinHttpOps == {"SendRequest", "WriteData", "ReceiveResponse", "QueryDataAvailable", "ReadData"}
IisOps == {"ReadEntityBody", "Flush", "PostCompletion", "ExecuteRequest", "WebSocket"}
Ops == WinHttpOps \cup IisOps

Lengths == 0..MaxBody
AtMost(a, b) == IF a < b THEN a ELSE b

Init ==
    /\ entity \in Lengths /\ declared \in Lengths /\ reply \in Lengths
    /\ declared = 0 \/ reply <= declared
    /\ served = 0 /\ chunked = FALSE /\ lastChunks = 0
    /\ status = "START" /\ toReceive = 0 /\ toSend = 0 /\ contentLength = 0
    /\ fWebSocket = FALSE /\ fHeaders = FALSE /\ buffers = 0
    /\ hRequest = "null"
    /\ cRefs = 2 /\ module = TRUE \* the module's and OnExecuteRequestHandler's own
    /\ ops = [o \in Ops |-> 0]
    /\ pc = [f \in Frames |-> IF f = First THEN "execute" ELSE "idle"]
    /\ op = [f \in Frames |-> None] /\ result = [f \in Frames |-> "PENDING"]
    /\ chunk = 0 /\ http = "unset" /\ reset = FALSE
    /\ answers = 0 /\ answer = "none"

Goto(f, l) == pc' = [pc EXCEPT ![f] = l]

\* A frame has done its work and goes on to Return.
Finish(f, what) == Goto(f, "return") /\ result' = [result EXCEPT ![f] = what] /\ UNCHANGED op

Begin(o) == ops' = [ops EXCEPT ![o] = @ + 1]

\* Mutant: the reference taken for the operation is forgotten.
Call_NoReference(o, own) == Begin(o) /\ cRefs' = cRefs + own

\* A WinHTTP call that succeeds keeps the reference taken for its callback;
\* own is the one the frame takes for itself.
Call(o, own) == Begin(o) /\ cRefs' = cRefs + own + 1

-----------------------------------------------------------------------------
(* OnExecuteRequestHandler.                                                *)

\* Whatever fails before WinHTTP has the request: the client is gone, the
\* configuration, the application, its process or the request handle.
ExecuteFails(f) ==
    /\ pc[f] = "execute"
    /\ status' = "DONE" /\ http' \in {"400", "502"}
    /\ hRequest' \in {"null", "open"}
    /\ Finish(f, "FINISH_REQUEST")
    /\ UNCHANGED <<bodyVars, dataVars, chunk, reset, answerVars, cRefs, ops>>

\* The application is offline, or its process did not start: a child request
\* produces the error page, at once or later.  Only the second resets status.
ExecuteChildRequest(f) ==
    /\ pc[f] = "execute"
    /\ status' \in {"START", "DONE"}
    /\ \/ http' = "child" /\ Finish(f, "CONTINUE") /\ UNCHANGED ops
       \/ Begin("ExecuteRequest") /\ Finish(f, "PENDING") /\ UNCHANGED http
    /\ UNCHANGED <<bodyVars, dataVars, chunk, reset, answerVars, hRequest, cRefs>>

\* In the child request, or without one: the page itself.
WriteErrorPage(f) ==
    /\ pc[f] = "execute"
    /\ \/ http' \in {"503", "unset"} /\ Finish(f, "CONTINUE") /\ UNCHANGED status
       \/ http' \in {"502", "unset"} /\ status' = "DONE" /\ Finish(f, "FINISH_REQUEST")
    /\ UNCHANGED <<bodyVars, dataVars, chunk, reset, answerVars, hRequest, cRefs, ops>>

\* The length of the request is declared, or unknown (chunked).  A websocket
\* request whose upgrade option cannot be set leaves with CONTINUE.
SendRequest(f) ==
    /\ pc[f] = "execute"
    /\ hRequest' = "open" /\ fWebSocket' \in BOOLEAN
    /\ toReceive' \in entity..INFINITE /\ chunked' = (toReceive' = INFINITE)
    /\ \/ /\ Call("SendRequest", 0)
          /\ status' = "SENDING_REQUEST" /\ Finish(f, "PENDING") /\ UNCHANGED http
       \/ /\ fWebSocket' /\ status' = "SENDING_REQUEST"
          /\ Finish(f, "CONTINUE") /\ UNCHANGED <<cRefs, ops, http>>
       \/ /\ status' = "DONE" /\ http' \in {"400", "502"}
          /\ Finish(f, "FINISH_REQUEST") /\ UNCHANGED <<cRefs, ops>>
    /\ UNCHANGED <<entity, declared, reply, served, lastChunks, toSend, contentLength,
                   fHeaders, buffers, chunk, reset, answerVars>>

OnExecuteRequestHandler(f) ==
    ExecuteFails(f) \/ ExecuteChildRequest(f) \/ WriteErrorPage(f) \/ SendRequest(f)

-----------------------------------------------------------------------------
(* Completions.                                                            *)

\* A WinHTTP callback arrives on a thread; its context is the handler.
OnWinHttpCompletion(f, o) ==
    /\ pc[f] = "idle" /\ ops[o] > 0
    /\ ops' = [ops EXCEPT ![o] = @ - 1]
    /\ Goto(f, "callback") /\ op' = [op EXCEPT ![f] = o]
    /\ UNCHANGED <<bodyVars, dataVars, responseVars, answerVars, status, hRequest, cRefs,
                   result>>

\* IIS calls CProxyModule::OnAsyncCompletion.  The end of a websocket sets
\* the status (WebSocketHandler).  A flush that succeeded has sent the chunk.
OnIisCompletion(f, o) ==
    /\ pc[f] = "idle" /\ ops[o] > 0
    /\ ops' = [ops EXCEPT ![o] = @ - 1]
    /\ Goto(f, "async") /\ op' = [op EXCEPT ![f] = o]
    /\ status' = IF o = "WebSocket" THEN "DONE" ELSE status
    /\ UNCHANGED <<bodyVars, dataVars, responseVars, answerVars, hRequest, cRefs, result>>

FreeResponseBuffers == buffers' = 0

ServerErrors == {"server", "invalid"}

\* Mutant: nobody posts the completion of a failed request.
FailCallback_NoPost(f, error) ==
    /\ status' = IF error = "invalid" THEN "RESET_CONNECTION" ELSE "DONE"
    /\ Finish(f, "PENDING") /\ UNCHANGED <<responseVars, ops, cRefs>>

\* Mutant: the reference taken for a call that failed is kept.
FailCallback_KeepsReference(f, error) ==
    /\ status' = IF error = "invalid" THEN "RESET_CONNECTION" ELSE "DONE"
    /\ cRefs' = cRefs + 1 /\ Finish(f, "POST") /\ UNCHANGED <<responseVars, ops>>

\* The failure exit of OnWinHttpCompletionInternal, for an error of the
\* client, an invalid response of the server, or anything else.
FailCallback(f, error) ==
    /\ status' = IF error = "invalid" THEN "RESET_CONNECTION" ELSE "DONE"
    /\ chunk' = IF error = "invalid" THEN chunk ELSE 0
    /\ http' = CASE error = "invalid" -> http
                 [] error = "client" -> IF fHeaders THEN http ELSE "400"
                 [] OTHER -> "502"
    /\ Finish(f, "POST") /\ UNCHANGED <<reset, ops, cRefs>>

\* Any WinHTTP operation may end in an error instead.
RequestError(f) ==
    /\ pc[f] = "callback"
    /\ \E error \in ServerErrors : FailCallback(f, error)
    /\ UNCHANGED <<bodyVars, dataVars, answerVars, hRequest>>

\* Mutant: the end of the entity goes unnoticed by the backend.
WriteLastChunk_Skipped(f, own) ==
    /\ toReceive' = 0 /\ status' = "RECEIVING_RESPONSE"
    /\ Call("ReceiveResponse", own) /\ Finish(f, "PENDING") /\ UNCHANGED bodyVars

\* The terminating chunk of a request of unknown length.
WriteLastChunk(f, own) ==
    /\ toReceive' = 0 /\ lastChunks' = lastChunks + 1
    /\ Call("WriteData", own) /\ Finish(f, "PENDING")
    /\ UNCHANGED <<entity, declared, reply, served, chunked, status>>

ReceiveResponse(f, own) ==
    /\ status' = "RECEIVING_RESPONSE"
    /\ Call("ReceiveResponse", own) /\ Finish(f, "PENDING")
    /\ UNCHANGED <<bodyVars, toReceive>>

\* The request or a part of its entity is sent: read more, or turn to the
\* response.  ReadEntityBody may report the end of the entity at once.
OnWinHttpCompletionSendRequestOrWriteComplete(f) ==
    /\ pc[f] = "callback" /\ op[f] \in {"SendRequest", "WriteData"}
    /\ \/ /\ toReceive > 0 /\ buffers' = 1
          /\ \/ /\ Begin("ReadEntityBody") /\ Finish(f, "PENDING")
                /\ UNCHANGED <<bodyVars, toReceive, status, responseVars, cRefs>>
             \/ /\ entity = 0
                /\ IF toReceive = INFINITE THEN WriteLastChunk(f, 0) ELSE ReceiveResponse(f, 0)
                /\ UNCHANGED responseVars
             \/ FailCallback(f, "client") /\ UNCHANGED <<bodyVars, toReceive>>
       \/ toReceive = 0 /\ ReceiveResponse(f, 0) /\ UNCHANGED <<responseVars, buffers>>
       \/ /\ \E error \in ServerErrors : FailCallback(f, error)
          /\ buffers' \in {buffers, 1} /\ UNCHANGED <<bodyVars, toReceive>>
    /\ UNCHANGED <<toSend, contentLength, fWebSocket, fHeaders, answerVars, hRequest>>

\* Mutant: the pending flush is forgotten, and a completion posted as well.
OnWinHttpCompletionStatusHeadersAvailable_Posts(f) ==
    /\ pc[f] = "callback" /\ op[f] = "ReceiveResponse"
    /\ http' = "backend" /\ fHeaders' = TRUE /\ contentLength' = declared
    /\ FreeResponseBuffers /\ fWebSocket' \in {FALSE, fWebSocket}
    /\ Finish(f, "POST") /\ UNCHANGED cRefs
    /\ IF fWebSocket' THEN status' = "RECEIVED_WEBSOCKET_RESPONSE" /\ Begin("Flush")
       ELSE UNCHANGED <<status, ops>>
    /\ UNCHANGED <<bodyVars, toReceive, toSend, chunk, reset, answerVars, hRequest>>

\* A 101 response to an upgrade is flushed, any other is left to the pump.
OnWinHttpCompletionStatusHeadersAvailable(f) ==
    /\ pc[f] = "callback" /\ op[f] = "ReceiveResponse"
    /\ \/ /\ http' = "backend" /\ fHeaders' = TRUE /\ contentLength' = declared
          /\ FreeResponseBuffers /\ fWebSocket' \in {FALSE, fWebSocket}
          /\ IF fWebSocket'
             THEN /\ status' = "RECEIVED_WEBSOCKET_RESPONSE"
                  /\ Begin("Flush") /\ Finish(f, "PENDING")
             ELSE Finish(f, "POST") /\ UNCHANGED <<status, ops>>
          /\ UNCHANGED <<chunk, reset, cRefs>>
       \/ /\ FailCallback(f, "server")   \* headers, or the flush
          /\ fHeaders' \in {fHeaders, TRUE} /\ fWebSocket' \in {FALSE, fWebSocket}
          /\ contentLength' \in {contentLength, declared} /\ buffers' \in {buffers, 0}
    /\ UNCHANGED <<bodyVars, toReceive, toSend, answerVars, hRequest>>

\* Mutant: the end of the response counts as its success.
EndOfResponse_AnyLength(f) ==
    status' = "DONE" /\ Finish(f, "POST") /\ UNCHANGED <<responseVars, ops, cRefs>>

\* No more data: a response shorter than it declared is invalid.
EndOfResponse(f) ==
    IF contentLength # 0 THEN FailCallback(f, "invalid")
    ELSE status' = "DONE" /\ Finish(f, "POST") /\ UNCHANGED <<responseVars, ops, cRefs>>

OnWinHttpCompletionStatusDataAvailable(f) ==
    /\ pc[f] = "callback" /\ op[f] = "QueryDataAvailable"
    /\ \/ reply = 0 /\ EndOfResponse(f) /\ UNCHANGED <<toSend, contentLength, buffers>>
       \/ \E dwBytes \in 1..reply :
            /\ toSend' = dwBytes
            /\ contentLength' = IF contentLength # 0 THEN contentLength - dwBytes ELSE 0
            /\ \/ /\ buffers' = buffers + 1 /\ Call("ReadData", 0) /\ Finish(f, "PENDING")
                  /\ UNCHANGED <<status, responseVars>>
               \/ /\ \E error \in ServerErrors : FailCallback(f, error)
                  /\ buffers' \in {buffers, buffers + 1}
    /\ UNCHANGED <<bodyVars, toReceive, fWebSocket, fHeaders, answerVars, hRequest>>

\* Mutant: the buffer is freed before the flush has sent it.
OnWinHttpCompletionStatusReadComplete_Frees(f) ==
    /\ pc[f] = "callback" /\ op[f] = "ReadData"
    /\ \E n \in 1..AtMost(toSend, BufferSize) :
         /\ reply' = reply - n /\ toSend' = toSend - n /\ chunk' = n
         /\ FreeResponseBuffers /\ Begin("Flush") /\ Finish(f, "PENDING")
    /\ UNCHANGED <<entity, declared, served, chunked, lastChunks, toReceive, contentLength,
                   fWebSocket, fHeaders, http, reset, answerVars, status, hRequest, cRefs>>

\* Mutant: what WinHTTP announced beyond one buffer is dropped.
OnWinHttpCompletionStatusReadComplete_DropsRest(f) ==
    /\ pc[f] = "callback" /\ op[f] = "ReadData"
    /\ \E n \in 1..AtMost(toSend, BufferSize) :
         /\ reply' = reply - n /\ toSend' = 0 /\ chunk' = n
         /\ Begin("Flush") /\ Finish(f, "PENDING")
    /\ UNCHANGED <<entity, declared, served, chunked, lastChunks, toReceive, contentLength,
                   fWebSocket, fHeaders, buffers, http, reset, answerVars, status, hRequest, cRefs>>

\* What was read becomes a chunk of the response, by reference, and is
\* flushed (there is no response buffering: m_cMinBufferLimit is 0).  A read
\* of nothing is only asserted against: the pump reads again.
OnWinHttpCompletionStatusReadComplete(f) ==
    /\ pc[f] = "callback" /\ op[f] = "ReadData"
    /\ \/ \E n \in 1..AtMost(toSend, BufferSize) :
            /\ reply' = reply - n /\ toSend' = toSend - n
            /\ \/ chunk' = n /\ Begin("Flush") /\ Finish(f, "PENDING")
                  /\ UNCHANGED <<http, reset, status, cRefs>>
               \/ FailCallback(f, "server")
       \/ /\ Finish(f, "POST")
          /\ UNCHANGED <<reply, toSend, responseVars, status, cRefs, ops>>
    /\ UNCHANGED <<entity, declared, served, chunked, lastChunks, toReceive, contentLength,
                   fWebSocket, fHeaders, buffers, answerVars, hRequest>>

-----------------------------------------------------------------------------
(* OnAsyncCompletion.                                                      *)

\* Mutant: OnAsyncCompletion takes no reference of its own.
Leave_NoReference(f, what) == Finish(f, what) /\ UNCHANGED <<cRefs, ops>>

\* A frame that is done without starting anything.
Leave(f, what) == Finish(f, what) /\ cRefs' = cRefs + 1 /\ UNCHANGED ops

\* Its failure exit.  An invalid response resets the connection and leaves
\* with the status the function started with.
FailAsync(f, error) ==
    /\ status' = "DONE" /\ chunk' = 0
    /\ http' = IF error # "client" THEN "502" ELSE IF fHeaders THEN http ELSE "400"
    /\ reset' = (reset \/ error = "invalid")
    /\ Leave(f, IF error = "invalid" THEN "CONTINUE" ELSE "FINISH_REQUEST")

\* No request handle: a child request or a websocket is over.
AsyncWithoutRequest(f) ==
    /\ pc[f] = "async" /\ hRequest = "null"
    /\ IF status = "DONE" THEN Leave(f, "FINISH_REQUEST") /\ UNCHANGED <<responseVars, status>>
       ELSE FailAsync(f, "server")
    /\ UNCHANGED <<bodyVars, dataVars, answerVars, hRequest>>

\* The 101 response has been flushed, well or not: the websocket starts.
AsyncWebSocket(f) ==
    /\ pc[f] = "async" /\ hRequest = "open" /\ status = "RECEIVED_WEBSOCKET_RESPONSE"
    /\ \/ /\ Begin("WebSocket") /\ cRefs' = cRefs + 1
          /\ Goto(f, "close") /\ result' = [result EXCEPT ![f] = "PENDING"]
          /\ UNCHANGED <<op, responseVars, status>>
       \/ Leave(f, "CONTINUE") /\ UNCHANGED <<responseVars, status>>
       \/ FailAsync(f, "server")
    /\ UNCHANGED <<bodyVars, dataVars, answerVars, hRequest>>

\* Once the websocket runs, the request handle is closed.
CloseRequest(f) ==
    /\ pc[f] = "close" /\ hRequest' = "null" /\ Goto(f, "return")
    /\ UNCHANGED <<bodyVars, dataVars, responseVars, answerVars, status, cRefs, ops, op, result>>

AsyncResetConnection(f) ==
    /\ pc[f] = "async" /\ hRequest = "open" /\ status = "RESET_CONNECTION"
    /\ FailAsync(f, "invalid")
    /\ UNCHANGED <<bodyVars, dataVars, answerVars, hRequest>>

AsyncDone(f) ==
    /\ pc[f] = "async" /\ hRequest = "open" /\ status = "DONE"
    /\ Leave(f, "CONTINUE")
    /\ UNCHANGED <<bodyVars, dataVars, responseVars, answerVars, hRequest, status>>

\* The response pump: free what was flushed, read what WinHTTP announced, or
\* ask for more.
OnReceivingResponse(f) ==
    /\ pc[f] = "async" /\ hRequest = "open" /\ status = "RECEIVING_RESPONSE"
    /\ \/ FailAsync(f, "client") /\ UNCHANGED <<served, buffers>>
       \/ /\ served' = served + chunk
          /\ \/ /\ chunk' = 0 /\ UNCHANGED <<status, http, reset>>
                /\ \/ toSend = 0 /\ FreeResponseBuffers /\ Call("QueryDataAvailable", 1)
                   \/ toSend > 0 /\ buffers' = 1 /\ Call("ReadData", 1)
                /\ Finish(f, "PENDING")
             \/ /\ buffers' \in IF toSend = 0 THEN {0} ELSE {0, 1}
                /\ \E error \in ServerErrors : FailAsync(f, error)
    /\ UNCHANGED <<entity, declared, reply, chunked, lastChunks, toReceive, toSend,
                   contentLength, fWebSocket, fHeaders, answerVars, hRequest>>

\* Entity was read, and goes to WinHTTP; or its end was met.
OnSendingRequest(f) ==
    /\ pc[f] = "async" /\ hRequest = "open" /\ status = "SENDING_REQUEST"
    /\ \/ FailAsync(f, "client") /\ UNCHANGED <<bodyVars, toReceive>>
       \/ \E error \in ServerErrors : FailAsync(f, error) /\ UNCHANGED <<bodyVars, toReceive>>
       \/ /\ entity = 0
          /\ IF toReceive = INFINITE THEN WriteLastChunk(f, 1) ELSE ReceiveResponse(f, 1)
          /\ UNCHANGED responseVars
       \/ \E n \in 1..AtMost(AtMost(entity, toReceive), BufferSize) :
            /\ entity' = entity - n
            /\ toReceive' = IF toReceive = INFINITE THEN INFINITE ELSE toReceive - n
            /\ Call("WriteData", 1) /\ Finish(f, "PENDING")
            /\ UNCHANGED <<declared, reply, served, chunked, lastChunks, responseVars, status>>
    /\ UNCHANGED <<toSend, contentLength, fWebSocket, fHeaders, buffers, answerVars, hRequest>>

OnAsyncCompletion(f) ==
    \/ AsyncWithoutRequest(f) \/ AsyncWebSocket(f) \/ CloseRequest(f)
    \/ AsyncResetConnection(f) \/ AsyncDone(f)
    \/ OnReceivingResponse(f) \/ OnSendingRequest(f)

-----------------------------------------------------------------------------
(* The end of a frame, and of the handler.                                 *)

\* The destructor frees the buffers and closes the request.
Dereference ==
    /\ cRefs' = cRefs - 1
    /\ buffers' = IF cRefs = 1 THEN 0 ELSE buffers
    /\ hRequest' = IF cRefs = 1 THEN "null" ELSE hRequest

\* Each frame drops one reference last, a callback the one of its operation.
\* A notification status other than PENDING is the answer to IIS.
Return(f) ==
    /\ pc[f] = "return" /\ Dereference
    /\ IF result[f] = "POST" THEN Goto(f, "post") ELSE Goto(f, "idle")
    /\ IF result[f] \in {"CONTINUE", "FINISH_REQUEST"}
       THEN answers' = answers + 1 /\ answer' = result[f]
       ELSE UNCHANGED <<answers, answer>>
    /\ op' = [op EXCEPT ![f] = None] /\ result' = [result EXCEPT ![f] = "PENDING"]
    /\ UNCHANGED <<bodyVars, toReceive, toSend, contentLength, fWebSocket, fHeaders,
                   responseVars, module, status, ops>>

\* PostCompletion through m_pW3Context, after the reference has been dropped.
PostCompletion(f) ==
    /\ pc[f] = "post" /\ Goto(f, "idle") /\ Begin("PostCompletion")
    /\ UNCHANGED <<bodyVars, dataVars, responseVars, answerVars, status, hRequest, cRefs,
                   op, result>>

\* IIS ends an answered request and deletes the module.
DestroyModule ==
    /\ answers > 0 /\ module /\ module' = FALSE /\ Dereference
    /\ UNCHANGED <<bodyVars, toReceive, toSend, contentLength, fWebSocket, fHeaders,
                   responseVars, answers, answer, status, frameVars, ops>>

OnWinHttpCompletionInternal(f) ==
    \/ RequestError(f)
    \/ OnWinHttpCompletionSendRequestOrWriteComplete(f)
    \/ OnWinHttpCompletionStatusHeadersAvailable(f)
    \/ OnWinHttpCompletionStatusDataAvailable(f)
    \/ OnWinHttpCompletionStatusReadComplete(f)

Run(f) ==
    \/ OnExecuteRequestHandler(f) \/ OnWinHttpCompletionInternal(f) \/ OnAsyncCompletion(f)
    \/ Return(f) \/ PostCompletion(f)

Deliver(o) ==
    \E f \in Frames :
        IF o \in WinHttpOps THEN OnWinHttpCompletion(f, o) ELSE OnIisCompletion(f, o)

Next == (\E f \in Frames : Run(f)) \/ (\E o \in Ops : Deliver(o)) \/ DestroyModule

Spec == Init /\ [][Next]_vars

\* Threads run; operations complete, if only by their timeouts, except that a
\* websocket may stay open; IIS ends what was answered.  WinHTTP, asked again
\* and again, does not read nothing of what it announced for ever.
FairSpec ==
    /\ Spec
    /\ \A f \in Frames : WF_vars(Run(f))
    /\ \A o \in Ops \ {"WebSocket"} : WF_vars(Deliver(o))
    /\ WF_vars(DestroyModule)
    /\ SF_vars(\E f \in Frames : OnWinHttpCompletionStatusReadComplete(f) /\ reply' # reply)

-----------------------------------------------------------------------------
Labels == {"idle", "execute", "callback", "async", "close", "return", "post"}
Results == {"PENDING", "CONTINUE", "FINISH_REQUEST", "POST"}

\* Every variable keeps its type; at most one buffer is allocated at a time.
TypeOK ==
    /\ {entity, declared, reply, served, toSend, contentLength, chunk} \subseteq Lengths
    /\ toReceive \in 0..INFINITE /\ lastChunks \in 0..1 /\ chunked \in BOOLEAN
    /\ status \in {"START", "SENDING_REQUEST", "RECEIVING_RESPONSE",
                   "RECEIVED_WEBSOCKET_RESPONSE", "RESET_CONNECTION", "DONE"}
    /\ fWebSocket \in BOOLEAN /\ fHeaders \in BOOLEAN /\ buffers \in 0..1
    /\ hRequest \in {"null", "open"} /\ cRefs \in Nat /\ module \in BOOLEAN
    /\ ops \in [Ops -> Nat] /\ pc \in [Frames -> Labels]
    /\ op \in [Frames -> Ops \cup {None}] /\ result \in [Frames -> Results]
    /\ http \in {"unset", "backend", "child", "400", "502", "503"} /\ reset \in BOOLEAN
    /\ answers \in Nat /\ answer \in {"none", "CONTINUE", "FINISH_REQUEST"}

\* Who owes the next step of the request: operations under way, and frames that
\* will still start one or give the answer.
OwingFrames ==
    {f \in Frames :
        \/ pc[f] \in {"execute", "callback", "async", "post"}
        \/ pc[f] = "return" /\ result[f] # "PENDING"}
Owing == {o \in Ops : ops[o] > 0} \cup OwingFrames

\* Safety: one party at a time owes the next step, until the one answer is
\* given.  On this rest the unguarded members, and the comment that
\* OnWinHttpCompletionInternal posts the completion unless it has started an
\* operation (forwardinghandler.cxx:2272-2278).
OneOwes ==
    /\ \A o \in Ops : ops[o] <= 1
    /\ \A x, y \in Owing : x = y
    /\ answers = IF Owing = {} THEN 1 ELSE 0

\* Safety: the references are the module's, one of each frame and one of each
\* WinHTTP operation under way.
RefsExact ==
    cRefs = (IF module THEN 1 ELSE 0)
            + Cardinality({f \in Frames : pc[f] \in {"execute", "callback", "close", "return"}})
            + Cardinality({o \in WinHttpOps : ops[o] > 0})

\* Safety: while an operation may call back, or a frame runs, the handler
\* exists, also where a frame holds no reference: on entry to
\* OnAsyncCompletion, and when it posts the completion after its last
\* reference is gone (forwardinghandler.cxx:2264-2285).
HandlerOutlivesUse ==
    (\E o \in Ops : ops[o] > 0) \/ (\E f \in Frames : pc[f] # "idle") => cRefs > 0

\* Safety: IIS and WinHTTP write into and read from buffers that are allocated:
\* for a read or a flush under way, and for entity on its way to the backend.
BuffersOutliveUse ==
    chunk > 0 \/ ops["ReadEntityBody"] > 0 \/ ops["ReadData"] > 0
      \/ (ops["WriteData"] > 0 /\ lastChunks = 0) => buffers = 1

\* Safety: the backend is asked for its response when it has got the whole
\* entity, with one terminating chunk if and only if its length was not known.
EntityIsForwarded ==
    status = "RECEIVING_RESPONSE" =>
        entity = 0 /\ lastChunks = (IF chunked THEN 1 ELSE 0)

\* Safety: what the client got of a response of declared length, what is on its
\* way, and what is still expected make up that length.
LengthIsAccounted ==
    (status = "RECEIVING_RESPONSE" /\ fHeaders /\ declared # 0) =>
        served + chunk + toSend + contentLength = declared

\* Safety: a request that ends well with the backend's status has been given the
\* backend's whole response.
CompleteOrAborted ==
    (answers = 1 /\ http = "backend" /\ ~fWebSocket /\ answer = "CONTINUE" /\ declared # 0) =>
        served = declared

\* The handler as RequestLife sees it.
owes ==
    IF Owing = {} THEN "nobody" ELSE IF OwingFrames = {} THEN "operation" ELSE "module"

Life == INSTANCE RequestLife WITH freed <- cRefs = 0

\* Refinement: the handler keeps the promise of RequestLife.
KeepsPromise == Life!Spec

\* Liveness: the handler is freed in the end, unless a websocket stays open.
HandlerIsFreed == <>(cRefs = 0) \/ <>[](ops["WebSocket"] > 0)
=============================================================================
