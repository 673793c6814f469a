---------------------- MODULE ForwardingHandler_proofs ----------------------
(***************************************************************************)
(* Theorems about ForwardingHandler, for any number of frames, any length  *)
(* of the bodies and any size of the buffers.                              *)
(***************************************************************************)
EXTENDS ForwardingHandler, FiniteSetTheorems, TLAPS

\* The labels at which a frame works on the handler, and the references it
\* takes and the operation keeps when it is done.
Working == {"execute", "callback", "async"}
Own(l) == IF l = "async" THEN 1 ELSE 0
OpRef(o) == IF o \in WinHttpOps THEN 1 ELSE 0

\* What a working frame does to the control state, one of two effects: it keeps
\* the turn, to answer or to post a completion, or it passes it to an operation.
KeepsTurn(f) ==
    /\ pc[f] \in Working /\ Goto(f, "return")
    /\ \E r \in Results \ {"PENDING"} : result' = [result EXCEPT ![f] = r]
    /\ cRefs' = cRefs + Own(pc[f]) /\ UNCHANGED <<ops, answerVars>>

PassesTurn(f, o) ==
    /\ pc[f] \in Working /\ \E l \in {"return", "close"} : Goto(f, l)
    /\ result' = [result EXCEPT ![f] = "PENDING"]
    /\ Begin(o) /\ cRefs' = cRefs + (Own(pc[f]) + OpRef(o)) /\ UNCHANGED answerVars

Works(f) == KeepsTurn(f) \/ \E o \in Ops : PassesTurn(f, o)

\* The control state.
Control ==
    /\ pc \in [Frames -> Labels] /\ result \in [Frames -> Results]
    /\ ops \in [Ops -> {0, 1}]
    /\ cRefs \in Nat /\ module \in BOOLEAN /\ answers \in {0, 1}
    /\ answer \in {"none", "CONTINUE", "FINISH_REQUEST"}
    /\ \A f \in Frames : pc[f] = "close" => result[f] = "PENDING"
    /\ ~module => answers = 1

Owes(f) ==
    \/ pc[f] \in {"execute", "callback", "async", "post"}
    \/ pc[f] = "return" /\ result[f] # "PENDING"

\* OneOwes, said of frames and operations one by one.
OneParty ==
    /\ \A x, y \in Ops : ops[x] = 1 /\ ops[y] = 1 => x = y
    /\ \A f, g \in Frames : Owes(f) /\ Owes(g) => f = g
    /\ \A f \in Frames, o \in Ops : ~(Owes(f) /\ ops[o] = 1)
    /\ answers = 0 <=> (\E f \in Frames : Owes(f)) \/ (\E o \in Ops : ops[o] = 1)

\* The holders of references that RefsExact counts.
HoldingLabels == {"execute", "callback", "close", "return"}
Holders == {f \in Frames : pc[f] \in HoldingLabels}
Busy == {o \in WinHttpOps : ops[o] > 0}
Held(l) == IF l \in HoldingLabels THEN 1 ELSE 0

Inv == Control /\ OneParty /\ RefsExact

-----------------------------------------------------------------------------
(* Every step has one of the effects above, or is one of the few others.   *)

\* A frame that starts nothing keeps the turn.
LEMMA KeepTurn ==
    ASSUME Control, NEW f \in Frames, pc[f] \in Working, UNCHANGED <<ops, answerVars>>,
           NEW r \in Results \ {"PENDING"}, Finish(f, r), cRefs' = cRefs + Own(pc[f])
    PROVE  Works(f)
BY DEF Works, KeepsTurn, Finish

\* A WinHTTP call is the last thing a working frame does.
LEMMA CallTurn ==
    ASSUME Control, NEW f \in Frames, pc[f] \in {"callback", "async"}, UNCHANGED answerVars,
           NEW o \in WinHttpOps, Call(o, Own(pc[f])), Finish(f, "PENDING")
    PROVE  Works(f)
<1>1. PassesTurn(f, o)
  BY DEF Control, PassesTurn, Working, Own, OpRef, Call, Finish
<1>2. QED  BY <1>1 DEF Works, Ops

LEMMA Execute ==
    ASSUME Control, NEW f \in Frames, OnExecuteRequestHandler(f)
    PROVE  Works(f)
<1> USE DEF Control, Works, KeepsTurn, PassesTurn, Working, Own, OpRef, Finish, Begin,
            answerVars, Results, Ops, WinHttpOps, IisOps
<1>1. CASE ExecuteFails(f)
  <2>1. pc[f] = "execute" /\ Finish(f, "FINISH_REQUEST") /\ UNCHANGED <<cRefs, ops, answerVars>>
    BY <1>1 DEF ExecuteFails
  <2>2. cRefs' = cRefs + Own(pc[f])
    BY ONLY <2>1, Control DEF Control, Own
  <2>3. QED  BY ONLY Control, <2>1, <2>2, KeepTurn DEF Results, Working
<1>2. CASE ExecuteChildRequest(f)
  BY <1>2 DEF ExecuteChildRequest
<1>3. CASE WriteErrorPage(f)
  BY <1>3 DEF WriteErrorPage
<1>4. CASE SendRequest(f)
  BY <1>4 DEF SendRequest, Call
<1>5. QED  BY <1>1, <1>2, <1>3, <1>4 DEF OnExecuteRequestHandler

LEMMA Fail ==
    ASSUME Control, NEW f \in Frames, pc[f] = "callback", NEW error, FailCallback(f, error),
           UNCHANGED answerVars
    PROVE  Works(f)
<1>1. Finish(f, "POST") /\ UNCHANGED <<ops, cRefs>>
  BY DEF FailCallback
<1>2. cRefs' = cRefs + Own(pc[f])
  BY <1>1 DEF Control, Own
<1>3. QED  BY <1>1, <1>2, KeepTurn DEF Results, Working

LEMMA Callback ==
    ASSUME Control, NEW f \in Frames, OnWinHttpCompletionInternal(f)
    PROVE  Works(f)
<1> USE DEF Control, Works, KeepsTurn, PassesTurn, Working, Own, OpRef, Finish, Begin, Call,
            Results, Ops, WinHttpOps, IisOps
<1>1. CASE RequestError(f)
  BY <1>1, Fail DEF RequestError
<1>2. CASE OnWinHttpCompletionSendRequestOrWriteComplete(f)
  <2>1. pc[f] = "callback" /\ UNCHANGED answerVars
    BY <1>2 DEF OnWinHttpCompletionSendRequestOrWriteComplete
  <2>2. ASSUME NEW error, FailCallback(f, error)  PROVE Works(f)
    BY <2>1, <2>2, Fail
  <2>3. CASE WriteLastChunk(f, 0) \/ ReceiveResponse(f, 0)
    BY <2>1, <2>3 DEF WriteLastChunk, ReceiveResponse
  <2>4. CASE Begin("ReadEntityBody") /\ Finish(f, "PENDING") /\ UNCHANGED cRefs
    BY <2>1, <2>4
  <2>5. QED
    BY <1>2, <2>2, <2>3, <2>4 DEF OnWinHttpCompletionSendRequestOrWriteComplete
<1>3. CASE OnWinHttpCompletionStatusHeadersAvailable(f)
  <2>1. pc[f] = "callback" /\ UNCHANGED answerVars
    BY <1>3 DEF OnWinHttpCompletionStatusHeadersAvailable
  <2>2. CASE FailCallback(f, "server")
    BY <2>1, <2>2, Fail
  <2>3. CASE Finish(f, "POST") /\ UNCHANGED <<ops, cRefs>>
    <3>1. cRefs' = cRefs + Own(pc[f])
      BY ONLY <2>1, <2>3, Control DEF Control, Own
    <3>2. QED  BY ONLY Control, <2>1, <2>3, <3>1, KeepTurn DEF Results, Working
  <2>4. CASE Finish(f, "PENDING") /\ Begin("Flush") /\ UNCHANGED cRefs
    BY <2>1, <2>4
  <2>5. QED
    BY ONLY <1>3, <2>2, <2>3, <2>4 DEF OnWinHttpCompletionStatusHeadersAvailable
<1>4. CASE OnWinHttpCompletionStatusDataAvailable(f)
  <2>1. pc[f] = "callback" /\ UNCHANGED answerVars
    BY <1>4 DEF OnWinHttpCompletionStatusDataAvailable
  <2>2. ASSUME NEW error, FailCallback(f, error)  PROVE Works(f)
    BY <2>1, <2>2, Fail
  <2>3. CASE EndOfResponse(f)
    BY <2>1, <2>2, <2>3 DEF EndOfResponse
  <2>4. QED
    BY <1>4, <2>1, <2>2, <2>3 DEF OnWinHttpCompletionStatusDataAvailable
<1>5. CASE OnWinHttpCompletionStatusReadComplete(f)
  <2>1. pc[f] = "callback" /\ UNCHANGED answerVars
    BY <1>5 DEF OnWinHttpCompletionStatusReadComplete
  <2>2. CASE FailCallback(f, "server")
    BY <2>1, <2>2, Fail
  <2>3. QED
    BY <1>5, <2>1, <2>2 DEF OnWinHttpCompletionStatusReadComplete
<1>6. QED  BY <1>1, <1>2, <1>3, <1>4, <1>5 DEF OnWinHttpCompletionInternal

LEMMA FailTurn ==
    ASSUME Control, NEW f \in Frames, pc[f] = "async", UNCHANGED answerVars,
           NEW r \in {"CONTINUE", "FINISH_REQUEST"}, Leave(f, r)
    PROVE  Works(f)
BY DEF Control, Works, KeepsTurn, Working, Own, Leave, Finish, Results

LEMMA Async ==
    ASSUME Control, NEW f \in Frames, OnAsyncCompletion(f), ~CloseRequest(f)
    PROVE  Works(f)
<1> USE DEF Control, Works, KeepsTurn, PassesTurn, Working, Own, OpRef, Finish, Begin, Call,
            Results, Ops, WinHttpOps, IisOps
<1>0. ASSUME pc[f] = "async", UNCHANGED answerVars, NEW error, FailAsync(f, error)
      PROVE  Works(f)
  BY <1>0, FailTurn DEF FailAsync
<1>1. CASE AsyncWithoutRequest(f)
  BY <1>0, <1>1, FailTurn DEF AsyncWithoutRequest
<1>2. CASE AsyncWebSocket(f)
  <2>1. pc[f] = "async" /\ UNCHANGED answerVars
    BY <1>2 DEF AsyncWebSocket
  <2>2. CASE Leave(f, "CONTINUE") \/ FailAsync(f, "server")
    BY <1>0, <2>1, <2>2, FailTurn
  <2>3. QED  BY <1>2, <2>1, <2>2 DEF AsyncWebSocket
<1>3. CASE AsyncResetConnection(f)
  BY <1>0, <1>3 DEF AsyncResetConnection
<1>4. CASE AsyncDone(f)
  BY <1>4, FailTurn DEF AsyncDone
<1>5. CASE OnReceivingResponse(f)
  <2>1. pc[f] = "async" /\ UNCHANGED answerVars
    BY <1>5 DEF OnReceivingResponse
  <2>2. ASSUME NEW error, FailAsync(f, error)  PROVE Works(f)
    BY <1>0, <2>1, <2>2
  <2>3. ASSUME NEW o \in {"QueryDataAvailable", "ReadData"}, Call(o, 1), Finish(f, "PENDING")
        PROVE  Works(f)
    BY ONLY Control, f \in Frames, <2>1, <2>3, CallTurn DEF Own, WinHttpOps
  <2>4. QED  BY ONLY <1>5, <2>2, <2>3 DEF OnReceivingResponse
<1>6. CASE OnSendingRequest(f)
  <2>1. pc[f] = "async" /\ UNCHANGED answerVars
    BY <1>6 DEF OnSendingRequest
  <2>2. ASSUME NEW error, FailAsync(f, error)  PROVE Works(f)
    BY <1>0, <2>1, <2>2
  <2>3. ASSUME NEW o \in {"WriteData", "ReceiveResponse"}, Call(o, 1), Finish(f, "PENDING")
        PROVE  Works(f)
    BY ONLY Control, f \in Frames, <2>1, <2>3, CallTurn DEF Own, WinHttpOps
  <2>4. CASE WriteLastChunk(f, 1) \/ ReceiveResponse(f, 1)
    BY ONLY <2>3, <2>4 DEF WriteLastChunk, ReceiveResponse
  <2>5. QED  BY ONLY <1>6, <2>2, <2>3, <2>4 DEF OnSendingRequest
<1>7. QED  BY <1>1, <1>2, <1>3, <1>4, <1>5, <1>6 DEF OnAsyncCompletion

-----------------------------------------------------------------------------
(* Counting.                                                               *)

LEMMA OpsFinite == IsFiniteSet(WinHttpOps)
<1>1. IsFiniteSet({"SendRequest"})
  BY FS_EmptySet, FS_AddElement, {"SendRequest"} = {} \cup {"SendRequest"}
<1>2. IsFiniteSet({"SendRequest"} \cup {"WriteData"})
  BY <1>1, FS_AddElement
<1>3. IsFiniteSet(({"SendRequest"} \cup {"WriteData"}) \cup {"ReceiveResponse"})
  BY <1>2, FS_AddElement
<1>4. IsFiniteSet((({"SendRequest"} \cup {"WriteData"}) \cup {"ReceiveResponse"})
                  \cup {"QueryDataAvailable"})
  BY <1>3, FS_AddElement
<1>5. IsFiniteSet(((({"SendRequest"} \cup {"WriteData"}) \cup {"ReceiveResponse"})
                   \cup {"QueryDataAvailable"}) \cup {"ReadData"})
  BY <1>4, FS_AddElement
<1>6. WinHttpOps = ((({"SendRequest"} \cup {"WriteData"}) \cup {"ReceiveResponse"})
                    \cup {"QueryDataAvailable"}) \cup {"ReadData"}
  BY DEF WinHttpOps
<1>7. QED  BY <1>5, <1>6

LEMMA Counts ==
    /\ IsFiniteSet(Holders) /\ Cardinality(Holders) \in Nat
    /\ IsFiniteSet(Busy) /\ Cardinality(Busy) \in Nat
<1>1. Holders \subseteq Frames /\ Busy \subseteq WinHttpOps
  BY DEF Holders, Busy
<1>2. IsFiniteSet(Holders) /\ IsFiniteSet(Busy)
  BY <1>1, FS_Subset, OpsFinite, ForwardingHandlerAssumption
<1>3. QED  BY <1>2, FS_CardinalityType

LEMMA Moved ==
    ASSUME Control, NEW f \in Frames, NEW l \in Labels, Goto(f, l)
    PROVE  /\ pc' \in [Frames -> Labels] /\ pc'[f] = l
           /\ \A g \in Frames \ {f} : pc'[g] = pc[g]
BY DEF Control, Goto

LEMMA HoldersMove ==
    ASSUME Control, NEW f \in Frames, NEW l \in Labels, Goto(f, l)
    PROVE  Cardinality(Holders') = Cardinality(Holders) + Held(l) - Held(pc[f])
<1>1. pc'[f] = l /\ \A g \in Frames \ {f} : pc'[g] = pc[g]
  BY Moved
<1>2. CASE l \in HoldingLabels /\ pc[f] \notin HoldingLabels
  <2>1. Holders' = Holders \cup {f} /\ f \notin Holders
    BY <1>1, <1>2 DEF Holders
  <2>2. Cardinality(Holders') = Cardinality(Holders) + 1
    BY <2>1, Counts, FS_AddElement
  <2>3. Held(l) = 1 /\ Held(pc[f]) = 0
    BY <1>2 DEF Held
  <2>4. QED  BY ONLY <2>2, <2>3, Counts
<1>3. CASE l \notin HoldingLabels /\ pc[f] \in HoldingLabels
  <2>1. Holders' = Holders \ {f} /\ f \in Holders
    BY <1>1, <1>3 DEF Holders
  <2>2. Cardinality(Holders') = Cardinality(Holders) - 1
    BY <2>1, Counts, FS_RemoveElement
  <2>3. Held(l) = 0 /\ Held(pc[f]) = 1
    BY <1>3 DEF Held
  <2>4. QED  BY ONLY <2>2, <2>3, Counts
<1>4. CASE l \in HoldingLabels <=> pc[f] \in HoldingLabels
  <2>1. Holders' = Holders
    BY <1>1, <1>4 DEF Holders
  <2>2. QED  BY <1>4, <2>1, Counts DEF Held
<1>5. QED  BY <1>2, <1>3, <1>4

LEMMA BusyBegin ==
    ASSUME Control, NEW o \in Ops, ops[o] = 0, Begin(o)
    PROVE  /\ ops' \in [Ops -> {0, 1}] /\ ops'[o] = 1
           /\ \A x \in Ops \ {o} : ops'[x] = ops[x]
           /\ Cardinality(Busy') = Cardinality(Busy) + OpRef(o)
<1>1. ops' \in [Ops -> {0, 1}] /\ ops'[o] = 1 /\ \A x \in Ops \ {o} : ops'[x] = ops[x]
  BY DEF Control, Begin
<1>2. CASE o \in WinHttpOps
  <2>1. Busy' = Busy \cup {o} /\ o \notin Busy
    BY <1>1, <1>2 DEF Busy, Ops
  <2>2. QED  BY <1>1, <1>2, <2>1, Counts, FS_AddElement DEF OpRef
<1>3. CASE o \notin WinHttpOps
  <2>1. Busy' = Busy
    BY <1>1, <1>3 DEF Busy, Ops
  <2>2. QED  BY <1>1, <1>3, <2>1, Counts DEF OpRef
<1>4. QED  BY <1>2, <1>3

LEMMA BusyEnd ==
    ASSUME Control, NEW o \in Ops, ops[o] = 1, ops' = [ops EXCEPT ![o] = @ - 1]
    PROVE  /\ ops' \in [Ops -> {0, 1}] /\ ops'[o] = 0
           /\ \A x \in Ops \ {o} : ops'[x] = ops[x]
           /\ Cardinality(Busy') = Cardinality(Busy) - OpRef(o)
<1>1. ops' \in [Ops -> {0, 1}] /\ ops'[o] = 0 /\ \A x \in Ops \ {o} : ops'[x] = ops[x]
  BY DEF Control
<1>2. CASE o \in WinHttpOps
  <2>1. Busy' = Busy \ {o} /\ o \in Busy
    BY <1>1, <1>2 DEF Busy, Ops
  <2>2. QED  BY <1>1, <1>2, <2>1, Counts, FS_RemoveElement DEF OpRef
<1>3. CASE o \notin WinHttpOps
  <2>1. Busy' = Busy
    BY <1>1, <1>3 DEF Busy, Ops
  <2>2. QED  BY <1>1, <1>3, <2>1, Counts DEF OpRef
<1>4. QED  BY <1>2, <1>3

\* A handler is alive as long as a frame or the module holds a reference.
LEMMA Alive ==
    ASSUME Inv
    PROVE  /\ \A f \in Frames : pc[f] \in HoldingLabels => cRefs > 0
           /\ answers = 0 => cRefs > 0
           /\ module => cRefs > 0
<1>1. cRefs = (IF module THEN 1 ELSE 0) + Cardinality(Holders) + Cardinality(Busy)
  BY DEF Inv, RefsExact, Holders, Busy, HoldingLabels
<1>2. ASSUME NEW f \in Frames, pc[f] \in HoldingLabels  PROVE Cardinality(Holders) > 0
  <2>1. Holders # {}
    BY <1>2 DEF Holders
  <2>2. QED  BY <2>1, Counts, FS_EmptySet
<1>3. QED  BY <1>1, <1>2, Counts DEF Inv, Control

LEMMA Sum ==
    ASSUME RefsExact
    PROVE  cRefs = (IF module THEN 1 ELSE 0) + Cardinality(Holders) + Cardinality(Busy)
BY DEF RefsExact, Holders, Busy, HoldingLabels

\* RefsExact holds after a step that takes d references for what it adds.
LEMMA NewSum ==
    ASSUME NEW d \in Int, NEW h \in Int, NEW b \in Int, NEW m \in Int, Inv,
           cRefs' = cRefs + d,
           (IF module THEN 1 ELSE 0)' = (IF module THEN 1 ELSE 0) + m,
           Cardinality(Holders') = Cardinality(Holders) + h,
           Cardinality(Busy') = Cardinality(Busy) + b,
           d = m + h + b
    PROVE  RefsExact'
<1>1. cRefs' = (IF module' THEN 1 ELSE 0) + Cardinality(Holders') + Cardinality(Busy')
  BY Sum, Counts DEF Inv, Control
<1>2. QED  BY <1>1 DEF RefsExact, Holders, Busy, HoldingLabels

\* Where a frame's label and result change, the others owe what they owed.
LEMMA OthersOwe ==
    ASSUME Control, NEW f \in Frames, NEW l \in Labels, Goto(f, l),
           \A g \in Frames \ {f} : result'[g] = result[g]
    PROVE  \A g \in Frames \ {f} : Owes(g)' <=> Owes(g)
BY Moved DEF Owes

LEMMA KeepsTurnInv ==
    ASSUME Inv, NEW f \in Frames, KeepsTurn(f)
    PROVE  Inv'
<1>1. "return" \in Labels /\ Goto(f, "return") /\ pc[f] \in Working
  BY DEF KeepsTurn, Labels
<1>2. PICK r \in Results \ {"PENDING"} : result' = [result EXCEPT ![f] = r]
  BY DEF KeepsTurn
<1>3. /\ result' \in [Frames -> Results] /\ result'[f] # "PENDING"
      /\ \A g \in Frames \ {f} : result'[g] = result[g]
  BY <1>2 DEF Inv, Control
<1>4. pc' \in [Frames -> Labels] /\ pc'[f] = "return" /\ \A g \in Frames \ {f} : pc'[g] = pc[g]
  BY <1>1, Moved DEF Inv
<1>5. Control'
  BY <1>3, <1>4 DEF Inv, Control, KeepsTurn, Own, answerVars
<1>6. \A g \in Frames : Owes(g)' <=> Owes(g)
  <2>1. Owes(f)' /\ Owes(f)
    BY <1>1, <1>3, <1>4 DEF Owes, Working
  <2>2. QED  BY <2>1, <1>1, <1>3, OthersOwe DEF Inv
<1>7. OneParty'
  BY <1>6 DEF Inv, OneParty, KeepsTurn, answerVars
<1>8. RefsExact'
  <2>1. Cardinality(Holders') = Cardinality(Holders) + Own(pc[f])
    BY <1>1, HoldersMove, Counts DEF Inv, Held, HoldingLabels, Working, Own
  <2>2. Cardinality(Busy') = Cardinality(Busy) + 0
    BY Counts DEF Busy, KeepsTurn
  <2>3. QED
    BY <2>1, <2>2, NewSum DEF KeepsTurn, Own, answerVars
<1>9. QED  BY <1>5, <1>7, <1>8 DEF Inv

LEMMA PassesTurnInv ==
    ASSUME Inv, NEW f \in Frames, NEW o \in Ops, PassesTurn(f, o)
    PROVE  Inv'
<1>1. PICK l \in {"return", "close"} : Goto(f, l)
  BY DEF PassesTurn
<1>2. l \in Labels /\ pc[f] \in Working /\ Owes(f)
  BY DEF PassesTurn, Labels, Owes, Working
<1>3. /\ result' \in [Frames -> Results] /\ result'[f] = "PENDING"
      /\ \A g \in Frames \ {f} : result'[g] = result[g]
  BY DEF Inv, Control, PassesTurn, Results
<1>4. pc' \in [Frames -> Labels] /\ pc'[f] = l /\ \A g \in Frames \ {f} : pc'[g] = pc[g]
  BY <1>1, <1>2, Moved DEF Inv
<1>5. \A x \in Ops : ops[x] = 0
  BY <1>2 DEF Inv, OneParty, Control
<1>6. /\ ops' \in [Ops -> {0, 1}] /\ ops'[o] = 1
      /\ \A x \in Ops \ {o} : ops'[x] = 0
      /\ Cardinality(Busy') = Cardinality(Busy) + OpRef(o)
  BY <1>5, BusyBegin DEF Inv, PassesTurn
<1>7. Control'
  BY <1>3, <1>4, <1>6 DEF Inv, Control, PassesTurn, Own, OpRef, answerVars
<1>8. \A g \in Frames : ~Owes(g)'
  <2>1. ~Owes(f)'
    BY <1>3, <1>4 DEF Owes
  <2>2. QED  BY <2>1, <1>1, <1>2, <1>3, OthersOwe DEF Inv, OneParty
<1>9. OneParty'
  <2>1. answers = 0 /\ answers' = 0
    BY <1>2 DEF Inv, OneParty, PassesTurn, answerVars
  <2>2. QED  BY <2>1, <1>6, <1>8 DEF OneParty
<1>10. RefsExact'
  <2>1. Cardinality(Holders') = Cardinality(Holders) + Own(pc[f])
    BY <1>1, <1>2, HoldersMove, Counts DEF Inv, Held, HoldingLabels, Working, Own
  <2>2. QED
    BY <2>1, <1>6, NewSum DEF PassesTurn, Own, OpRef, answerVars
<1>11. QED  BY <1>7, <1>9, <1>10 DEF Inv

LEMMA WorksInv ==
    ASSUME Inv, NEW f \in Frames, Works(f)
    PROVE  Inv'
BY KeepsTurnInv, PassesTurnInv DEF Works

LEMMA DeliverInv ==
    ASSUME Inv, NEW o \in Ops, Deliver(o)
    PROVE  Inv'
<1>1. PICK f \in Frames :
        IF o \in WinHttpOps THEN OnWinHttpCompletion(f, o) ELSE OnIisCompletion(f, o)
  BY DEF Deliver
<1> DEFINE l == IF o \in WinHttpOps THEN "callback" ELSE "async"
<1>2. /\ pc[f] = "idle" /\ ops[o] > 0 /\ ops' = [ops EXCEPT ![o] = @ - 1] /\ Goto(f, l)
      /\ UNCHANGED <<result, cRefs, answerVars>>
  BY <1>1 DEF OnWinHttpCompletion, OnIisCompletion
<1>3. l \in Labels /\ ops[o] = 1
  BY <1>2 DEF Labels, Inv, Control
<1>4. pc' \in [Frames -> Labels] /\ pc'[f] = l /\ \A g \in Frames \ {f} : pc'[g] = pc[g]
  BY <1>2, <1>3, Moved DEF Inv
<1>5. /\ ops' \in [Ops -> {0, 1}] /\ ops'[o] = 0
      /\ \A x \in Ops \ {o} : ops'[x] = ops[x]
      /\ Cardinality(Busy') = Cardinality(Busy) - OpRef(o)
  BY <1>2, <1>3, BusyEnd DEF Inv
<1>6. Control'
  BY <1>2, <1>4, <1>5 DEF Inv, Control, answerVars
<1>7. /\ Owes(f)' /\ \A g \in Frames \ {f} : ~Owes(g)'
      /\ \A x \in Ops : ops'[x] = 0
  <2>1. Owes(f)'
    BY <1>4 DEF Owes
  <2>2. QED  BY <2>1, <1>2, <1>3, <1>5, OthersOwe DEF Inv, OneParty, Control
<1>8. OneParty'
  <2>1. answers = 0 /\ answers' = 0
    BY <1>2, <1>3 DEF Inv, OneParty, answerVars
  <2>2. QED  BY <2>1, <1>7 DEF OneParty
<1>9. RefsExact'
  <2>1. Cardinality(Holders') = Cardinality(Holders) + OpRef(o)
    BY <1>2, <1>3, HoldersMove, Counts DEF Inv, Held, HoldingLabels, OpRef
  <2>2. Cardinality(Busy') = Cardinality(Busy) + (0 - OpRef(o))
    BY <1>5, Counts DEF OpRef
  <2>3. cRefs' = cRefs + 0 /\ module' = module
    BY <1>2 DEF Inv, Control, answerVars
  <2>4. QED  BY <2>1, <2>2, <2>3, NewSum DEF OpRef
<1>10. QED  BY <1>6, <1>8, <1>9 DEF Inv

LEMMA ReturnInv ==
    ASSUME Inv, NEW f \in Frames, Return(f)
    PROVE  Inv'
<1> DEFINE l == IF result[f] = "POST" THEN "post" ELSE "idle"
<1>1. /\ pc[f] = "return" /\ Goto(f, l) /\ l \in Labels /\ cRefs' = cRefs - 1
      /\ result' = [result EXCEPT ![f] = "PENDING"] /\ UNCHANGED <<ops, module>>
  BY DEF Return, Dereference, Labels
<1>2. pc' \in [Frames -> Labels] /\ pc'[f] = l /\ \A g \in Frames \ {f} : pc'[g] = pc[g]
  BY <1>1, Moved DEF Inv
<1>3. /\ result' \in [Frames -> Results] /\ result'[f] = "PENDING"
      /\ \A g \in Frames \ {f} : result'[g] = result[g]
  BY <1>1 DEF Inv, Control, Results
<1>4. \A g \in Frames \ {f} : Owes(g)' <=> Owes(g)
  BY <1>1, <1>3, OthersOwe DEF Inv
<1>5. cRefs' \in Nat
  BY <1>1, Alive DEF Inv, Control, HoldingLabels
<1>6. RefsExact'
  <2>1. Cardinality(Holders') = Cardinality(Holders) + (0 - 1)
    BY <1>1, HoldersMove, Counts DEF Inv, Held, HoldingLabels
  <2>2. Cardinality(Busy') = Cardinality(Busy) + 0
    BY <1>1, Counts DEF Busy
  <2>3. cRefs' = cRefs + (0 - 1)
    BY <1>1 DEF Inv, Control
  <2>4. QED  BY <1>1, <2>1, <2>2, <2>3, NewSum
<1>7. CASE result[f] \in {"CONTINUE", "FINISH_REQUEST"}
  <2>1. Owes(f)
    BY <1>1, <1>7 DEF Owes
  <2>2. answers' = 1 /\ answer' = result[f]
    BY <2>1, <1>7 DEF Return, Inv, OneParty
  <2>3. ~Owes(f)' /\ \A g \in Frames : ~Owes(g)'
    BY <2>1, <1>2, <1>4, <1>7 DEF Owes, Inv, OneParty
  <2>4. Control'
    BY <1>1, <1>2, <1>3, <1>5, <2>2, <1>7 DEF Inv, Control
  <2>5. OneParty'
    BY <1>1, <2>1, <2>2, <2>3 DEF Inv, OneParty, Control
  <2>6. QED  BY <1>6, <2>4, <2>5 DEF Inv
<1>8. CASE result[f] \in {"PENDING", "POST"}
  <2>1. UNCHANGED <<answers, answer>>
    BY <1>8 DEF Return
  <2>2. Owes(f)' <=> Owes(f)
    BY <1>1, <1>2, <1>3, <1>8 DEF Owes
  <2>3. Control'
    BY <1>1, <1>2, <1>3, <1>5, <2>1 DEF Inv, Control
  <2>4. OneParty'
    BY <1>1, <1>4, <2>1, <2>2 DEF Inv, OneParty
  <2>5. QED  BY <1>6, <2>3, <2>4 DEF Inv
<1>9. QED  BY <1>7, <1>8 DEF Inv, Control, Results

LEMMA CloseInv ==
    ASSUME Inv, NEW f \in Frames, CloseRequest(f)
    PROVE  Inv'
<1>1. /\ pc[f] = "close" /\ result[f] = "PENDING" /\ Goto(f, "return") /\ "return" \in Labels
      /\ UNCHANGED <<result, cRefs, ops, answerVars>>
  BY DEF CloseRequest, Labels, Inv, Control
<1>2. pc' \in [Frames -> Labels] /\ pc'[f] = "return" /\ \A g \in Frames \ {f} : pc'[g] = pc[g]
  BY <1>1, Moved DEF Inv
<1>3. \A g \in Frames : Owes(g)' <=> Owes(g)
  <2>1. Owes(f)' <=> Owes(f)
    BY <1>1, <1>2 DEF Owes
  <2>2. QED  BY <2>1, <1>1, OthersOwe DEF Inv
<1>4. Control'
  BY <1>1, <1>2 DEF Inv, Control, answerVars
<1>5. OneParty'
  BY <1>1, <1>3 DEF Inv, OneParty, answerVars
<1>6. RefsExact'
  <2>1. Cardinality(Holders') = Cardinality(Holders) + 0
    BY <1>1, HoldersMove, Counts DEF Inv, Held, HoldingLabels
  <2>2. Cardinality(Busy') = Cardinality(Busy) + 0
    BY <1>1, Counts DEF Busy
  <2>3. cRefs' = cRefs + 0 /\ module' = module
    BY <1>1 DEF Inv, Control, answerVars
  <2>4. QED  BY <2>1, <2>2, <2>3, NewSum
<1>7. QED  BY <1>4, <1>5, <1>6 DEF Inv

LEMMA PostInv ==
    ASSUME Inv, NEW f \in Frames, PostCompletion(f)
    PROVE  Inv'
<1>1. /\ pc[f] = "post" /\ Owes(f) /\ Goto(f, "idle") /\ "idle" \in Labels
      /\ Begin("PostCompletion") /\ "PostCompletion" \in Ops \ WinHttpOps
      /\ UNCHANGED <<result, cRefs, answerVars>>
  BY DEF PostCompletion, Labels, Owes, Ops, IisOps, WinHttpOps
<1>2. pc' \in [Frames -> Labels] /\ pc'[f] = "idle" /\ \A g \in Frames \ {f} : pc'[g] = pc[g]
  BY <1>1, Moved DEF Inv
<1>3. \A x \in Ops : ops[x] = 0
  BY <1>1 DEF Inv, OneParty, Control
<1>4. /\ ops' \in [Ops -> {0, 1}] /\ ops'["PostCompletion"] = 1
      /\ \A x \in Ops \ {"PostCompletion"} : ops'[x] = 0
      /\ Cardinality(Busy') = Cardinality(Busy) + OpRef("PostCompletion")
  BY <1>1, <1>3, BusyBegin DEF Inv
<1>5. Control'
  BY <1>1, <1>2, <1>4 DEF Inv, Control, answerVars
<1>6. \A g \in Frames : ~Owes(g)'
  <2>1. ~Owes(f)'
    BY <1>2 DEF Owes
  <2>2. QED  BY <2>1, <1>1, OthersOwe DEF Inv, OneParty
<1>7. OneParty'
  <2>1. answers = 0 /\ answers' = 0
    BY <1>1 DEF Inv, OneParty, answerVars
  <2>2. QED  BY <2>1, <1>1, <1>4, <1>6 DEF OneParty
<1>8. RefsExact'
  <2>1. Cardinality(Holders') = Cardinality(Holders) + 0
    BY <1>1, HoldersMove, Counts DEF Inv, Held, HoldingLabels
  <2>2. Cardinality(Busy') = Cardinality(Busy) + 0
    BY <1>1, <1>4, Counts DEF OpRef
  <2>3. cRefs' = cRefs + 0 /\ module' = module
    BY <1>1 DEF Inv, Control, answerVars
  <2>4. QED  BY <2>1, <2>2, <2>3, NewSum
<1>9. QED  BY <1>5, <1>7, <1>8 DEF Inv

LEMMA DestroyInv ==
    ASSUME Inv, DestroyModule
    PROVE  Inv'
<1>1. /\ answers = 1 /\ module /\ ~module' /\ cRefs' = cRefs - 1 /\ cRefs' \in Nat
      /\ UNCHANGED <<pc, result, ops, answers, answer>>
  BY Alive DEF DestroyModule, Dereference, Inv, Control, frameVars
<1>2. Control'
  BY <1>1 DEF Inv, Control, DestroyModule
<1>3. OneParty'
  BY <1>1 DEF Inv, OneParty, Owes
<1>4. RefsExact'
  <2>1. Cardinality(Holders') = Cardinality(Holders) + 0 /\ Cardinality(Busy') = Cardinality(Busy) + 0
    BY <1>1, Counts DEF Holders, Busy
  <2>2. cRefs' = cRefs + (0 - 1)
    BY <1>1 DEF Inv, Control
  <2>3. QED  BY <1>1, <2>1, <2>2, NewSum
<1>5. QED  BY <1>2, <1>3, <1>4 DEF Inv

LEMMA InitInv == Init => Inv
<1> SUFFICES ASSUME Init  PROVE Inv
  OBVIOUS
<1>1. /\ pc = [f \in Frames |-> IF f = First THEN "execute" ELSE "idle"]
      /\ result = [f \in Frames |-> "PENDING"] /\ ops = [o \in Ops |-> 0]
      /\ cRefs = 2 /\ module = TRUE /\ answers = 0 /\ answer = "none" /\ First \in Frames
  BY ForwardingHandlerAssumption DEF Init
<1>2. Control
  BY <1>1 DEF Control, Labels, Results
<1>3. OneParty
  BY <1>1 DEF OneParty, Owes
<1>4. RefsExact
  <2>1. Holders = {} \cup {First} /\ Busy = {}
    BY <1>1 DEF Holders, Busy, HoldingLabels, Ops
  <2>2. Cardinality(Holders) = 1 /\ Cardinality(Busy) = 0
    <3>1. Cardinality({} \cup {First}) = Cardinality({}) + 1
      BY FS_EmptySet, FS_AddElement
    <3>2. QED  BY <2>1, <3>1, FS_EmptySet
  <2>3. QED  BY <1>1, <2>2 DEF RefsExact, Holders, Busy, HoldingLabels
<1>5. QED  BY <1>2, <1>3, <1>4 DEF Inv

\* What the steps are, sorted by their effect.
LEMMA Steps ==
    ASSUME Inv, Next
    PROVE  \/ \E f \in Frames : Works(f) \/ CloseRequest(f) \/ Return(f) \/ PostCompletion(f)
           \/ \E o \in Ops : Deliver(o)
           \/ DestroyModule
BY Execute, Callback, Async DEF Next, Run, Inv

LEMMA NextInv == Inv /\ [Next]_vars => Inv'
<1>1. ASSUME Inv, Next  PROVE Inv'
  BY <1>1, Steps, WorksInv, CloseInv, ReturnInv, PostInv, DeliverInv, DestroyInv
<1>2. ASSUME Inv, UNCHANGED vars  PROVE Inv'
  <2>1. UNCHANGED <<pc, result, ops, cRefs, module, answers, answer>>
    BY <1>2 DEF vars, frameVars, answerVars
  <2>2. Control'
    BY <1>2, <2>1 DEF Inv, Control
  <2>3. OneParty'
    BY <1>2, <2>1 DEF Inv, OneParty, Owes
  <2>4. RefsExact'
    BY <1>2, <2>1 DEF Inv, RefsExact
  <2>5. QED  BY <2>2, <2>3, <2>4 DEF Inv
<1>3. QED  BY <1>1, <1>2

LEMMA Invariance == Spec => []Inv
BY InitInv, NextInv, PTL DEF Spec

-----------------------------------------------------------------------------
LEMMA OweOwing ==
    /\ \A f : f \in OwingFrames <=> f \in Frames /\ Owes(f)
BY DEF OwingFrames, Owes

\* For any number of frames: one party at a time owes the next step of the
\* request, until the one answer has been given.
THEOREM OneOwesTheorem == Spec => []OneOwes
<1>1. Inv => OneOwes
  <2> SUFFICES ASSUME Inv  PROVE OneOwes
    OBVIOUS
  <2>1. \A o \in Ops : ops[o] \in {0, 1}
    BY DEF Inv, Control
  <2>2. \A x, y \in Owing : x = y
    BY <2>1, OweOwing DEF Owing, Inv, OneParty
  <2>3. answers = IF Owing = {} THEN 1 ELSE 0
    BY <2>1, OweOwing DEF Owing, Inv, OneParty, Control
  <2>4. QED  BY <2>1, <2>2, <2>3 DEF OneOwes
<1>2. QED  BY <1>1, Invariance, PTL

\* The reference count is exact: the module's, one of each frame that holds one,
\* one of each WinHTTP operation under way.
THEOREM RefsExactTheorem == Spec => []RefsExact
<1>1. Inv => RefsExact
  BY DEF Inv
<1>2. QED  BY <1>1, Invariance, PTL

\* The handler exists while an operation may call back or a frame runs, also
\* where the frame holds no reference (PostCompletion, forwardinghandler.cxx:2285).
THEOREM HandlerOutlivesUseTheorem == Spec => []HandlerOutlivesUse
<1>1. Inv => HandlerOutlivesUse
  <2> SUFFICES ASSUME Inv  PROVE HandlerOutlivesUse
    OBVIOUS
  <2>1. ASSUME NEW o \in Ops, ops[o] > 0  PROVE cRefs > 0
    BY <2>1, Alive DEF Inv, Control, OneParty
  <2>2. ASSUME NEW f \in Frames, pc[f] # "idle"  PROVE cRefs > 0
    <3>1. pc[f] \in HoldingLabels \/ Owes(f)
      BY <2>2 DEF Inv, Control, Labels, HoldingLabels, Owes
    <3>2. Owes(f) => answers = 0
      BY DEF Inv, OneParty
    <3>3. QED  BY <3>1, <3>2, Alive
  <2>3. QED  BY <2>1, <2>2 DEF HandlerOutlivesUse
<1>2. QED  BY <1>1, Invariance, PTL

-----------------------------------------------------------------------------
(* Refinement of RequestLife.                                              *)

LEMMA OwesForm ==
    ASSUME Inv
    PROVE  /\ (\E f \in Frames : Owes(f)) => owes = "module"
           /\ (\E o \in Ops : ops[o] = 1) => owes = "operation"
           /\ answers = 1 <=> owes = "nobody"
<1>1. \A o \in Ops : ops[o] \in {0, 1}
  BY DEF Inv, Control
<1>2. (\E f \in Frames : Owes(f)) => owes = "module"
  BY OweOwing DEF owes, Owing
<1>3. (\E o \in Ops : ops[o] = 1) => owes = "operation"
  BY <1>1, OweOwing DEF owes, Owing, Inv, OneParty
<1>4. (\A f \in Frames : ~Owes(f)) /\ (\A o \in Ops : ops[o] # 1) => owes = "nobody"
  BY <1>1, OweOwing DEF owes, Owing
<1>5. QED  BY <1>2, <1>3, <1>4 DEF Inv, OneParty, Control

\* How the control state shows in RequestLife.
Mapped ==
    /\ (\E f \in Frames : Owes(f)) => owes = "module" /\ cRefs > 0
    /\ (\E o \in Ops : ops[o] = 1) => owes = "operation" /\ cRefs > 0
    /\ answers = 1 <=> owes = "nobody"
    /\ answers = 0 => cRefs > 0

LEMMA Mapping == Inv => Mapped
BY OwesForm, Alive DEF Inv, OneParty, Mapped

LEMMA MappingAfter == Inv' => Mapped'
BY Mapping, PTL

LEMMA WorksLife ==
    ASSUME Inv, Inv', NEW f \in Frames, Works(f)
    PROVE  [Life!Next]_(Life!lifeVars)
<1>1. pc[f] \in Working /\ Owes(f) /\ UNCHANGED answer
  BY DEF Works, KeepsTurn, PassesTurn, Working, Owes, answerVars
<1>2. owes = "module" /\ cRefs > 0 /\ cRefs # 0
  BY <1>1, Mapping DEF Mapped, Inv, Control
<1>3. CASE KeepsTurn(f)
  <2>1. Owes(f)'
    <3>1. Goto(f, "return") /\ pc'[f] = "return"
      BY <1>3 DEF KeepsTurn, Goto, Inv, Control
    <3>2. result'[f] # "PENDING"
      BY <1>3 DEF KeepsTurn, Inv, Control
    <3>3. QED  BY <3>1, <3>2 DEF Owes
  <2>2. owes' = "module" /\ cRefs' # 0
    BY <2>1, MappingAfter DEF Mapped, Inv, Control
  <2>3. UNCHANGED Life!lifeVars
    BY <1>1, <1>2, <2>2 DEF Life!lifeVars
  <2>4. QED  BY <2>3
<1>4. ASSUME NEW o \in Ops, PassesTurn(f, o)  PROVE Life!Start
  <2>1. ops[o] = 0 /\ Begin(o)
    BY <1>1, <1>4 DEF PassesTurn, Inv, OneParty, Control
  <2>2. ops'[o] = 1
    BY <2>1, BusyBegin DEF Inv
  <2>3. owes' = "operation" /\ cRefs' # 0
    BY <2>2, MappingAfter DEF Mapped, Inv, Control
  <2>4. QED  BY <1>1, <1>2, <2>3 DEF Life!Start
<1>5. QED  BY <1>3, <1>4 DEF Works, Life!Next

LEMMA DeliverLife ==
    ASSUME Inv, Inv', NEW o \in Ops, Deliver(o)
    PROVE  Life!Complete
<1>1. PICK f \in Frames :
        IF o \in WinHttpOps THEN OnWinHttpCompletion(f, o) ELSE OnIisCompletion(f, o)
  BY DEF Deliver
<1>2. /\ ops[o] = 1 /\ pc'[f] \in {"callback", "async"} /\ UNCHANGED answer
  BY <1>1 DEF OnWinHttpCompletion, OnIisCompletion, Goto, Inv, Control, answerVars
<1>3. owes = "operation" /\ cRefs # 0
  BY <1>2, Mapping DEF Mapped, Inv, Control
<1>4. Owes(f)'
  BY <1>2 DEF Owes
<1>5. owes' = "module" /\ cRefs' # 0
  BY <1>4, MappingAfter DEF Mapped, Inv, Control
<1>6. QED  BY <1>2, <1>3, <1>5 DEF Life!Complete

AliveModule == module => cRefs > 0

LEMMA AliveAfter == Inv' => AliveModule'
<1>1. Inv => AliveModule
  BY Alive DEF AliveModule
<1>2. QED  BY <1>1, PTL

\* Whom a frame owes nothing to when it returns does not change who owes.
LEMMA ReturnOwes ==
    ASSUME Inv, NEW f \in Frames, Goto(f, "idle") \/ Goto(f, "return"), UNCHANGED <<result, ops>>,
           ~Owes(f), ~Owes(f)'
    PROVE  owes' = owes
<1>1. \A g \in Frames \ {f} : Owes(g)' <=> Owes(g)
  BY OthersOwe DEF Inv, Labels
<1>2. OwingFrames' = OwingFrames
  BY <1>1 DEF OwingFrames, Owes
<1>3. QED  BY <1>2 DEF owes, Owing

LEMMA ReturnLife ==
    ASSUME Inv, Inv', NEW f \in Frames, Return(f)
    PROVE  [Life!Next]_(Life!lifeVars)
<1>1. pc[f] = "return" /\ cRefs > 0 /\ cRefs # 0 /\ cRefs' \in Nat /\ answers \in {0, 1} /\ answers' \in {0, 1}
  BY Alive DEF Return, Inv, Control, HoldingLabels
<1>2. CASE result[f] \in {"CONTINUE", "FINISH_REQUEST"}
  <2>1. Owes(f) /\ answers = 0 /\ answer' \in {"CONTINUE", "FINISH_REQUEST"} /\ module
        /\ UNCHANGED module /\ answers' = 1
    BY <1>1, <1>2 DEF Owes, Inv, OneParty, Control, Return
  <2>2. owes = "module" /\ owes' = "nobody"
    BY <2>1, Mapping, MappingAfter DEF Mapped
  <2>3. cRefs' # 0
    BY <1>1, <2>1, AliveAfter DEF AliveModule
  <2>4. Life!Answer
    BY <1>1, <2>1, <2>2, <2>3 DEF Life!Answer
  <2>5. QED  BY <2>4 DEF Life!Next
<1>3. CASE result[f] = "POST"
  <2>1. Owes(f) /\ UNCHANGED answer
    BY <1>1, <1>3 DEF Owes, Return
  <2>2. Owes(f)'
    BY <1>3 DEF Owes, Return, Goto, Inv, Control
  <2>3. owes = "module" /\ owes' = "module" /\ cRefs' # 0
    BY <1>1, <2>1, <2>2, Mapping, MappingAfter DEF Mapped
  <2>4. UNCHANGED Life!lifeVars
    BY <1>1, <2>1, <2>3 DEF Life!lifeVars
  <2>5. QED  BY <2>4
<1>4. CASE result[f] = "PENDING"
  <2>1. UNCHANGED <<answer, answers, ops, module>>
    BY <1>4 DEF Return
  <2>2. owes' = owes
    <3>1. Goto(f, "idle") /\ UNCHANGED <<result, ops>>
      BY <1>4 DEF Return, Inv, Control
    <3>2. ~Owes(f) /\ ~Owes(f)'
      BY <1>1, <1>4, <3>1 DEF Owes, Goto, Inv, Control
    <3>3. QED  BY <3>1, <3>2, ReturnOwes
  <2>3. cRefs' = 0 => owes = "nobody"
    BY <1>1, <2>1, Mapping, MappingAfter DEF Mapped
  <2>4. CASE cRefs' = 0
    BY <1>1, <2>1, <2>2, <2>3, <2>4 DEF Life!Free, Life!Next
  <2>5. CASE cRefs' # 0
    <3>1. UNCHANGED Life!lifeVars
      BY <1>1, <2>1, <2>2, <2>5 DEF Life!lifeVars
    <3>2. QED  BY <3>1
  <2>6. QED  BY <2>4, <2>5
<1>5. QED  BY <1>2, <1>3, <1>4 DEF Inv, Control, Results

LEMMA CloseLife ==
    ASSUME Inv, Inv', NEW f \in Frames, CloseRequest(f)
    PROVE  UNCHANGED Life!lifeVars
<1>1. /\ pc[f] = "close" /\ result[f] = "PENDING" /\ Goto(f, "return")
      /\ UNCHANGED <<result, cRefs, ops, answer>>
  BY DEF CloseRequest, Inv, Control, answerVars
<1>2. ~Owes(f) /\ ~Owes(f)'
  BY <1>1 DEF Owes, Goto, Inv, Control
<1>3. owes' = owes
  BY <1>1, <1>2, ReturnOwes
<1>4. QED  BY <1>1, <1>3 DEF Life!lifeVars

LEMMA PostLife ==
    ASSUME Inv, Inv', NEW f \in Frames, PostCompletion(f)
    PROVE  Life!Start
<1>1. /\ Owes(f) /\ Begin("PostCompletion") /\ "PostCompletion" \in Ops
      /\ UNCHANGED <<cRefs, answer>>
  BY DEF PostCompletion, Owes, Ops, IisOps, answerVars
<1>2. ops["PostCompletion"] = 0
  BY <1>1 DEF Inv, OneParty, Control
<1>3. ops'["PostCompletion"] = 1
  BY <1>1, <1>2, BusyBegin DEF Inv
<1>4. owes = "module" /\ owes' = "operation"
  BY <1>1, <1>3, Mapping, MappingAfter DEF Mapped
<1>5. QED  BY <1>1, <1>4 DEF Life!Start

LEMMA DestroyLife ==
    ASSUME Inv, Inv', DestroyModule
    PROVE  [Life!Next]_(Life!lifeVars)
<1>1. answers = 1 /\ answers' = 1 /\ UNCHANGED answer /\ module
  BY DEF DestroyModule, Inv, Control
<1>2. owes = "nobody" /\ owes' = "nobody" /\ cRefs # 0
  BY <1>1, Mapping, MappingAfter, Alive DEF Mapped, Inv, Control
<1>3. CASE cRefs' = 0
  BY <1>1, <1>2, <1>3 DEF Life!Free, Life!Next
<1>4. CASE cRefs' # 0
  <2>1. UNCHANGED Life!lifeVars
    BY <1>1, <1>2, <1>4 DEF Life!lifeVars
  <2>2. QED  BY <2>1
<1>5. QED  BY <1>3, <1>4

\* Refinement: the handler implements RequestLife.  The party that owes the
\* next step passes the turn, or answers, once; then only the deletion follows.
THEOREM KeepsPromiseTheorem == Spec => KeepsPromise
<1>1. Init => Life!Init
  <2> SUFFICES ASSUME Init  PROVE Life!Init
    OBVIOUS
  <2>1. Owes(First) /\ First \in Frames /\ answer = "none"
    BY ForwardingHandlerAssumption DEF Init, Owes
  <2>2. owes = "module" /\ cRefs > 0
    BY <2>1, InitInv, Mapping DEF Mapped
  <2>3. cRefs # 0
    BY DEF Init
  <2>4. QED  BY <2>1, <2>2, <2>3 DEF Life!Init
<1>2. Inv /\ Inv' /\ [Next]_vars => [Life!Next]_(Life!lifeVars)
  <2>1. ASSUME Inv, Inv', Next  PROVE [Life!Next]_(Life!lifeVars)
    <3>1. CASE \E o \in Ops : Deliver(o)
      BY <2>1, <3>1, DeliverLife DEF Life!Next
    <3>2. CASE \E f \in Frames : PostCompletion(f)
      BY <2>1, <3>2, PostLife DEF Life!Next
    <3>3. CASE \E f \in Frames : CloseRequest(f)
      <4>1. UNCHANGED Life!lifeVars
        BY <2>1, <3>3, CloseLife
      <4>2. QED  BY <4>1
    <3>4. QED
      BY <2>1, <3>1, <3>2, <3>3, Steps, WorksLife, ReturnLife, DestroyLife
  <2>2. ASSUME UNCHANGED vars  PROVE UNCHANGED Life!lifeVars
    <3>1. UNCHANGED <<pc, result, ops, answer, cRefs>>
      BY <2>2 DEF vars, frameVars, answerVars
    <3>2. owes' = owes
      BY <3>1 DEF owes, Owing, OwingFrames
    <3>3. QED  BY <3>1, <3>2 DEF Life!lifeVars
  <2>3. QED  BY <2>1, <2>2
<1>3. QED  BY <1>1, <1>2, Invariance, PTL DEF Spec, KeepsPromise, Life!Spec

-----------------------------------------------------------------------------
(* Theorems about the entity and the response that ForwardingHandler        *)
(* relays, for bodies of any length and buffers of any size.  They rest on  *)
(* the control above: one party at a time has the turn, so what an          *)
(* operation or a frame finds need only be said of it.                      *)

-----------------------------------------------------------------------------
(* The data: the entity on its way to the backend and the response on its  *)
(* way to the client.                                                      *)

DataTypes ==
    /\ entity \in Lengths /\ declared \in Lengths /\ reply \in Lengths /\ served \in Lengths
    /\ toSend \in Lengths /\ contentLength \in Lengths /\ chunk \in Lengths
    /\ toReceive \in 0..INFINITE /\ lastChunks \in 0..1 /\ chunked \in BOOLEAN
    /\ status \in {"START", "SENDING_REQUEST", "RECEIVING_RESPONSE",
                   "RECEIVED_WEBSOCKET_RESPONSE", "RESET_CONNECTION", "DONE"}
    /\ fWebSocket \in BOOLEAN /\ fHeaders \in BOOLEAN /\ buffers \in 0..1
    /\ hRequest \in {"null", "open"} /\ reset \in BOOLEAN
    /\ http \in {"unset", "backend", "child", "400", "502", "503"}
    /\ op \in [Frames -> Ops \cup {None}]

\* While the request is sent: what is left of its entity is expected, and the
\* terminating chunk was sent if and only if it was due.
Remaining ==
    /\ lastChunks = (IF chunked /\ toReceive = 0 THEN 1 ELSE 0)
    /\ chunked => toReceive = INFINITE \/ (toReceive = 0 /\ entity = 0)
    /\ ~chunked => toReceive # INFINITE /\ entity <= toReceive

\* How the counters of the response relate, whatever its end.
Flow ==
    /\ served + chunk + reply <= (IF declared = 0 THEN MaxBody ELSE declared)
    /\ toSend <= reply /\ contentLength <= declared
    /\ chunk > 0 => status = "RECEIVING_RESPONSE" /\ buffers = 1
    /\ ~fHeaders => served = 0 /\ chunk = 0 /\ toSend = 0
    /\ status \in {"START", "SENDING_REQUEST"} => ~fHeaders
    /\ status = "RECEIVED_WEBSOCKET_RESPONSE" => fWebSocket
    /\ status = "SENDING_REQUEST" => Remaining
    /\ EntityIsForwarded /\ LengthIsAccounted

\* The answer CONTINUE is right.
GoodEnd == http = "backend" /\ ~fWebSocket /\ declared # 0 => served = declared

\* What OnAsyncCompletion may rely on.
Awaited ==
    /\ status = "RECEIVING_RESPONSE" => fHeaders
    /\ status = "SENDING_REQUEST" => buffers = 1
    /\ status = "DONE" => GoodEnd

\* What holds while an operation is under way, and when its callback runs.
Phase(o) ==
    /\ o \in {"SendRequest", "WriteData"} => status = "SENDING_REQUEST"
    /\ o \in {"ReceiveResponse", "QueryDataAvailable", "ReadData"} =>
          status = "RECEIVING_RESPONSE"
    /\ o = "ReceiveResponse" => ~fHeaders
    /\ o \in {"QueryDataAvailable", "ReadData"} => fHeaders
    /\ o = "QueryDataAvailable" => toSend = 0 /\ buffers = 0
    /\ o \in {"ReadData", "ReadEntityBody"} \/ (o = "WriteData" /\ lastChunks = 0) =>
          buffers = 1
    /\ o \in WinHttpOps => chunk = 0
    /\ o = "WebSocket" => fWebSocket /\ status = "RECEIVED_WEBSOCKET_RESPONSE"
    /\ o \in IisOps => Awaited

\* What holds where a frame is.
Place(f) ==
    /\ pc[f] = "execute" =>
          status = "START" /\ http = "unset" /\ lastChunks = 0 /\ buffers = 0
    /\ pc[f] = "callback" => op[f] \in WinHttpOps /\ Phase(op[f])
    /\ pc[f] \in {"async", "post"} \/ (pc[f] = "return" /\ result[f] = "POST") => Awaited
    /\ pc[f] = "return" /\ result[f] \in {"CONTINUE", "FINISH_REQUEST"} =>
          status # "RECEIVING_RESPONSE"
    /\ pc[f] = "return" /\ result[f] = "CONTINUE" => GoodEnd

Turns ==
    /\ \A o \in Ops : ops[o] = 1 => Phase(o)
    /\ \A f \in Frames : Place(f)
    /\ answers = 1 => status # "RECEIVING_RESPONSE"
    /\ answers = 1 /\ answer = "CONTINUE" => GoodEnd

Data == DataTypes /\ Flow /\ Turns

-----------------------------------------------------------------------------
(* The turn passes.                                                        *)

\* Only the frame that works owes anything.
LEMMA Alone ==
    ASSUME Inv, NEW f \in Frames, Owes(f)
    PROVE  /\ \A o \in Ops : ops[o] = 0
           /\ \A g \in Frames \ {f} : ~Owes(g)
           /\ answers = 0
BY DEF Inv, Control, OneParty

\* A frame that owes nothing has nothing to rely on.
LEMMA ElsewhereAfter ==
    ASSUME NEW g \in Frames, ~Owes(g)', result'[g] \in Results
    PROVE  Place(g)'
BY DEF Owes, Place, Results

\* A frame keeps the turn: it will post a completion or give the answer.
LEMMA KeepPlace ==
    ASSUME Inv, NEW f \in Frames, pc[f] \in Working, NEW r \in Results \ {"PENDING"},
           Finish(f, r), UNCHANGED <<ops, answerVars>>,
           r = "POST" => Awaited',
           r # "POST" => status' # "RECEIVING_RESPONSE",
           r = "CONTINUE" => GoodEnd'
    PROVE  Turns' /\ op' = op
<1>1. Goto(f, "return") /\ "return" \in Labels /\ op' = op
      /\ result' = [result EXCEPT ![f] = r]
  BY DEF Finish, Labels
<1>2. pc'[f] = "return" /\ \A g \in Frames \ {f} : pc'[g] = pc[g]
  BY <1>1, Moved DEF Inv
<1>3. /\ result' \in [Frames -> Results] /\ result'[f] = r
      /\ \A g \in Frames \ {f} : result'[g] = result[g]
  BY <1>1 DEF Inv, Control
<1>4. Owes(f)
  BY DEF Owes, Working
<1>5. \A g \in Frames \ {f} : Place(g)'
  BY <1>1, <1>3, <1>4, Alone, OthersOwe, ElsewhereAfter DEF Inv
<1>6. Place(f)'
  BY <1>2, <1>3 DEF Place, Results
<1>7. \A o \in Ops : ops'[o] = 0
  BY <1>4, Alone
<1>8. answers' = 0
  BY <1>4, Alone DEF answerVars
<1> QED
  BY <1>1, <1>5, <1>6, <1>7, <1>8 DEF Turns

\* A frame passes the turn to an operation.
LEMMA PassPlace ==
    ASSUME Inv, NEW f \in Frames, pc[f] \in Working, NEW l \in {"return", "close"},
           Goto(f, l), result' = [result EXCEPT ![f] = "PENDING"],
           NEW o \in Ops, Begin(o), UNCHANGED answerVars, Phase(o)'
    PROVE  Turns'
<1>1. l \in Labels
  BY DEF Labels
<1>2. pc'[f] = l
  BY <1>1, Moved DEF Inv
<1>3. /\ result' \in [Frames -> Results] /\ result'[f] = "PENDING"
      /\ \A g \in Frames \ {f} : result'[g] = result[g]
  BY DEF Inv, Control, Results
<1>4. Owes(f)
  BY DEF Owes, Working
<1>5. \A g \in Frames \ {f} : ~Owes(g)'
  BY <1>1, <1>3, <1>4, Alone, OthersOwe DEF Inv
<1>6. ~Owes(f)'
  BY <1>2, <1>3 DEF Owes
<1>7. \A g \in Frames : Place(g)'
  BY <1>3, <1>5, <1>6, ElsewhereAfter
<1>8. \A x \in Ops \ {o} : ops'[x] = 0
  BY <1>4, Alone DEF Begin, Inv, Control
<1>9. answers' = 0
  BY <1>4, Alone DEF answerVars
<1> QED
  BY <1>7, <1>8, <1>9 DEF Turns

\* A WinHTTP call, as most frames end.
LEMMA CallPlace ==
    ASSUME Inv, NEW f \in Frames, pc[f] \in Working, Finish(f, "PENDING"),
           NEW o \in Ops, Begin(o), UNCHANGED answerVars, Phase(o)'
    PROVE  Turns' /\ op' = op
<1>1. Goto(f, "return") /\ result' = [result EXCEPT ![f] = "PENDING"] /\ op' = op
  BY DEF Finish
<1> QED
  BY <1>1, PassPlace

-----------------------------------------------------------------------------
(* The failure exits.                                                      *)

\* What a failed callback leaves is right whatever the counters are, as long as
\* they are in range.
LEMMA FailCallbackData ==
    ASSUME Inv, NEW f \in Frames, pc[f] = "callback", UNCHANGED answerVars,
           NEW error \in ServerErrors \cup {"client"}, FailCallback(f, error),
           chunk = 0, error = "client" => ~fHeaders
    PROVE  /\ Turns' /\ op' = op /\ chunk' = 0
           /\ status' \in {"DONE", "RESET_CONNECTION"}
           /\ reset' = reset /\ http' \in {http, "400", "502"}
<1>1. /\ status' = IF error = "invalid" THEN "RESET_CONNECTION" ELSE "DONE"
      /\ chunk' = 0 /\ reset' = reset /\ http' \in {http, "400", "502"}
      /\ error # "invalid" => http' \in {"400", "502"}
      /\ Finish(f, "POST") /\ UNCHANGED ops
  BY DEF FailCallback, ServerErrors
<1>2. Awaited'
  BY <1>1 DEF Awaited, GoodEnd
<1>3. Turns' /\ op' = op
  BY <1>1, <1>2, KeepPlace DEF Results, Working
<1> QED
  BY <1>1, <1>3

LEMMA FailAsyncData ==
    ASSUME Inv, NEW f \in Frames, pc[f] = "async", UNCHANGED answerVars,
           NEW error \in ServerErrors \cup {"client"}, FailAsync(f, error), DataTypes
    PROVE  /\ Turns' /\ op' = op /\ chunk' = 0 /\ status' = "DONE"
           /\ reset' \in BOOLEAN /\ http' \in {http, "400", "502"}
<1> DEFINE r == IF error = "invalid" THEN "CONTINUE" ELSE "FINISH_REQUEST"
<1>1. /\ status' = "DONE" /\ chunk' = 0 /\ reset' \in BOOLEAN
      /\ http' \in {http, "400", "502"} /\ (error = "invalid" => http' = "502")
      /\ Finish(f, r) /\ UNCHANGED ops
  BY DEF FailAsync, Leave, DataTypes
<1>2. r \in Results \ {"PENDING"} /\ r # "POST"
  BY DEF Results
<1>3. r = "CONTINUE" => GoodEnd'
  BY <1>1 DEF GoodEnd
<1>4. Turns' /\ op' = op
  BY <1>1, <1>2, <1>3, KeepPlace DEF Working
<1> QED
  BY <1>1, <1>4

\* A request that is over has few obligations left.
Over == status \in {"DONE", "RESET_CONNECTION"}

LEMMA OverFlow ==
    ASSUME DataTypes', Over', chunk' = 0,
           served' + reply' <= (IF declared' = 0 THEN MaxBody ELSE declared'),
           toSend' <= reply', contentLength' <= declared',
           ~fHeaders' => served' = 0 /\ toSend' = 0
    PROVE  Flow'
<1>1. served' \in Nat /\ reply' \in Nat
  BY DEF DataTypes, Lengths
<1>2. served' + chunk' + reply' <= (IF declared' = 0 THEN MaxBody ELSE declared')
  BY <1>1
<1> QED
  BY <1>2 DEF Flow, Over, EntityIsForwarded, LengthIsAccounted

-----------------------------------------------------------------------------
(* OnExecuteRequestHandler.                                                *)

LEMMA ExecuteData ==
    ASSUME Inv, Data, NEW f \in Frames, OnExecuteRequestHandler(f)
    PROVE  Data'
<1>1. /\ pc[f] = "execute" /\ pc[f] \in Working /\ status = "START" /\ http = "unset"
      /\ lastChunks = 0 /\ buffers = 0
      /\ ~fHeaders /\ served = 0 /\ chunk = 0 /\ toSend = 0
  BY DEF OnExecuteRequestHandler, ExecuteFails, ExecuteChildRequest, WriteErrorPage,
         SendRequest, Working, Data, Turns, Place, Flow
<1>2. CASE ExecuteFails(f)
  <2>1. /\ status' = "DONE" /\ http' \in {"400", "502"} /\ hRequest' \in {"null", "open"}
        /\ Finish(f, "FINISH_REQUEST")
        /\ UNCHANGED <<bodyVars, dataVars, chunk, reset, answerVars, ops>>
    BY <1>2 DEF ExecuteFails
  <2>2. Turns' /\ op' = op
    BY <1>1, <2>1, KeepPlace DEF Results
  <2>3. DataTypes'
    BY <2>1, <2>2 DEF Data, DataTypes, bodyVars, dataVars
  <2>4. Flow'
    BY <1>1, <2>1, <2>3, OverFlow DEF Data, Flow, Over, bodyVars, dataVars, DataTypes, Lengths
  <2> QED
    BY <2>2, <2>3, <2>4 DEF Data
<1>3. CASE ExecuteChildRequest(f)
  <2>1. /\ status' \in {"START", "DONE"} /\ http' \in {http, "child"}
        /\ UNCHANGED <<bodyVars, dataVars, chunk, reset, answerVars, hRequest>>
    BY <1>3 DEF ExecuteChildRequest
  <2>2. Turns' /\ op' = op
    <3>1. CASE http' = "child" /\ Finish(f, "CONTINUE") /\ UNCHANGED ops
      BY <1>1, <2>1, <3>1, KeepPlace DEF Results, GoodEnd
    <3>2. CASE Begin("ExecuteRequest") /\ Finish(f, "PENDING") /\ UNCHANGED http
      <4>1. Phase("ExecuteRequest")'
        BY <1>1, <2>1, <3>2 DEF Phase, WinHttpOps, Awaited, GoodEnd
      <4> QED
        BY <1>1, <2>1, <3>2, <4>1, CallPlace DEF Ops, IisOps
    <3> QED
      BY <1>3, <3>1, <3>2 DEF ExecuteChildRequest
  <2>3. DataTypes'
    BY <2>1, <2>2 DEF Data, DataTypes, bodyVars, dataVars
  <2>4. Flow'
    BY <1>1, <2>1 DEF Data, Flow, bodyVars, dataVars, EntityIsForwarded, LengthIsAccounted
  <2> QED
    BY <2>2, <2>3, <2>4 DEF Data
<1>4. CASE WriteErrorPage(f)
  <2>1. /\ status' \in {status, "DONE"} /\ http' \in {"unset", "502", "503"}
        /\ Finish(f, "CONTINUE") \/ Finish(f, "FINISH_REQUEST")
        /\ UNCHANGED <<bodyVars, dataVars, chunk, reset, answerVars, hRequest, ops>>
    BY <1>4 DEF WriteErrorPage
  <2>2. Turns' /\ op' = op
    BY <1>1, <2>1, KeepPlace DEF Results, GoodEnd
  <2>3. DataTypes'
    BY <1>1, <2>1, <2>2 DEF Data, DataTypes, bodyVars, dataVars
  <2>4. Flow'
    BY <1>1, <2>1 DEF Data, Flow, bodyVars, dataVars, EntityIsForwarded, LengthIsAccounted
  <2> QED
    BY <2>2, <2>3, <2>4 DEF Data
<1>5. CASE SendRequest(f)
  <2>1. /\ hRequest' = "open" /\ fWebSocket' \in BOOLEAN
        /\ toReceive' \in entity..INFINITE /\ chunked' = (toReceive' = INFINITE)
        /\ status' \in {"SENDING_REQUEST", "DONE"} /\ http' \in {http, "400", "502"}
        /\ UNCHANGED <<entity, declared, reply, served, lastChunks, toSend, contentLength,
                       fHeaders, buffers, chunk, reset, answerVars>>
    BY <1>5 DEF SendRequest
  <2>2. Turns' /\ op' = op
    <3>1. CASE Call("SendRequest", 0) /\ status' = "SENDING_REQUEST" /\ Finish(f, "PENDING")
      <4>1. Phase("SendRequest")'
        BY <1>1, <2>1, <3>1 DEF Phase, IisOps
      <4> QED
        BY <1>1, <2>1, <3>1, <4>1, CallPlace DEF Ops, WinHttpOps, Call
    <3>2. CASE /\ fWebSocket' /\ status' = "SENDING_REQUEST"
               /\ Finish(f, "CONTINUE") /\ UNCHANGED <<cRefs, ops, http>>
      BY <1>1, <2>1, <3>2, KeepPlace DEF Results, GoodEnd
    <3>3. CASE /\ status' = "DONE" /\ http' \in {"400", "502"}
               /\ Finish(f, "FINISH_REQUEST") /\ UNCHANGED <<cRefs, ops>>
      BY <1>1, <2>1, <3>3, KeepPlace DEF Results
    <3> QED
      BY <1>5, <3>1, <3>2, <3>3 DEF SendRequest
  <2>3. toReceive' \in 0..INFINITE /\ entity <= toReceive'
    BY <2>1, ForwardingHandlerAssumption DEF Data, DataTypes, Lengths, INFINITE
  <2>4. DataTypes'
    BY <2>1, <2>2, <2>3 DEF Data, DataTypes
  <2>5. Remaining'
    <3>1. INFINITE # 0
      BY ForwardingHandlerAssumption DEF INFINITE
    <3> QED
      BY <1>1, <2>1, <2>3, <3>1 DEF Remaining
  <2>6. Flow'
    BY <1>1, <2>1, <2>5 DEF Data, Flow, EntityIsForwarded, LengthIsAccounted
  <2> QED
    BY <2>2, <2>4, <2>6 DEF Data
<1> QED
  BY <1>2, <1>3, <1>4, <1>5 DEF OnExecuteRequestHandler

-----------------------------------------------------------------------------
(* Callbacks of WinHTTP.                                                   *)

\* A callback finds what its operation left.
LEMMA Found ==
    ASSUME Inv, Data, NEW f \in Frames, pc[f] = "callback"
    PROVE  Phase(op[f]) /\ op[f] \in WinHttpOps /\ chunk = 0 /\ pc[f] \in Working
BY DEF Data, Turns, Place, Phase, Working

LEMMA RequestErrorData ==
    ASSUME Inv, Data, NEW f \in Frames, RequestError(f)
    PROVE  Data'
<1>1. /\ pc[f] = "callback" /\ UNCHANGED <<bodyVars, dataVars, answerVars, hRequest>>
      /\ chunk = 0
  BY Found DEF RequestError
<1>2. PICK error \in ServerErrors : FailCallback(f, error)
  BY DEF RequestError
<1>3. error # "client"
  BY DEF ServerErrors
<1>4. /\ Turns' /\ op' = op /\ chunk' = 0 /\ Over'
      /\ reset' = reset /\ http' \in {http, "400", "502"}
  BY <1>1, <1>2, <1>3, FailCallbackData DEF Over
<1>5. DataTypes'
  BY <1>1, <1>4 DEF Data, DataTypes, bodyVars, dataVars, Over
<1>6. Flow'
  BY <1>1, <1>4, <1>5, OverFlow DEF Data, Flow, bodyVars, dataVars, DataTypes, Lengths
<1> QED
  BY <1>4, <1>5, <1>6 DEF Data

\* The request is over: the backend is asked for its response.
LEMMA AskResponse ==
    ASSUME Inv, Data, NEW f \in Frames, pc[f] \in Working, NEW own \in Int,
           ReceiveResponse(f, own), status = "SENDING_REQUEST", chunk = 0, Remaining,
           entity = 0, toReceive # INFINITE, buffers' \in 0..1,
           UNCHANGED <<responseVars, toSend, contentLength, fWebSocket, fHeaders,
                       answerVars, hRequest>>
    PROVE  Data'
<1>1. /\ status' = "RECEIVING_RESPONSE" /\ Begin("ReceiveResponse") /\ Finish(f, "PENDING")
      /\ UNCHANGED <<bodyVars, toReceive>> /\ ~fHeaders
  BY DEF ReceiveResponse, Call, Data, Flow
<1>2. Phase("ReceiveResponse")'
  BY <1>1 DEF Phase, IisOps, responseVars
<1>3. Turns' /\ op' = op
  BY <1>1, <1>2, CallPlace DEF Ops, WinHttpOps
<1>4. DataTypes'
  BY <1>1, <1>3 DEF Data, DataTypes, bodyVars, responseVars
<1>5. EntityIsForwarded'
  BY <1>1 DEF EntityIsForwarded, Remaining, bodyVars
<1>6. LengthIsAccounted'
  BY <1>1 DEF LengthIsAccounted
<1>7. Flow'
  BY <1>1, <1>5, <1>6 DEF Data, Flow, bodyVars, responseVars
<1> QED
  BY <1>3, <1>4, <1>7 DEF Data

\* The terminating chunk goes out.
LEMMA LastChunk ==
    ASSUME Inv, Data, NEW f \in Frames, pc[f] \in Working, NEW own \in Int,
           WriteLastChunk(f, own), status = "SENDING_REQUEST", chunk = 0, Remaining,
           entity = 0, toReceive = INFINITE, buffers' \in 0..1,
           UNCHANGED <<responseVars, toSend, contentLength, fWebSocket, fHeaders,
                       answerVars, hRequest>>
    PROVE  Data'
<1>1. INFINITE # 0
  BY ForwardingHandlerAssumption DEF INFINITE
<1>2. chunked /\ lastChunks = 0 /\ ~fHeaders
  BY <1>1 DEF Remaining, Data, Flow, DataTypes
<1>3. /\ toReceive' = 0 /\ lastChunks' = 1 /\ Begin("WriteData") /\ Finish(f, "PENDING")
      /\ UNCHANGED <<entity, declared, reply, served, chunked, status>>
  BY <1>2 DEF WriteLastChunk, Call
<1>4. Phase("WriteData")'
  BY <1>3 DEF Phase, IisOps, responseVars
<1>5. Turns' /\ op' = op
  BY <1>3, <1>4, CallPlace DEF Ops, WinHttpOps
<1>6. 0 \in 0..INFINITE
  BY ForwardingHandlerAssumption DEF INFINITE
<1>7. DataTypes'
  BY <1>3, <1>5, <1>6 DEF Data, DataTypes, responseVars
<1>8. Remaining'
  BY <1>2, <1>3 DEF Remaining
<1>9. Flow'
  BY <1>3, <1>8 DEF Data, Flow, responseVars, EntityIsForwarded, LengthIsAccounted
<1> QED
  BY <1>5, <1>7, <1>9 DEF Data

LEMMA SendCompleteData ==
    ASSUME Inv, Data, NEW f \in Frames, OnWinHttpCompletionSendRequestOrWriteComplete(f)
    PROVE  Data'
<1>1. /\ pc[f] = "callback" /\ pc[f] \in Working
      /\ UNCHANGED <<toSend, contentLength, fWebSocket, fHeaders, answerVars, hRequest>>
      /\ status = "SENDING_REQUEST" /\ chunk = 0 /\ Remaining /\ ~fHeaders
  BY Found DEF OnWinHttpCompletionSendRequestOrWriteComplete, Phase, Data, Flow
<1>2. entity \in Nat /\ toReceive \in Nat
  BY DEF Data, DataTypes, Lengths
<1>3. CASE /\ Begin("ReadEntityBody") /\ Finish(f, "PENDING") /\ buffers' = 1
           /\ UNCHANGED <<bodyVars, toReceive, status, responseVars, cRefs>>
  <2>1. Phase("ReadEntityBody")'
    BY <1>1, <1>3 DEF Phase, WinHttpOps, Awaited
  <2>2. Turns' /\ op' = op
    BY <1>1, <1>3, <2>1, CallPlace DEF Ops, IisOps
  <2>3. DataTypes'
    BY <1>1, <1>3, <2>2 DEF Data, DataTypes, bodyVars, responseVars
  <2>4. Flow'
    BY <1>1, <1>3 DEF Data, Flow, Remaining, bodyVars, responseVars, EntityIsForwarded,
       LengthIsAccounted
  <2> QED
    BY <2>2, <2>3, <2>4 DEF Data
<1>4. CASE /\ entity = 0 /\ toReceive > 0 /\ buffers' = 1 /\ UNCHANGED responseVars
           /\ IF toReceive = INFINITE THEN WriteLastChunk(f, 0) ELSE ReceiveResponse(f, 0)
  <2>1. buffers' \in 0..1
    BY <1>4
  <2> QED
    BY <1>1, <1>4, <2>1, AskResponse, LastChunk
<1>5. CASE toReceive = 0 /\ ReceiveResponse(f, 0) /\ UNCHANGED <<responseVars, buffers>>
  <2>1. entity = 0 /\ toReceive # INFINITE
    BY <1>1, <1>2, <1>5, ForwardingHandlerAssumption DEF Remaining, INFINITE
  <2>2. buffers' \in 0..1
    BY <1>5 DEF Data, DataTypes
  <2> QED
    BY <1>1, <1>5, <2>1, <2>2, AskResponse
<1>6. ASSUME NEW error \in ServerErrors \cup {"client"}, FailCallback(f, error),
             buffers' \in 0..1, UNCHANGED <<bodyVars, toReceive>>
      PROVE  Data'
  <2>1. /\ Turns' /\ op' = op /\ chunk' = 0 /\ Over'
        /\ reset' = reset /\ http' \in {http, "400", "502"}
    BY <1>1, <1>6, FailCallbackData DEF Over
  <2>2. DataTypes'
    BY <1>1, <1>6, <2>1 DEF Data, DataTypes, bodyVars, Over
  <2>3. Flow'
    BY <1>1, <1>6, <2>1, <2>2, OverFlow DEF Data, Flow, bodyVars, DataTypes, Lengths
  <2> QED
    BY <2>1, <2>2, <2>3 DEF Data
<1>7. buffers \in 0..1
  BY DEF Data, DataTypes
<1> QED
  BY <1>3, <1>4, <1>5, <1>6, <1>7 DEF OnWinHttpCompletionSendRequestOrWriteComplete

LEMMA HeadersData ==
    ASSUME Inv, Data, NEW f \in Frames, OnWinHttpCompletionStatusHeadersAvailable(f)
    PROVE  Data'
<1>1. /\ pc[f] = "callback" /\ pc[f] \in Working
      /\ UNCHANGED <<bodyVars, toReceive, toSend, answerVars, hRequest>>
      /\ status = "RECEIVING_RESPONSE" /\ ~fHeaders
      /\ served = 0 /\ chunk = 0 /\ toSend = 0
  BY Found DEF OnWinHttpCompletionStatusHeadersAvailable, Phase, Data, Flow
<1>2. CASE /\ http' = "backend" /\ fHeaders' = TRUE /\ contentLength' = declared
           /\ FreeResponseBuffers /\ fWebSocket' \in {FALSE, fWebSocket}
           /\ UNCHANGED <<chunk, reset>>
           /\ IF fWebSocket'
              THEN /\ status' = "RECEIVED_WEBSOCKET_RESPONSE"
                   /\ Begin("Flush") /\ Finish(f, "PENDING")
              ELSE Finish(f, "POST") /\ UNCHANGED <<status, ops>>
  <2>1. buffers' = 0
    BY <1>2 DEF FreeResponseBuffers
  <2>2. Awaited'
    BY <1>1, <1>2 DEF Awaited
  <2>3. Turns' /\ op' = op
    <3>1. CASE fWebSocket'
      <4>1. Phase("Flush")'
        BY <2>2 DEF Phase, WinHttpOps
      <4> QED
        BY <1>1, <1>2, <3>1, <4>1, CallPlace DEF Ops, IisOps
    <3>2. CASE ~fWebSocket'
      BY <1>1, <1>2, <2>2, <3>2, KeepPlace DEF Results
    <3> QED
      BY <3>1, <3>2
  <2>4. DataTypes'
    <3>1. fWebSocket' \in BOOLEAN /\ fHeaders' \in BOOLEAN
      BY <1>2, Zenon DEF Data, DataTypes
    <3>2. status' \in {"RECEIVED_WEBSOCKET_RESPONSE", "RECEIVING_RESPONSE"}
      BY <1>1, <1>2
    <3> QED
      BY <1>1, <1>2, <2>1, <2>3, <3>1, <3>2 DEF Data, DataTypes, bodyVars
  <2>5. EntityIsForwarded'
    BY <1>1, <1>2 DEF Data, Flow, EntityIsForwarded, bodyVars
  <2>6. LengthIsAccounted'
    BY <1>1, <1>2 DEF Data, DataTypes, Lengths, LengthIsAccounted, bodyVars
  <2>7. status' # "SENDING_REQUEST" /\ status' # "START"
        /\ (status' = "RECEIVED_WEBSOCKET_RESPONSE" => fWebSocket')
    BY <1>1, <1>2
  <2>8. Flow'
    BY <1>1, <1>2, <2>5, <2>6, <2>7 DEF Data, Flow, DataTypes, Lengths, bodyVars
  <2> QED
    BY <2>3, <2>4, <2>8 DEF Data
<1>3. CASE /\ FailCallback(f, "server")
           /\ fHeaders' \in {fHeaders, TRUE} /\ fWebSocket' \in {FALSE, fWebSocket}
           /\ contentLength' \in {contentLength, declared} /\ buffers' \in {buffers, 0}
  <2>1. /\ Turns' /\ op' = op /\ chunk' = 0 /\ Over'
        /\ reset' = reset /\ http' \in {http, "400", "502"}
    BY <1>1, <1>3, FailCallbackData DEF Over, ServerErrors
  <2>2. DataTypes'
    <3>1. fWebSocket' \in BOOLEAN /\ fHeaders' \in BOOLEAN
      BY <1>3, Zenon DEF Data, DataTypes
    <3> QED
      BY <1>1, <1>3, <2>1, <3>1 DEF Data, DataTypes, bodyVars, Over
  <2>3. served' + reply' <= (IF declared' = 0 THEN MaxBody ELSE declared')
    BY <1>1 DEF Data, Flow, bodyVars, DataTypes, Lengths
  <2>4. Flow'
    BY <1>1, <1>3, <2>1, <2>2, <2>3, OverFlow DEF Data, Flow, bodyVars, DataTypes, Lengths
  <2> QED
    BY <2>1, <2>2, <2>4 DEF Data
<1> QED
  BY <1>2, <1>3 DEF OnWinHttpCompletionStatusHeadersAvailable

LEMMA DataAvailableData ==
    ASSUME Inv, Data, NEW f \in Frames, OnWinHttpCompletionStatusDataAvailable(f)
    PROVE  Data'
<1>1. /\ pc[f] = "callback" /\ pc[f] \in Working
      /\ UNCHANGED <<bodyVars, toReceive, fWebSocket, fHeaders, answerVars, hRequest>>
      /\ status = "RECEIVING_RESPONSE" /\ fHeaders
      /\ chunk = 0 /\ toSend = 0 /\ buffers = 0
  BY Found DEF OnWinHttpCompletionStatusDataAvailable, Phase
<1>2. /\ served \in Nat /\ reply \in Nat /\ declared \in Nat /\ contentLength \in Nat
      /\ MaxBody \in Nat
  BY ForwardingHandlerAssumption DEF Data, DataTypes, Lengths
<1>3. /\ declared # 0 => served + contentLength = declared
      /\ served + reply <= (IF declared = 0 THEN MaxBody ELSE declared)
      /\ contentLength <= declared
  BY <1>1, <1>2 DEF Data, Flow, LengthIsAccounted
<1>4. CASE reply = 0 /\ EndOfResponse(f) /\ UNCHANGED <<toSend, contentLength, buffers>>
  <2>1. /\ Turns' /\ op' = op /\ chunk' = 0 /\ Over'
        /\ reset' = reset /\ http' \in {http, "400", "502"}
    <3>1. CASE FailCallback(f, "invalid")
      BY <1>1, <3>1, FailCallbackData DEF Over, ServerErrors
    <3>2. CASE /\ contentLength = 0 /\ status' = "DONE" /\ Finish(f, "POST")
               /\ UNCHANGED <<responseVars, ops, cRefs>>
      <4>1. Awaited'
        BY <1>1, <1>2, <1>3, <3>2 DEF Awaited, GoodEnd, bodyVars
      <4>2. Turns' /\ op' = op
        BY <1>1, <3>2, <4>1, KeepPlace DEF Results
      <4> QED
        BY <1>1, <3>2, <4>2 DEF Over, responseVars
    <3> QED
      BY <1>4, <3>1, <3>2 DEF EndOfResponse
  <2>2. DataTypes'
    BY <1>1, <1>4, <2>1 DEF Data, DataTypes, bodyVars, Over
  <2>3. Flow'
    BY <1>1, <1>2, <1>3, <1>4, <2>1, <2>2, OverFlow DEF bodyVars
  <2> QED
    BY <2>1, <2>2, <2>3 DEF Data
<1>5. ASSUME NEW dwBytes \in 1..reply, toSend' = dwBytes,
             contentLength' = IF contentLength # 0 THEN contentLength - dwBytes ELSE 0,
             \/ /\ buffers' = buffers + 1 /\ Call("ReadData", 0) /\ Finish(f, "PENDING")
                /\ UNCHANGED <<status, responseVars>>
             \/ /\ \E error \in ServerErrors : FailCallback(f, error)
                /\ buffers' \in {buffers, buffers + 1}
      PROVE  Data'
  <2>1. /\ contentLength' \in Lengths /\ contentLength' <= declared /\ toSend' \in Lengths
        /\ toSend' <= reply
        /\ declared # 0 => served + toSend' + contentLength' = declared
    <3>1. toSend' \in Lengths /\ toSend' <= reply
      BY <1>2, <1>5 DEF Data, DataTypes, Lengths
    <3>2. CASE declared = 0
      BY <1>2, <1>3, <1>5, <3>1, <3>2 DEF Lengths
    <3>3. CASE declared # 0
      <4>1. contentLength >= reply /\ contentLength # 0
        BY <1>2, <1>3, <1>5, <3>3
      <4>2. contentLength' = contentLength - dwBytes
        BY <1>5, <4>1
      <4>3. contentLength \in Lengths
        BY DEF Data, DataTypes
      <4> QED
        BY <1>2, <1>3, <1>5, <3>1, <3>3, <4>1, <4>2, <4>3 DEF Lengths
    <3> QED
      BY <3>2, <3>3
  <2>2. CASE /\ buffers' = buffers + 1 /\ Call("ReadData", 0) /\ Finish(f, "PENDING")
             /\ UNCHANGED <<status, responseVars>>
    <3>1. buffers' = 1
      BY <1>1, <2>2
    <3>2. Phase("ReadData")'
      BY <1>1, <2>2, <3>1 DEF Phase, IisOps, responseVars
    <3>3. Turns' /\ op' = op
      BY <1>1, <2>2, <3>2, CallPlace DEF Ops, WinHttpOps, Call
    <3>4. DataTypes'
      BY <1>1, <2>1, <2>2, <3>1, <3>3 DEF Data, DataTypes, bodyVars, responseVars
    <3>5. EntityIsForwarded'
      BY <1>1, <2>2 DEF Data, Flow, EntityIsForwarded, bodyVars
    <3>6. LengthIsAccounted'
      <4>1. served' = served /\ chunk' = 0 /\ declared' = declared
        BY <1>1, <2>2 DEF bodyVars, responseVars
      <4>2. toSend' \in Nat /\ contentLength' \in Nat
        BY <1>2, <2>1 DEF Lengths
      <4>3. served + 0 = served
        BY <1>2
      <4>4. declared # 0 => served + 0 + toSend' + contentLength' = declared
        BY <2>1, <4>3
      <4> QED
        BY <4>1, <4>4 DEF LengthIsAccounted
    <3>7. Flow'
      BY <1>1, <1>2, <1>3, <2>1, <2>2, <3>5, <3>6 DEF Flow, bodyVars, responseVars
    <3> QED
      BY <3>3, <3>4, <3>7 DEF Data
  <2>3. CASE /\ \E error \in ServerErrors : FailCallback(f, error)
             /\ buffers' \in {buffers, buffers + 1}
    <3>1. PICK error \in ServerErrors : FailCallback(f, error)
      BY <2>3
    <3>2. error # "client"
      BY DEF ServerErrors
    <3>3. /\ Turns' /\ op' = op /\ chunk' = 0 /\ Over'
          /\ reset' = reset /\ http' \in {http, "400", "502"}
      BY <1>1, <3>1, <3>2, FailCallbackData DEF Over
    <3>4. buffers' \in 0..1
      BY <1>1, <2>3
    <3>5. DataTypes'
      BY <1>1, <2>1, <3>3, <3>4 DEF Data, DataTypes, bodyVars, Over
    <3>6. Flow'
      BY <1>1, <1>2, <1>3, <2>1, <3>3, <3>5, OverFlow DEF bodyVars
    <3> QED
      BY <3>3, <3>5, <3>6 DEF Data
  <2> QED
    BY <1>5, <2>2, <2>3
<1> QED
  BY <1>4, <1>5 DEF OnWinHttpCompletionStatusDataAvailable

LEMMA ReadCompleteData ==
    ASSUME Inv, Data, NEW f \in Frames, OnWinHttpCompletionStatusReadComplete(f)
    PROVE  Data'
<1>1. /\ pc[f] = "callback" /\ pc[f] \in Working
      /\ UNCHANGED <<entity, declared, served, chunked, lastChunks, toReceive, contentLength,
                     fWebSocket, fHeaders, buffers, answerVars, hRequest>>
      /\ status = "RECEIVING_RESPONSE" /\ fHeaders /\ chunk = 0 /\ buffers = 1
  BY Found DEF OnWinHttpCompletionStatusReadComplete, Phase
<1>2. /\ served \in Nat /\ reply \in Nat /\ declared \in Nat /\ contentLength \in Nat
      /\ toSend \in Nat /\ MaxBody \in Nat /\ BufferSize \in Nat
  BY ForwardingHandlerAssumption DEF Data, DataTypes, Lengths
<1>3. /\ declared # 0 => served + toSend + contentLength = declared
      /\ served + reply <= (IF declared = 0 THEN MaxBody ELSE declared)
      /\ contentLength <= declared /\ toSend <= reply
  BY <1>1, <1>2 DEF Data, Flow, LengthIsAccounted
<1>4. CASE /\ Finish(f, "POST")
           /\ UNCHANGED <<reply, toSend, responseVars, status, cRefs, ops>>
  <2>1. Awaited'
    BY <1>1, <1>4 DEF Awaited
  <2>2. Turns' /\ op' = op
    BY <1>1, <1>4, <2>1, KeepPlace DEF Results
  <2>3. DataTypes'
    BY <1>1, <1>4, <2>2 DEF Data, DataTypes, responseVars
  <2>4. EntityIsForwarded' /\ LengthIsAccounted'
    BY <1>1, <1>4 DEF Data, Flow, EntityIsForwarded, LengthIsAccounted, responseVars
  <2>5. Flow'
    BY <1>1, <1>4, <2>4 DEF Data, Flow, responseVars
  <2> QED
    BY <2>2, <2>3, <2>5 DEF Data
<1>5. ASSUME NEW n \in 1..AtMost(toSend, BufferSize),
             /\ reply' = reply - n /\ toSend' = toSend - n
             /\ \/ chunk' = n /\ Begin("Flush") /\ Finish(f, "PENDING")
                   /\ UNCHANGED <<http, reset, status, cRefs>>
                \/ FailCallback(f, "server")
      PROVE  Data'
  <2>1. n \in Nat /\ 1 <= n /\ n <= toSend
    BY <1>2 DEF AtMost
  <2>2. reply' \in Lengths /\ toSend' \in Lengths /\ n \in Lengths /\ toSend' <= reply'
    BY <1>2, <1>3, <1>5, <2>1 DEF Data, DataTypes, Lengths
  <2>3. CASE chunk' = n /\ Begin("Flush") /\ Finish(f, "PENDING") /\ UNCHANGED <<http, reset, status>>
    <3>1. Phase("Flush")'
      BY <1>1, <2>3 DEF Phase, WinHttpOps, Awaited
    <3>2. Turns' /\ op' = op
      BY <1>1, <2>3, <3>1, CallPlace DEF Ops, IisOps
    <3>3. DataTypes'
      BY <1>1, <2>2, <2>3, <3>2 DEF Data, DataTypes
    <3>4. EntityIsForwarded'
      BY <1>1, <2>3 DEF Data, Flow, EntityIsForwarded
    <3>5. LengthIsAccounted'
      BY <1>1, <1>2, <1>3, <1>5, <2>1, <2>3 DEF LengthIsAccounted
    <3>6. served' + chunk' + reply' <= (IF declared' = 0 THEN MaxBody ELSE declared')
      BY <1>1, <1>2, <1>3, <1>5, <2>1, <2>3
    <3>7. Flow'
      BY <1>1, <1>3, <2>2, <2>3, <3>4, <3>5, <3>6 DEF Flow
    <3> QED
      BY <3>2, <3>3, <3>7 DEF Data
  <2>4. CASE FailCallback(f, "server")
    <3>1. /\ Turns' /\ op' = op /\ chunk' = 0 /\ Over'
          /\ reset' = reset /\ http' \in {http, "400", "502"}
      BY <1>1, <2>4, FailCallbackData DEF Over, ServerErrors
    <3>2. DataTypes'
      BY <1>1, <2>2, <3>1 DEF Data, DataTypes, Over
    <3>3. served' + reply' <= (IF declared' = 0 THEN MaxBody ELSE declared')
      BY <1>1, <1>2, <1>3, <1>5, <2>1
    <3>4. Flow'
      BY <1>1, <1>3, <2>2, <3>1, <3>2, <3>3, OverFlow
    <3> QED
      BY <3>1, <3>2, <3>4 DEF Data
  <2> QED
    BY <1>5, <2>3, <2>4
<1> QED
  BY <1>4, <1>5 DEF OnWinHttpCompletionStatusReadComplete

-----------------------------------------------------------------------------
(* OnAsyncCompletion.                                                      *)

\* A frame of OnAsyncCompletion finds what the operation promised.
LEMMA FoundAsync ==
    ASSUME Data, NEW f \in Frames, pc[f] = "async"
    PROVE  Awaited /\ pc[f] \in Working
BY DEF Data, Turns, Place, Working

LEMMA Between ==
    ASSUME NEW a \in Nat, NEW s \in Nat, NEW c \in Nat, NEW r \in Nat, NEW t \in Nat,
           NEW m \in Nat, a <= s + c, s + c + r <= t, t <= m
    PROVE  a + r <= t /\ a <= m
OBVIOUS

\* A failure that leaves the counters as they were, but for a chunk that may
\* have been sent.
LEMMA FailedData ==
    ASSUME Inv, Data, NEW f \in Frames, pc[f] = "async", NEW error \in ServerErrors \cup {"client"},
           FailAsync(f, error), served' \in {served, served + chunk}, buffers' \in 0..1,
           UNCHANGED <<entity, declared, reply, chunked, lastChunks, toReceive, toSend,
                       contentLength, fWebSocket, fHeaders, answerVars, hRequest>>
    PROVE  Data'
<1>1. /\ Turns' /\ op' = op /\ chunk' = 0 /\ Over'
      /\ reset' \in BOOLEAN /\ http' \in {http, "400", "502"} /\ status' = "DONE"
  BY FailAsyncData DEF Data, Over
<1>2. /\ served \in Nat /\ reply \in Nat /\ declared \in Nat /\ chunk \in Nat /\ MaxBody \in Nat
      /\ declared <= MaxBody
  BY ForwardingHandlerAssumption DEF Data, DataTypes, Lengths
<1>3. served + chunk + reply <= (IF declared = 0 THEN MaxBody ELSE declared)
  BY DEF Data, Flow
<1>4. served' \in Lengths /\ served' + reply <= (IF declared = 0 THEN MaxBody ELSE declared)
  <2>1. served' \in Nat /\ served' <= served + chunk
    BY <1>2
  <2>2. PICK total \in Nat : total = (IF declared = 0 THEN MaxBody ELSE declared)
                               /\ total <= MaxBody
    BY ONLY <1>2
  <2>3. served + chunk + reply <= total
    BY <1>3, <2>2
  <2>4. served' + reply <= total /\ served' <= MaxBody
    BY <1>2, <2>1, <2>2, <2>3, Between
  <2> QED
    BY ONLY <2>1, <2>2, <2>4, ForwardingHandlerAssumption DEF Lengths
<1>5. chunk' \in Lengths
  BY <1>1, <1>2 DEF Lengths
<1>6. DataTypes'
  BY <1>1, <1>4, <1>5 DEF Data, DataTypes
<1>7. ~fHeaders => served' = 0 /\ toSend = 0
  BY <1>2 DEF Data, Flow
<1>8. Flow'
  BY <1>1, <1>4, <1>6, <1>7, OverFlow DEF Data, Flow
<1> QED
  BY <1>1, <1>6, <1>8 DEF Data

\* A frame that leaves without starting anything changes none of the data.
LEMMA LeftData ==
    ASSUME Inv, Data, NEW f \in Frames, pc[f] = "async",
           NEW r \in {"CONTINUE", "FINISH_REQUEST"}, Leave(f, r),
           status # "RECEIVING_RESPONSE", r = "CONTINUE" => GoodEnd,
           UNCHANGED <<bodyVars, dataVars, responseVars, answerVars, hRequest, status>>
    PROVE  Data'
<1>1. Finish(f, r) /\ UNCHANGED ops /\ pc[f] \in Working
  BY DEF Leave, Working
<1>2. GoodEnd' <=> GoodEnd
  BY DEF GoodEnd, bodyVars, dataVars, responseVars
<1>3. Turns' /\ op' = op
  BY <1>1, <1>2, KeepPlace DEF Results
<1>4. DataTypes'
  BY <1>3 DEF Data, DataTypes, bodyVars, dataVars, responseVars
<1>5. Flow'
  BY DEF Data, Flow, bodyVars, dataVars, responseVars, Remaining, EntityIsForwarded,
         LengthIsAccounted
<1> QED
  BY <1>3, <1>4, <1>5 DEF Data

LEMMA SameFlow ==
    ASSUME Flow, UNCHANGED <<bodyVars, dataVars, responseVars, status>>
    PROVE  Flow'
BY DEF Flow, bodyVars, dataVars, responseVars, Remaining, EntityIsForwarded, LengthIsAccounted

LEMMA AsyncEndsData ==
    ASSUME Inv, Data, NEW f \in Frames,
           AsyncWithoutRequest(f) \/ AsyncResetConnection(f) \/ AsyncDone(f)
    PROVE  Data'
<1>1. /\ pc[f] = "async" /\ UNCHANGED <<bodyVars, dataVars, answerVars, hRequest>>
  BY DEF AsyncWithoutRequest, AsyncResetConnection, AsyncDone
<1>2. Awaited
  BY <1>1, FoundAsync
<1>3. ASSUME NEW error \in ServerErrors, FailAsync(f, error)  PROVE Data'
  <2>1. buffers' \in 0..1 /\ served' = served
    BY <1>1 DEF bodyVars, dataVars, Data, DataTypes
  <2> QED
    BY <1>1, <1>3, <2>1, FailedData DEF bodyVars, dataVars
<1>4. CASE AsyncWithoutRequest(f)
  <2>1. \/ status = "DONE" /\ Leave(f, "FINISH_REQUEST") /\ UNCHANGED <<responseVars, status>>
        \/ FailAsync(f, "server")
    BY <1>4 DEF AsyncWithoutRequest
  <2> QED
    BY <1>1, <1>3, <2>1, LeftData DEF ServerErrors
<1>5. CASE AsyncResetConnection(f)
  BY <1>3, <1>5 DEF AsyncResetConnection, ServerErrors
<1>6. CASE AsyncDone(f)
  <2>1. /\ status = "DONE" /\ Leave(f, "CONTINUE") /\ UNCHANGED <<responseVars, status>>
    BY <1>6 DEF AsyncDone
  <2>2. GoodEnd
    BY <1>2, <2>1 DEF Awaited
  <2> QED
    BY <1>1, <2>1, <2>2, LeftData
<1> QED
  BY <1>4, <1>5, <1>6

LEMMA AsyncWebSocketData ==
    ASSUME Inv, Data, NEW f \in Frames, AsyncWebSocket(f)
    PROVE  Data'
<1>1. /\ pc[f] = "async" /\ pc[f] \in Working /\ status = "RECEIVED_WEBSOCKET_RESPONSE"
      /\ UNCHANGED <<bodyVars, dataVars, answerVars, hRequest>> /\ fWebSocket
  BY DEF AsyncWebSocket, Working, Data, Flow
<1>2. CASE /\ Begin("WebSocket")
           /\ Goto(f, "close") /\ result' = [result EXCEPT ![f] = "PENDING"]
           /\ UNCHANGED <<op, responseVars, status>>
  <2>1. Phase("WebSocket")'
    BY <1>1, <1>2 DEF Phase, Awaited, WinHttpOps, dataVars
  <2>2. Turns'
    BY <1>1, <1>2, <2>1, PassPlace DEF Ops, IisOps
  <2>3. DataTypes'
    BY <1>1, <1>2 DEF Data, DataTypes, bodyVars, dataVars, responseVars
  <2> QED
    BY <1>1, <1>2, <2>2, <2>3, SameFlow DEF Data
<1>3. CASE Leave(f, "CONTINUE") /\ UNCHANGED <<responseVars, status>>
  <2>1. GoodEnd
    BY <1>1 DEF GoodEnd
  <2> QED
    BY <1>1, <1>3, <2>1, LeftData
<1>4. CASE FailAsync(f, "server")
  <2>1. buffers' \in 0..1 /\ served' = served
    BY <1>1 DEF bodyVars, dataVars, Data, DataTypes
  <2> QED
    BY <1>1, <1>4, <2>1, FailedData DEF bodyVars, dataVars, ServerErrors
<1> QED
  BY <1>2, <1>3, <1>4 DEF AsyncWebSocket

\* The response pump.
LEMMA ReceivingData ==
    ASSUME Inv, Data, NEW f \in Frames, OnReceivingResponse(f)
    PROVE  Data'
<1>1. /\ pc[f] = "async" /\ pc[f] \in Working /\ status = "RECEIVING_RESPONSE" /\ fHeaders
      /\ UNCHANGED <<entity, declared, reply, chunked, lastChunks, toReceive, toSend,
                     contentLength, fWebSocket, fHeaders, answerVars, hRequest>>
  BY FoundAsync DEF OnReceivingResponse, Awaited
<1>2. /\ served \in Nat /\ reply \in Nat /\ declared \in Nat /\ contentLength \in Nat
      /\ toSend \in Nat /\ chunk \in Nat /\ MaxBody \in Nat /\ declared <= MaxBody
  BY ForwardingHandlerAssumption DEF Data, DataTypes, Lengths
<1>3. CASE FailAsync(f, "client") /\ UNCHANGED <<served, buffers>>
  <2>1. buffers' \in 0..1
    BY <1>3 DEF Data, DataTypes
  <2> QED
    BY <1>1, <1>3, <2>1, FailedData
<1>4. CASE /\ served' = served + chunk
           /\ chunk' = 0 /\ UNCHANGED <<status, http, reset>>
           /\ \/ toSend = 0 /\ FreeResponseBuffers /\ Call("QueryDataAvailable", 1)
              \/ toSend > 0 /\ buffers' = 1 /\ Call("ReadData", 1)
           /\ Finish(f, "PENDING")
  <2>1. buffers' \in 0..1
    BY <1>4 DEF FreeResponseBuffers
  <2>2. Turns' /\ op' = op
    <3>1. CASE toSend = 0 /\ FreeResponseBuffers /\ Call("QueryDataAvailable", 1)
      <4>1. Phase("QueryDataAvailable")'
        BY <1>1, <1>4, <3>1 DEF Phase, IisOps, FreeResponseBuffers
      <4> QED
        BY <1>1, <1>4, <3>1, <4>1, CallPlace DEF Ops, WinHttpOps, Call
    <3>2. CASE toSend > 0 /\ buffers' = 1 /\ Call("ReadData", 1)
      <4>1. Phase("ReadData")'
        BY <1>1, <1>4, <3>2 DEF Phase, IisOps
      <4> QED
        BY <1>1, <1>4, <3>2, <4>1, CallPlace DEF Ops, WinHttpOps, Call
    <3> QED
      BY <1>4, <3>1, <3>2
  <2>3. served + chunk + reply <= (IF declared = 0 THEN MaxBody ELSE declared)
    BY DEF Data, Flow
  <2>4. served' \in Lengths /\ chunk' \in Lengths
    BY <1>2, <1>4, <2>3 DEF Lengths
  <2>5. DataTypes'
    BY <1>1, <1>4, <2>1, <2>2, <2>4 DEF Data, DataTypes
  <2>6. EntityIsForwarded'
    BY <1>1, <1>4 DEF Data, Flow, EntityIsForwarded
  <2>7. LengthIsAccounted'
    BY <1>1, <1>2, <1>4 DEF Data, Flow, LengthIsAccounted
  <2>8. served' + chunk' + reply' <= (IF declared' = 0 THEN MaxBody ELSE declared')
    BY <1>1, <1>2, <1>4, <2>3
  <2>9. Flow'
    BY <1>1, <1>4, <2>6, <2>7, <2>8 DEF Data, Flow
  <2> QED
    BY <2>2, <2>5, <2>9 DEF Data
<1>5. CASE /\ served' = served + chunk
           /\ buffers' \in IF toSend = 0 THEN {0} ELSE {0, 1}
           /\ \E error \in ServerErrors : FailAsync(f, error)
  <2>1. buffers' \in 0..1
    BY <1>5
  <2> QED
    BY <1>1, <1>5, <2>1, FailedData
<1> QED
  BY <1>3, <1>4, <1>5 DEF OnReceivingResponse

\* The entity on its way to the backend.
LEMMA SendingData ==
    ASSUME Inv, Data, NEW f \in Frames, OnSendingRequest(f)
    PROVE  Data'
<1>1. /\ pc[f] = "async" /\ pc[f] \in Working /\ status = "SENDING_REQUEST"
      /\ UNCHANGED <<toSend, contentLength, fWebSocket, fHeaders, buffers, answerVars, hRequest>>
      /\ Remaining /\ buffers = 1 /\ buffers' = 1 /\ chunk = 0 /\ ~fHeaders
  BY FoundAsync DEF OnSendingRequest, Awaited, Data, Flow
<1>2. entity \in Nat /\ toReceive \in Nat /\ MaxBody \in Nat /\ BufferSize \in Nat
      /\ toReceive <= INFINITE /\ INFINITE = MaxBody + 1 /\ entity <= MaxBody
  BY ForwardingHandlerAssumption DEF Data, DataTypes, Lengths, INFINITE
<1>3. ASSUME NEW error \in ServerErrors \cup {"client"}, FailAsync(f, error),
             UNCHANGED <<bodyVars, toReceive>>
      PROVE  Data'
  <2>1. buffers' \in 0..1 /\ served' = served
    BY <1>1, <1>3 DEF bodyVars
  <2> QED
    BY <1>1, <1>3, <2>1, FailedData DEF bodyVars
<1>4. CASE /\ entity = 0
           /\ IF toReceive = INFINITE THEN WriteLastChunk(f, 1) ELSE ReceiveResponse(f, 1)
           /\ UNCHANGED responseVars
  <2>1. buffers' \in 0..1
    BY <1>1
  <2> QED
    BY <1>1, <1>4, <2>1, AskResponse, LastChunk
<1>5. ASSUME NEW n \in 1..AtMost(AtMost(entity, toReceive), BufferSize),
             entity' = entity - n,
             toReceive' = IF toReceive = INFINITE THEN INFINITE ELSE toReceive - n,
             Call("WriteData", 1), Finish(f, "PENDING"),
             UNCHANGED <<declared, reply, served, chunked, lastChunks, responseVars, status>>
      PROVE  Data'
  <2>1. n \in Nat /\ 1 <= n /\ n <= entity /\ n <= toReceive
    BY <1>2 DEF AtMost
  <2>2. Phase("WriteData")'
    BY <1>1, <1>5 DEF Phase, IisOps, responseVars
  <2>3. Turns' /\ op' = op
    BY <1>1, <1>5, <2>2, CallPlace DEF Ops, WinHttpOps, Call
  <2>4. entity' \in Lengths /\ toReceive' \in 0..INFINITE
    BY <1>2, <1>5, <2>1 DEF Lengths
  <2>5. DataTypes'
    BY <1>1, <1>5, <2>3, <2>4 DEF Data, DataTypes, responseVars
  <2>6. Remaining'
    <3>1. CASE chunked
      <4>1. toReceive = INFINITE /\ toReceive' = INFINITE
        BY <1>1, <1>2, <1>5, <2>1, <3>1 DEF Remaining
      <4> QED
        BY <1>1, <1>5, <3>1, <4>1 DEF Remaining
    <3>2. CASE ~chunked
      <4>1. toReceive # INFINITE /\ entity <= toReceive /\ lastChunks = 0
        BY <1>1, <3>2 DEF Remaining
      <4>2. toReceive' # INFINITE /\ entity' <= toReceive'
        BY <1>2, <1>5, <2>1, <4>1
      <4> QED
        BY <1>5, <3>2, <4>1, <4>2 DEF Remaining
    <3> QED
      BY <3>1, <3>2
  <2>7. Flow'
    BY <1>1, <1>5, <2>6 DEF Data, Flow, responseVars, EntityIsForwarded, LengthIsAccounted
  <2> QED
    BY <2>3, <2>5, <2>7 DEF Data
<1> QED
  BY <1>3, <1>4, <1>5 DEF OnSendingRequest

-----------------------------------------------------------------------------
(* Deliveries and the end.                                                 *)

\* The party whose turn it is finds what was promised to it.
LEMMA DeliverData ==
    ASSUME Inv, Inv', Data, NEW o \in Ops, Deliver(o)
    PROVE  Data'
<1>1. PICK f \in Frames :
        IF o \in WinHttpOps THEN OnWinHttpCompletion(f, o) ELSE OnIisCompletion(f, o)
  BY DEF Deliver
<1> DEFINE l == IF o \in WinHttpOps THEN "callback" ELSE "async"
<1>2. /\ ops[o] > 0 /\ ops' = [ops EXCEPT ![o] = @ - 1] /\ Goto(f, l) /\ l \in Labels
      /\ op' = [op EXCEPT ![f] = o] /\ UNCHANGED result
      /\ UNCHANGED <<bodyVars, dataVars, responseVars, answerVars, hRequest>>
      /\ status' = IF o = "WebSocket" THEN "DONE" ELSE status
  BY <1>1 DEF OnWinHttpCompletion, OnIisCompletion, Labels, WinHttpOps
<1>3. ops[o] = 1 /\ Phase(o)
  BY <1>2 DEF Inv, Control, Data, Turns
<1>4. pc'[f] = l /\ op'[f] = o
  BY <1>2, Moved DEF Inv, Data, DataTypes
<1>5. Owes(f)'
  BY <1>4 DEF Owes
<1>6. (\A x \in Ops : ops'[x] = 0) /\ (\A g \in Frames \ {f} : ~Owes(g)') /\ answers' = 0
  BY <1>5 DEF Inv, Control, OneParty
<1>7. result' \in [Frames -> Results]
  BY <1>2 DEF Inv, Control
<1>8. \A g \in Frames \ {f} : Place(g)'
  BY <1>6, <1>7, ElsewhereAfter
<1>9. Place(f)'
  <2>1. CASE o \in WinHttpOps
    <3>1. status' = status /\ pc'[f] = "callback"
      BY <1>2, <1>4, <2>1 DEF WinHttpOps
    <3>2. o \notin IisOps
      BY <2>1 DEF WinHttpOps, IisOps
    <3>3. Phase(o)'
      BY <1>2, <1>3, <3>1, <3>2 DEF Phase, dataVars, responseVars, bodyVars
    <3> QED
      BY <1>4, <2>1, <3>1, <3>3 DEF Place
  <2>2. CASE o \notin WinHttpOps
    <3>1. pc'[f] = "async" /\ o \in IisOps
      BY <1>4, <2>2 DEF Ops
    <3>2. CASE o = "WebSocket"
      <4>1. fWebSocket /\ status' = "DONE"
        BY <1>2, <1>3, <3>2 DEF Phase
      <4>2. Awaited'
        BY <1>2, <4>1 DEF Awaited, GoodEnd, dataVars
      <4> QED
        BY <3>1, <4>2 DEF Place
    <3>3. CASE o # "WebSocket"
      <4>1. Awaited /\ status' = status
        BY <1>2, <1>3, <3>1, <3>3 DEF Phase
      <4>2. Awaited'
        BY <1>2, <4>1 DEF Awaited, GoodEnd, dataVars, bodyVars, responseVars
      <4> QED
        BY <3>1, <4>2 DEF Place
    <3> QED
      BY <3>2, <3>3
  <2> QED
    BY <2>1, <2>2
<1>10. Turns'
  BY <1>6, <1>8, <1>9 DEF Turns
<1>11. DataTypes'
  <2>1. op' \in [Frames -> Ops \cup {None}]
    BY <1>2 DEF Data, DataTypes
  <2> QED
    BY <1>2, <2>1 DEF Data, DataTypes, bodyVars, dataVars, responseVars
<1>12. Flow'
  <2>1. CASE status' = status
    BY <1>2, <2>1, SameFlow DEF Data
  <2>2. CASE o = "WebSocket"
    <3>1. status' = "DONE"
      BY <1>2, <2>2
    <3>2. chunk = 0
      <4>1. status = "RECEIVED_WEBSOCKET_RESPONSE"
        BY <1>3, <2>2 DEF Phase
      <4> QED
        BY <4>1 DEF Data, Flow, DataTypes, Lengths
    <3> QED
      BY <1>2, <3>1, <3>2 DEF Data, Flow, bodyVars, dataVars, responseVars,
         EntityIsForwarded, LengthIsAccounted
  <2> QED
    BY <1>2, <2>1, <2>2
<1> QED
  BY <1>10, <1>11, <1>12 DEF Data

\* The destructor frees the buffers only when no operation uses them: the
\* answer has been given, and not while a response was being received.
LEMMA DestructorData ==
    ASSUME Inv', Data, Turns', op' \in [Frames -> Ops \cup {None}],
           UNCHANGED <<bodyVars, toReceive, toSend, contentLength, fWebSocket, fHeaders,
                       responseVars, status>>,
           buffers' \in {0, buffers}, hRequest' \in {"null", hRequest},
           buffers' # buffers => status # "RECEIVING_RESPONSE"
    PROVE  Data'
<1>1. DataTypes'
  BY DEF Data, DataTypes, bodyVars, responseVars
<1>2. Flow'
  BY DEF Data, Flow, bodyVars, responseVars, Remaining, EntityIsForwarded, LengthIsAccounted,
         DataTypes, Lengths
<1> QED
  BY <1>1, <1>2 DEF Data

LEMMA CloseData ==
    ASSUME Inv, Data, NEW f \in Frames, CloseRequest(f)
    PROVE  Data'
<1>1. /\ pc[f] = "close" /\ hRequest' = "null" /\ Goto(f, "return") /\ "return" \in Labels
      /\ UNCHANGED <<bodyVars, dataVars, responseVars, answerVars, status, ops, op, result>>
  BY DEF CloseRequest, Labels
<1>2. pc'[f] = "return" /\ \A g \in Frames \ {f} : pc'[g] = pc[g]
  BY <1>1, Moved DEF Inv
<1>3. result[f] = "PENDING"
  BY <1>1 DEF Inv, Control
<1>4. \A o : Phase(o)' <=> Phase(o)
  BY <1>1 DEF Phase, Awaited, GoodEnd, bodyVars, dataVars, responseVars
<1>5. (Awaited' <=> Awaited) /\ (GoodEnd' <=> GoodEnd)
  BY <1>1 DEF Awaited, GoodEnd, bodyVars, dataVars, responseVars
<1>6. ASSUME NEW g \in Frames \ {f}  PROVE Place(g)'
  BY <1>1, <1>2, <1>4, <1>5 DEF Data, Turns, Place, dataVars, bodyVars, responseVars
<1>7. Place(f)'
  BY <1>1, <1>2, <1>3 DEF Place
<1>8. Turns'
  BY <1>1, <1>4, <1>5, <1>6, <1>7 DEF Data, Turns, answerVars
<1>9. DataTypes'
  BY <1>1 DEF Data, DataTypes, bodyVars, dataVars, responseVars
<1> QED
  BY <1>1, <1>8, <1>9, SameFlow DEF Data

Kept == answers = 0 => cRefs > 0

LEMMA KeptAfter == Inv' => Kept'
<1>1. Inv => Kept
  BY Alive DEF Kept
<1> QED
  BY <1>1, PTL

\* A frame returns: with the answer, to post a completion, or just so.
LEMMA ReturnData ==
    ASSUME Inv, Inv', Data, NEW f \in Frames, Return(f)
    PROVE  Data'
<1>1. /\ pc[f] = "return" /\ Dereference
      /\ op' = [op EXCEPT ![f] = None] /\ result' = [result EXCEPT ![f] = "PENDING"]
      /\ UNCHANGED <<bodyVars, toReceive, toSend, contentLength, fWebSocket, fHeaders,
                     responseVars, module, status, ops>>
  BY DEF Return
<1>2. PICK l \in {"post", "idle"} : Goto(f, l) /\ (l = "post" <=> result[f] = "POST")
  BY DEF Return
<1>3. l \in Labels /\ pc'[f] = l /\ \A g \in Frames \ {f} : pc'[g] = pc[g]
  BY <1>2, Moved DEF Inv, Labels
<1>4. \A g \in Frames \ {f} : result'[g] = result[g] /\ op'[g] = op[g]
  BY <1>1 DEF Inv, Control, Data, DataTypes
<1>5. /\ buffers' \in {0, buffers} /\ hRequest' \in {"null", hRequest}
      /\ buffers' # buffers => answers' = 1
  <2>1. cRefs' = 0 => answers' = 1
    BY KeptAfter DEF Kept, Inv, Control
  <2>2. cRefs = 1 => cRefs' = 0
    BY <1>1 DEF Dereference
  <2> QED
    BY <1>1, <2>1, <2>2 DEF Dereference
<1>6. answers' = 1 => /\ status # "RECEIVING_RESPONSE"
                      /\ \A o \in Ops : ops[o] = 0
                      /\ \A g \in Frames : ~Owes(g)'
  <2>1. CASE result[f] \in {"CONTINUE", "FINISH_REQUEST"}
    BY <1>1, <2>1 DEF Data, Turns, Place, Inv, OneParty, Control
  <2>2. CASE result[f] \notin {"CONTINUE", "FINISH_REQUEST"}
    <3>1. answers' = answers
      BY <2>2 DEF Return
    <3> QED
      BY <1>1, <3>1 DEF Data, Turns, Inv, OneParty, Control
  <2> QED
    BY <2>1, <2>2
<1>7. op' \in [Frames -> Ops \cup {None}]
  BY <1>1 DEF Data, DataTypes
<1>8. (GoodEnd' <=> GoodEnd) /\ status' = status
  BY <1>1 DEF GoodEnd, bodyVars, responseVars
<1>9. /\ answers' = 1 => status' # "RECEIVING_RESPONSE"
      /\ answers' = 1 /\ answer' = "CONTINUE" => GoodEnd'
  <2>1. CASE result[f] \in {"CONTINUE", "FINISH_REQUEST"}
    <3>1. answer' = result[f]
      BY <2>1 DEF Return
    <3> QED
      BY <1>1, <1>6, <1>8, <3>1 DEF Data, Turns, Place
  <2>2. CASE result[f] \notin {"CONTINUE", "FINISH_REQUEST"}
    <3>1. answers' = answers /\ answer' = answer
      BY <2>2 DEF Return
    <3> QED
      BY <1>8, <3>1 DEF Data, Turns
  <2> QED
    BY <2>1, <2>2
<1>10. Turns'
  <2>1. CASE answers' = 1
    <3>1. result' \in [Frames -> Results]
      BY <1>1 DEF Inv, Control, Results
    <3>2. \A g \in Frames : Place(g)'
      BY <1>6, <2>1, <3>1, ElsewhereAfter
    <3>3. \A o \in Ops : ops'[o] = 0
      BY <1>1, <1>6, <2>1
    <3> QED
      BY <1>9, <3>2, <3>3 DEF Turns
  <2>2. CASE answers' # 1
    <3>1. buffers' = buffers
      BY <1>5, <2>2
    <3>2. Awaited' <=> Awaited
      BY <1>1, <1>8, <3>1 DEF Awaited
    <3>3. \A o : Phase(o)' <=> Phase(o)
      BY <1>1, <3>1, <3>2 DEF Phase, bodyVars, responseVars
    <3>4. \A o \in Ops : ops'[o] = 1 => Phase(o)'
      BY <1>1, <3>3 DEF Data, Turns
    <3>5. ASSUME NEW g \in Frames \ {f}  PROVE Place(g)'
      <4>1. Place(g)
        BY DEF Data, Turns
      <4> QED
        BY <1>1, <1>3, <1>4, <1>8, <3>1, <3>2, <3>3, <4>1 DEF Place, bodyVars, responseVars
    <3>6. Place(f)'
      <4>1. result[f] = "POST" => Awaited
        BY <1>1 DEF Data, Turns, Place
      <4> QED
        BY <1>2, <1>3, <3>2, <4>1 DEF Place
    <3> QED
      BY <1>9, <3>4, <3>5, <3>6 DEF Turns
  <2> QED
    BY <2>1, <2>2
<1> QED
  BY <1>1, <1>5, <1>6, <1>7, <1>10, DestructorData

LEMMA PostData ==
    ASSUME Inv, Data, NEW f \in Frames, PostCompletion(f)
    PROVE  Data'
<1>1. /\ pc[f] = "post" /\ Goto(f, "idle") /\ "idle" \in Labels /\ Begin("PostCompletion")
      /\ UNCHANGED <<bodyVars, dataVars, responseVars, answerVars, status, hRequest, op, result>>
  BY DEF PostCompletion, Labels
<1>2. pc'[f] = "idle" /\ \A g \in Frames \ {f} : pc'[g] = pc[g]
  BY <1>1, Moved DEF Inv
<1>3. Owes(f)
  BY <1>1 DEF Owes
<1>4. (\A x \in Ops \ {"PostCompletion"} : ops'[x] = 0) /\ answers' = 0
  BY <1>1, <1>3, Alone DEF Begin, Inv, Control, answerVars
<1>5. Phase("PostCompletion")'
  <2>1. Awaited
    BY <1>1 DEF Data, Turns, Place
  <2>2. Awaited'
    BY <1>1, <2>1 DEF Awaited, GoodEnd, bodyVars, dataVars, responseVars
  <2> QED
    BY <2>2 DEF Phase, WinHttpOps
<1>6. result' \in [Frames -> Results]
  BY <1>1 DEF Inv, Control
<1>7. \A g \in Frames \ {f} : ~Owes(g)'
  BY <1>1, <1>3, Alone, OthersOwe DEF Inv
<1>8. ~Owes(f)'
  BY <1>2 DEF Owes
<1>9. Turns'
  BY <1>4, <1>5, <1>6, <1>7, <1>8, ElsewhereAfter DEF Turns
<1>10. DataTypes'
  BY <1>1 DEF Data, DataTypes, bodyVars, dataVars, responseVars
<1> QED
  BY <1>1, <1>9, <1>10, SameFlow DEF Data

LEMMA DestroyData ==
    ASSUME Inv, Inv', Data, DestroyModule
    PROVE  Data'
<1>1. /\ answers = 1 /\ answers' = 1 /\ answer' = answer /\ Dereference
      /\ UNCHANGED <<bodyVars, toReceive, toSend, contentLength, fWebSocket, fHeaders,
                     responseVars, status, pc, op, result, ops>>
  BY DEF DestroyModule, Inv, Control, frameVars
<1>2. /\ status # "RECEIVING_RESPONSE" /\ (answer = "CONTINUE" => GoodEnd)
  BY <1>1 DEF Data, Turns
<1>3. \A o \in Ops : ops'[o] = 0
  BY <1>1 DEF Inv, OneParty, Control
<1>4. \A g \in Frames : ~Owes(g)'
  BY <1>1 DEF Inv, OneParty, Owes
<1>5. result' \in [Frames -> Results]
  BY <1>1 DEF Inv, Control
<1>6. (GoodEnd' <=> GoodEnd) /\ status' = status
  BY <1>1 DEF GoodEnd, bodyVars, responseVars
<1>7. Turns'
  BY <1>1, <1>2, <1>3, <1>4, <1>5, <1>6, ElsewhereAfter DEF Turns
<1>8. buffers' \in {0, buffers} /\ hRequest' \in {"null", hRequest}
  BY <1>1 DEF Dereference
<1>9. op' \in [Frames -> Ops \cup {None}]
  BY <1>1 DEF Data, DataTypes
<1> QED
  BY <1>1, <1>2, <1>7, <1>8, <1>9, DestructorData

LEMMA InitData == Init => Data
<1> SUFFICES ASSUME Init  PROVE Data
  OBVIOUS
<1>1. /\ entity \in Lengths /\ declared \in Lengths /\ reply \in Lengths
      /\ declared = 0 \/ reply <= declared
  BY Zenon DEF Init
<1>2. /\ served = 0 /\ chunked = FALSE /\ lastChunks = 0
      /\ status = "START" /\ toReceive = 0 /\ toSend = 0 /\ contentLength = 0
      /\ fWebSocket = FALSE /\ fHeaders = FALSE /\ buffers = 0 /\ hRequest = "null"
      /\ chunk = 0 /\ http = "unset" /\ reset = FALSE
  BY Zenon DEF Init
<1>3. /\ ops = [o \in Ops |-> 0] /\ answers = 0
      /\ pc = [f \in Frames |-> IF f = First THEN "execute" ELSE "idle"]
      /\ op = [f \in Frames |-> None]
  BY Zenon DEF Init
<1>4. 0 \in Lengths /\ 0 \in 0..INFINITE
  BY ForwardingHandlerAssumption DEF Lengths, INFINITE
<1>5. DataTypes
  <2>1. op \in [Frames -> Ops \cup {None}]
    BY <1>3
  <2>2. chunked \in BOOLEAN /\ fWebSocket \in BOOLEAN /\ fHeaders \in BOOLEAN /\ reset \in BOOLEAN
    BY <1>2, Zenon
  <2> QED
    BY <1>1, <1>2, <1>4, <2>1, <2>2 DEF DataTypes
<1>6. Flow
  <2>1. reply \in Nat /\ reply <= MaxBody /\ declared \in Nat
    BY <1>1, ForwardingHandlerAssumption DEF Lengths
  <2>2. served + chunk + reply <= (IF declared = 0 THEN MaxBody ELSE declared)
    BY <1>1, <1>2, <2>1
  <2> QED
    BY <1>2, <2>1, <2>2 DEF Flow, EntityIsForwarded, LengthIsAccounted
<1>7. Turns
  BY <1>2, <1>3 DEF Turns, Place
<1> QED
  BY <1>5, <1>6, <1>7 DEF Data

LEMMA NextData == Inv /\ Inv' /\ Data /\ [Next]_vars => Data'
<1>1. ASSUME Inv, Inv', Data, Next  PROVE Data'
  <2>1. ASSUME NEW f \in Frames, OnWinHttpCompletionInternal(f)  PROVE Data'
    BY <1>1, <2>1, RequestErrorData, SendCompleteData, HeadersData, DataAvailableData,
       ReadCompleteData DEF OnWinHttpCompletionInternal
  <2>2. ASSUME NEW f \in Frames, OnAsyncCompletion(f)  PROVE Data'
    BY <1>1, <2>2, AsyncEndsData, AsyncWebSocketData, CloseData, ReceivingData, SendingData
       DEF OnAsyncCompletion
  <2> QED
    BY <1>1, <2>1, <2>2, ExecuteData, ReturnData, PostData, DeliverData, DestroyData
       DEF Next, Run
<1>2. ASSUME Inv, Data, UNCHANGED vars  PROVE Data'
  <2>1. UNCHANGED <<bodyVars, dataVars, responseVars, answerVars, pc, op, result, status,
                    hRequest, ops>>
    BY <1>2 DEF vars, frameVars
  <2>2. (Awaited' <=> Awaited) /\ (GoodEnd' <=> GoodEnd)
    BY <2>1 DEF Awaited, GoodEnd, bodyVars, dataVars, responseVars
  <2>3. \A o : Phase(o)' <=> Phase(o)
    BY <2>1, <2>2 DEF Phase, bodyVars, dataVars, responseVars
  <2>4. \A f \in Frames : Place(f)'
    BY <1>2, <2>1, <2>2, <2>3 DEF Data, Turns, Place, bodyVars, dataVars, responseVars
  <2>5. Turns'
    BY <1>2, <2>1, <2>2, <2>3, <2>4 DEF Data, Turns, answerVars
  <2>6. DataTypes'
    BY <1>2, <2>1 DEF Data, DataTypes, bodyVars, dataVars, responseVars
  <2> QED
    BY <1>2, <2>1, <2>5, <2>6, SameFlow DEF Data
<1> QED
  BY <1>1, <1>2

LEMMA DataInvariance == Spec => [](Inv /\ Data)
BY InitInv, NextInv, InitData, NextData, PTL DEF Spec

-----------------------------------------------------------------------------
\* Every variable keeps its type, whatever the lengths of the bodies: no counter
\* goes below zero or beyond the length of the body it counts.
THEOREM TypeOKTheorem == Spec => []TypeOK
<1>1. Inv /\ Data => TypeOK
  <2> SUFFICES ASSUME Inv, Data  PROVE TypeOK
    OBVIOUS
  <2>1. ops \in [Ops -> Nat] /\ answers \in Nat
    BY DEF Inv, Control
  <2> QED
    BY <2>1 DEF Inv, Control, Data, DataTypes, TypeOK
<1> QED
  BY <1>1, DataInvariance, PTL

\* IIS and WinHTTP never use a buffer that has been freed, however the
\* completions of a request interleave with the end of the handler.
THEOREM BuffersOutliveUseTheorem == Spec => []BuffersOutliveUse
<1>1. Inv /\ Data => BuffersOutliveUse
  <2> SUFFICES ASSUME Inv, Data  PROVE BuffersOutliveUse
    OBVIOUS
  <2>1. \A o \in Ops : ops[o] > 0 => Phase(o)
    BY DEF Inv, Control, Data, Turns
  <2>2. {"ReadEntityBody", "ReadData", "WriteData"} \subseteq Ops
    BY DEF Ops, WinHttpOps, IisOps
  <2>3. chunk > 0 => buffers = 1
    BY DEF Data, Flow
  <2> QED
    BY <2>1, <2>2, <2>3 DEF BuffersOutliveUse, Phase
<1> QED
  BY <1>1, DataInvariance, PTL

\* The backend is asked for its response when it has the whole entity, and the
\* terminating chunk if and only if the length was not declared.
THEOREM EntityIsForwardedTheorem == Spec => []EntityIsForwarded
<1>1. Data => EntityIsForwarded
  BY DEF Data, Flow
<1> QED
  BY <1>1, DataInvariance, PTL

\* The counters of a response of declared length add up to it at every step.
THEOREM LengthIsAccountedTheorem == Spec => []LengthIsAccounted
<1>1. Data => LengthIsAccounted
  BY DEF Data, Flow
<1> QED
  BY <1>1, DataInvariance, PTL

\* A request that ends with CONTINUE and the backend's status has been given the
\* whole response the backend declared.
THEOREM CompleteOrAbortedTheorem == Spec => []CompleteOrAborted
<1>1. Data => CompleteOrAborted
  BY DEF Data, Turns, GoodEnd, CompleteOrAborted
<1> QED
  BY <1>1, DataInvariance, PTL
=============================================================================
