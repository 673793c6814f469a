----------------------------- MODULE ModuleLife -----------------------------
(***************************************************************************)
(* The life of the module in the worker process: RegisterModule            *)
(* (dllmain.cpp), the static initialisation of the handlers and its undoing*)
(* (forwardinghandler.cxx, websockethandler.cxx, winhttphelper.cxx) and    *)
(* CProxyModuleFactory::Terminate (proxymodule.cxx), which IIS calls when  *)
(* it unloads the module, whether the registration worked or not.  Any     *)
(* call of the operating system may fail.                                  *)
(***************************************************************************)
EXTENDS Integers, Sequences

CONSTANTS
    Functions,  \* the websocket functions of winhttp.dll, in the order of their look-up
    MaxSleeps   \* the sleeps of 250 ms after which StaticTerminate waits no longer

VARIABLES
    pc, step,
    global,     \* global[g] : the pointer or handle is set
    exists,     \* exists[g] : how many of its objects exist
    factory,    \* who owns the factory: nobody, RegisterModule, IIS
    hr,         \* what RegisterModule returns
    tracing,    \* g_fEnableReferenceCountTracing
    g_fWebSocketSupported,
    resolved,   \* the functions of winhttp.dll whose pointer is set
    g_dwActiveServerProcesses, sleeps

owned == <<global, exists>>
flags == <<tracing, g_fWebSocketSupported, resolved>>
vars == <<pc, step, owned, factory, hr, flags, g_dwActiveServerProcesses, sleeps>>

Globals == {"g_pResponseHeaderHash", "sm_hHeap", "sm_pAlloc", "sm_hSession",
            "sm_pApplicationManager", "m_pApplicationHash", "m_pFileWatcher",
            "m_hCompletionPort", "m_hChangeNotificationThread", "sm_strErrorFormat",
            "sm_hEventLog", "g_dwTlsIndex", "sm_pTraceLog", "websocket.sm_pTraceLog"}

Init ==
    /\ pc = "load" /\ step = 1
    /\ global = [g \in Globals |-> FALSE] /\ exists = [g \in Globals |-> 0]
    /\ factory = "nobody" /\ hr = "S_OK"
    /\ tracing = FALSE /\ g_fWebSocketSupported = FALSE /\ resolved = {}
    /\ g_dwActiveServerProcesses = 0 /\ sleeps = 0

Goto(l) == pc' = l /\ step' = 1

Acquired(gs) ==
    /\ global' = [g \in Globals |-> global[g] \/ g \in gs]
    /\ exists' = [g \in Globals |-> exists[g] + IF g \in gs THEN 1 ELSE 0]

\* If it is set: release it and clear the pointer.
Released(gs) ==
    /\ global' = [g \in Globals |-> global[g] /\ g \notin gs]
    /\ exists' = [g \in Globals |-> exists[g] - IF g \in gs /\ global[g] THEN 1 ELSE 0]

\* LoadGlobalConfiguration, and the version of IIS.
LoadGlobalConfiguration ==
    /\ pc = "load" /\ Goto("resolve")
    /\ tracing' \in BOOLEAN /\ g_fWebSocketSupported' \in BOOLEAN
    /\ UNCHANGED <<owned, factory, hr, resolved, g_dwActiveServerProcesses, sleeps>>

\* WINHTTP_HELPER::StaticInitialize, one function at a time.
GetProcAddress ==
    /\ pc = "resolve"
    /\ IF g_fWebSocketSupported /\ step <= Len(Functions)
       THEN resolved' = resolved \cup {Functions[step]} /\ step' = step + 1 /\ UNCHANGED pc
       ELSE Goto("factory") /\ UNCHANGED resolved
    /\ UNCHANGED <<owned, factory, hr, tracing, g_fWebSocketSupported,
                   g_dwActiveServerProcesses, sleeps>>

\* A function the library lacks switches the websockets off, any other error
\* ends the registration.
GetProcAddressFails ==
    /\ pc = "resolve" /\ g_fWebSocketSupported /\ step <= Len(Functions)
    /\ \/ g_fWebSocketSupported' = FALSE /\ Goto("factory") /\ UNCHANGED hr
       \/ hr' = "failed" /\ Goto("returned") /\ UNCHANGED g_fWebSocketSupported
    /\ UNCHANGED <<owned, factory, tracing, resolved, g_dwActiveServerProcesses, sleeps>>

NewFactory ==
    /\ pc = "factory"
    /\ \/ factory' = "RegisterModule" /\ Goto("notify") /\ UNCHANGED hr
       \/ hr' = "failed" /\ Goto("returned") /\ UNCHANGED factory
    /\ UNCHANGED <<owned, flags, g_dwActiveServerProcesses, sleeps>>

SetRequestNotifications ==
    /\ pc = "notify"
    /\ \/ factory' = "IIS" /\ Goto("static") /\ UNCHANGED hr
       \/ hr' = "failed" /\ Goto("terminate") /\ UNCHANGED factory
    /\ UNCHANGED <<owned, flags, g_dwActiveServerProcesses, sleeps>>

\* The steps of the initialisation in their order, each with what is set once it
\* has worked.  Those of the forwarding handler are undone when one of them
\* fails (Failure:), the others only by Terminate.
Step(what, gets, undone) == [what |-> what, gets |-> gets, undone |-> undone]
RegisterSteps ==
    <<Step("RESPONSE_HEADER_HASH::RESPONSE_HEADER_HASH", {"g_pResponseHeaderHash"}, FALSE),
      Step("RESPONSE_HEADER_HASH::Initialize", {}, FALSE),
      Step("ALLOC_CACHE_HANDLER::StaticInitialize", {"sm_hHeap"}, FALSE)>>
StaticInitializeSteps ==
    <<Step("ALLOC_CACHE_HANDLER::ALLOC_CACHE_HANDLER", {"sm_pAlloc"}, TRUE),
      Step("ALLOC_CACHE_HANDLER::Initialize", {}, TRUE),
      Step("WinHttpOpen", {"sm_hSession"}, TRUE),
      Step("WinHttpSetStatusCallback", {}, TRUE),
      Step("WinHttpSetOption", {}, TRUE),
      Step("GetInstance", {"sm_pApplicationManager"}, TRUE),
      Step("APPLICATION_HASH::APPLICATION_HASH", {"m_pApplicationHash"}, TRUE),
      Step("APPLICATION_HASH::Initialize", {}, TRUE),
      Step("FILE_WATCHER::FILE_WATCHER", {"m_pFileWatcher"}, TRUE),
      Step("FILE_WATCHER::Create", {"m_hCompletionPort", "m_hChangeNotificationThread"}, TRUE),
      Step("Resize", {"sm_strErrorFormat"}, TRUE),
      Step("LoadString", {}, TRUE),
      Step("RegisterEventSource", {"sm_hEventLog"}, TRUE),
      Step("TlsAlloc", {"g_dwTlsIndex"}, TRUE),
      Step("CreateRefTraceLog", {"sm_pTraceLog"}, TRUE)>>
WebSocketSteps == <<Step("WEBSOCKET_HANDLER::StaticInitialize", {"websocket.sm_pTraceLog"}, FALSE)>>

Steps == RegisterSteps \o StaticInitializeSteps \o WebSocketSteps

Skipped(s) ==
    \/ s.what = "CreateRefTraceLog" /\ ~tracing
    \/ s.what = "WEBSOCKET_HANDLER::StaticInitialize" /\ ~(tracing /\ g_fWebSocketSupported)
CannotFail(s) == s.what = "ALLOC_CACHE_HANDLER::StaticInitialize"

\* The failure of these is ignored.
Ignored(s) == s.what \in {"FILE_WATCHER::Create", "RegisterEventSource", "CreateRefTraceLog",
                          "WEBSOCKET_HANDLER::StaticInitialize"}

StaticStep ==
    LET s == Steps[step] IN
    /\ pc = "static"
    /\ \/ ~Skipped(s) /\ Acquired(s.gets)
       \/ (Skipped(s) \/ Ignored(s)) /\ UNCHANGED owned
    /\ IF step = Len(Steps) THEN Goto("returned") ELSE step' = step + 1 /\ UNCHANGED pc
    /\ UNCHANGED <<factory, hr, flags, g_dwActiveServerProcesses, sleeps>>

StaticFails ==
    LET s == Steps[step] IN
    /\ pc = "static" /\ ~CannotFail(s) /\ ~Ignored(s)
    /\ hr' = "failed" /\ Goto(IF s.undone THEN "failure" ELSE "returned")
    /\ UNCHANGED <<owned, factory, flags, g_dwActiveServerProcesses, sleeps>>

\* The server processes of the applications, while the module serves requests
\* and later.
ProcessStarts ==
    /\ pc = "returned" /\ hr = "S_OK" /\ g_dwActiveServerProcesses = 0
    /\ g_dwActiveServerProcesses' = 1
    /\ UNCHANGED <<pc, step, owned, factory, hr, flags, sleeps>>

ProcessEnds ==
    /\ g_dwActiveServerProcesses = 1 /\ g_dwActiveServerProcesses' = 0
    /\ UNCHANGED <<pc, step, owned, factory, hr, flags, sleeps>>

\* IIS unloads the module.
Unload ==
    /\ pc = "returned"
    /\ Goto(IF factory = "IIS" THEN "terminate" ELSE "unloaded")
    /\ UNCHANGED <<owned, factory, hr, flags, g_dwActiveServerProcesses, sleeps>>

\* APPLICATION_MANAGER::Cleanup at the start of
\* FORWARDING_HANDLER::StaticTerminate.  The watcher closes its thread's handle
\* but not its completion port.
Cleanup ==
    /\ pc \in {"terminate", "failure"}
    /\ pc' = IF pc = "terminate" THEN "wait" ELSE "failureWait"
    /\ global' = [g \in Globals |-> global[g] /\ g \notin
           {"sm_pApplicationManager", "m_pApplicationHash", "m_pFileWatcher",
            "m_hCompletionPort", "m_hChangeNotificationThread"}]
    /\ exists' = [g \in Globals |-> exists[g] -
           IF global[g] /\ g \in {"sm_pApplicationManager", "m_pApplicationHash", "m_pFileWatcher",
                                  "m_hChangeNotificationThread"} THEN 1 ELSE 0]
    /\ sleeps' = 0
    /\ UNCHANGED <<step, factory, hr, flags, g_dwActiveServerProcesses>>

Sleep ==
    /\ pc \in {"wait", "failureWait"}
    /\ g_dwActiveServerProcesses > 0 /\ sleeps < MaxSleeps
    /\ sleeps' = sleeps + 1
    /\ UNCHANGED <<pc, step, owned, factory, hr, flags, g_dwActiveServerProcesses>>

Statics == {"sm_hSession", "sm_hEventLog", "g_dwTlsIndex", "sm_strErrorFormat",
            "sm_pTraceLog", "sm_pAlloc"}

\* Mutant: the handle of the session is closed and kept.
StaticTerminate_Keeps ==
    /\ pc \in {"wait", "failureWait"}
    /\ g_dwActiveServerProcesses = 0 \/ sleeps = MaxSleeps
    /\ Goto(IF pc = "wait" THEN "rest" ELSE "returned")
    /\ global' = [g \in Globals |-> global[g] /\ g \notin Statics \ {"sm_hSession"}]
    /\ exists' = [g \in Globals |-> exists[g] - IF g \in Statics /\ global[g] THEN 1 ELSE 0]
    /\ UNCHANGED <<factory, hr, flags, g_dwActiveServerProcesses, sleeps>>

\* The rest of FORWARDING_HANDLER::StaticTerminate, for Terminate or for the
\* Failure of StaticInitialize.
StaticTerminate ==
    /\ pc \in {"wait", "failureWait"}
    /\ g_dwActiveServerProcesses = 0 \/ sleeps = MaxSleeps
    /\ Goto(IF pc = "wait" THEN "rest" ELSE "returned")
    /\ Released(Statics)
    /\ UNCHANGED <<factory, hr, flags, g_dwActiveServerProcesses, sleeps>>

\* WEBSOCKET_HANDLER::StaticTerminate, the response header table,
\* ALLOC_CACHE_HANDLER::StaticTerminate and the factory itself.
Terminate ==
    /\ pc = "rest"
    /\ Released({"g_pResponseHeaderHash", "sm_hHeap"}
                \cup IF g_fWebSocketSupported THEN {"websocket.sm_pTraceLog"} ELSE {})
    /\ Goto(IF factory = "RegisterModule" THEN "returned" ELSE "unloaded")
    /\ factory' = "nobody"
    /\ UNCHANGED <<hr, flags, g_dwActiveServerProcesses, sleeps>>

Next ==
    \/ LoadGlobalConfiguration \/ GetProcAddress \/ GetProcAddressFails \/ NewFactory
    \/ SetRequestNotifications \/ StaticStep \/ StaticFails \/ ProcessStarts \/ ProcessEnds
    \/ Unload \/ Cleanup \/ Sleep \/ StaticTerminate \/ Terminate

Spec == Init /\ [][Next]_vars

-----------------------------------------------------------------------------
Optional == {"m_hCompletionPort", "m_hChangeNotificationThread", "sm_hEventLog",
             "sm_pTraceLog", "websocket.sm_pTraceLog"}

\* Whatever fails and however often the statics are undone (a failed
\* StaticInitialize undoes them before Terminate does): nothing is released
\* twice and nothing released stays set; the heap of the allocator is there as
\* long as a cache that returns blocks to it; a module that registered has
\* everything its requests use without a test, the websocket functions if it
\* accepts websockets; and once it is unloaded only the completion port, which
\* no code closes, is left (dllmain.cpp:198-200, "will clean any static object").
CleansWhatItSet ==
    /\ \A g \in Globals \ {"m_hCompletionPort"} : exists[g] = IF global[g] THEN 1 ELSE 0
    /\ global["sm_pAlloc"] => global["sm_hHeap"]
    /\ pc = "returned" /\ hr = "S_OK" =>
        /\ \A g \in Globals \ Optional : global[g]
        /\ g_fWebSocketSupported => \A i \in DOMAIN Functions : Functions[i] \in resolved
    /\ pc = "unloaded" => factory = "nobody" /\ \A g \in Globals : ~global[g]
=============================================================================
