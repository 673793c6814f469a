-------------------------------- MODULE Units --------------------------------
(***************************************************************************)
(* The components that do not interact while they work: a behaviour        *)
(* chooses one of them from Active and runs it alone, the others stay in   *)
(* one initial state.                                                      *)
(***************************************************************************)
EXTENDS Integers, FiniteSets, Sequences

CONSTANTS
    Active,     \* the components a behaviour may choose
    Null,
    \* HashTable, TreeHash
    Threads, Records, KeyOf, Hash, GetPrime, PathOf, Orders, Limits, Filters,
    \* AllocCache
    Cpus, Blocks, nThreshold, MaxDepth,
    \* TraceLog
    Width, HeaderSize, Sizes, MaxWrites,
    \* ApplicationManager
    Contexts, Configs, Apps,
    \* ProcessManager
    Procs, N, Ports, ForeignPorts, Children, Main, RapidFailLimit, NsiSupported, Unlocked, Recycler,
    \* ProcessEnvironment
    Collections, Arguments, AppConfigPaths, Inherited, towupper, PortTexts, MAX_RETRY, MaxDropped,
    \* ResponseHeaders
    Responses, Verbs, RESPONSE_HEADERS, Malformed,
    \* RequestHeaders
    Requests, Users, Certs, Reserved,
    \* ModuleLife, StdoutLog
    Functions, MaxSleeps, MaxQueued

ASSUME UnitsAssumption ==
    /\ IsFiniteSet(Threads) /\ IsFiniteSet(Records) /\ Null \notin Records \cup {"none", "exists", "ok"}
    /\ Null \notin [op : {"find"}, key : {KeyOf[r] : r \in Records}] \cup [op : {"insert"}, record : Records]
    /\ \A r \in Records : Hash[KeyOf[r]] \in Nat
    /\ \A n \in 1 .. Cardinality(Records) + 1 : GetPrime[2 * n] \in Nat \ {0}
    /\ \A r \in Records : PathOf[r] \in Seq(STRING) \ {<<>>}
    /\ Orders \in Seq(Seq(Seq(STRING))) \ {<<>>} /\ Limits[Len(Orders)] \in Nat
    /\ \A i \in DOMAIN Orders, r \in Records : Len(PathOf[r]) <= Len(Orders[i])
    /\ LET Paths == UNION {{SubSeq(PathOf[r], 1, n) : n \in 1 .. Len(PathOf[r])} : r \in Records}
       IN  Null \notin Paths /\ Cardinality(Paths) <= Limits[Len(Orders)]
    /\ Null \notin Threads \cup Blocks \cup Contexts \cup Configs \cup Apps
    /\ nThreshold \in Nat /\ MaxDepth \in Nat
    /\ nThreshold + Cardinality(Threads) - 1 <= MaxDepth
    /\ N \in Nat \ {0} /\ RapidFailLimit \in Nat /\ NsiSupported \in BOOLEAN
    /\ IsFiniteSet(Procs) /\ IsFiniteSet(Children) /\ ForeignPorts \subseteq Ports
    /\ Main \notin Children /\ Null \notin Procs \cup Ports \cup Children \cup {Main}
    /\ Unlocked \notin Threads \cup {Recycler} /\ Recycler \notin Threads
    /\ HeaderSize \in Nat /\ Null \notin Nat
    /\ MaxWrites \in Nat /\ 2 ^ Width \in Nat /\ MaxWrites <= 2 ^ Width
    /\ \A s \in Sizes : s[1] \in Nat \ {0} /\ s[2] \in Nat /\ s[3] \in Nat \ {0}
    /\ Collections \subseteq Seq([name : Seq(DOMAIN towupper), value : Seq(STRING)])
    /\ \A x \in DOMAIN towupper : towupper[x] \in STRING
    /\ AppConfigPaths \subseteq Seq(STRING) /\ Inherited \in Seq(Seq(STRING))
    /\ \A i \in DOMAIN Inherited : Inherited[i] # <<>> /\ Inherited[i][1] # "="
    /\ PortTexts \subseteq STRING \ {"=", "%PORT%", "%DEBUG_PORT%"}
    /\ Null \notin RESPONSE_HEADERS /\ "Content-Length" \in RESPONSE_HEADERS
    /\ \A b \in Responses : b.lines \in Seq({Malformed} \cup [name : STRING, value : STRING])
    /\ {"MS-ASPNETCORE-TOKEN", "MS-ASPNETCORE-WINAUTHTOKEN", "MS-ASPNETCORE-CLIENTCERT"} \subseteq Reserved
    /\ Reserved \cap {"X-Forwarded-For", "X-Forwarded-Proto", "Connection"} = {} /\ Null # "0"
    /\ Requests \subseteq Seq([name : STRING, value : Seq(STRING)])
    /\ \A l \in Requests : \A i, j \in DOMAIN l :
          i # j /\ l[i].name = l[j].name => l[i].name \notin {"X-Forwarded-For", "X-Forwarded-Proto"}
    /\ Functions \in Seq(STRING)

VARIABLES
    unit,
    chains, nItems, readers, pc, key, node, prev, next, ret, refs, held,
    tree, count, size, sharers, tpc, rec, len, up, trefs, theld, shares, fault,
    m_nThreshold, lists, heap, signed, users, cpc, block, list,
    log, memory, NextEntry, writes, lpc, index, number, copied,
    contexts, stored, configs, named, record, m_cRefs, m_srwLock, pages, lost,
    apc, context, config, app,
    variables, pszPath, g_fNsiApiNotSupported, pszCommandLine, mszEnvNames, mszEnvironment,
    mszEnvironmentListReverse, m_mszEnvironment, m_Environment, environmentCopied, m_dwPort,
    m_dwDebugPort, cRetry, fDebugPortEnvSet, mszNewEnvironment, dropped, epc, variable,
    response, verb, upgraded, status, known, unknown, m_cContentLength,
    fServerHeaderPresent, m_fResponseHeadersReceivedAndSet, line, hpc,
    client, pSslInfo, pClientCertInfo, user, forwardToken, m_fWebSocketEnabled, listening,
    headers, mszMsAspNetCoreHeaders, kept, m_pszHeaders, qpc, header,
    mpc, step, global, exists, factory, hr, tracing, g_fWebSocketSupported, resolved,
    g_dwActiveServerProcesses, sleeps,
    spc, m_fStdoutLogEnabled, nulHandle, m_hStdoutHandle, handles, hStdOutput,
    timer, fInCanel, ticking, queued, callback, logged,
    slots, listReady, lock, route, rapidFails, pmRefs, alloc, cRefs, fReady, fStopping, port,
    wait, os, listener, stops, ppc, idx, seen, owner, process, rpc, cursor, appAlive

-----------------------------------------------------------------------------
(* Containers, the allocator, the trace log.                               *)

Table == INSTANCE HashTable

Tree == INSTANCE TreeHash WITH
    nItems <- count, readers <- sharers, pc <- tpc, refs <- trefs, held <- theld

Cache == INSTANCE AllocCache WITH pc <- cpc

Log == INSTANCE TraceLog WITH pc <- lpc

tableVars == <<chains, nItems, readers, pc, key, node, prev, next, ret, refs, held>>
treeVars == <<tree, count, size, sharers, tpc, rec, len, up, trefs, theld, shares, fault>>
cacheVars == <<m_nThreshold, lists, heap, signed, users, cpc, block, list>>
logVars == <<log, memory, NextEntry, writes, lpc, index, number, copied>>

-----------------------------------------------------------------------------
(* The application manager and the process manager.                        *)

App == INSTANCE ApplicationManager WITH pc <- apc

Manager == INSTANCE ProcessManager WITH list <- slots, pc <- ppc, held <- process, Free <- Unlocked

appVars == <<contexts, stored, configs, named, record, m_cRefs, m_srwLock, pages, lost,
             apc, context, config, app>>
managerVars == <<slots, listReady, lock, route, rapidFails, pmRefs, alloc, cRefs, fReady, fStopping,
               port, wait, os, listener, stops, ppc, idx, seen, owner, process,
               rpc, cursor, appAlive>>

-----------------------------------------------------------------------------
(* What goes into a process and a request, and what comes out.             *)

Env == INSTANCE ProcessEnvironment WITH
    Ports <- PortTexts, copied <- environmentCopied, pc <- epc, index <- variable

Response == INSTANCE ResponseHeaders WITH
    Blocks <- Responses, None <- Null,
    block <- response, m_fWebSocketEnabled <- upgraded, index <- line, pc <- hpc

Request == INSTANCE RequestHeaders WITH index <- header, pc <- qpc

envVars == <<variables, pszPath, g_fNsiApiNotSupported, pszCommandLine, mszEnvNames,
             mszEnvironment, mszEnvironmentListReverse, m_mszEnvironment, m_Environment,
             environmentCopied, m_dwPort, m_dwDebugPort, cRetry, fDebugPortEnvSet,
             mszNewEnvironment, dropped, epc, variable>>
responseVars == <<response, verb, upgraded, status, known, unknown, m_cContentLength,
                  fServerHeaderPresent, m_fResponseHeadersReceivedAndSet, line, hpc>>
requestVars == <<client, pSslInfo, pClientCertInfo, user, forwardToken, m_fWebSocketEnabled,
                 listening, headers, mszMsAspNetCoreHeaders, kept, m_pszHeaders, qpc, header>>

-----------------------------------------------------------------------------
(* The module itself, and the stdout log of a server process.              *)

Module == INSTANCE ModuleLife WITH pc <- mpc

moduleVars == <<mpc, step, global, exists, factory, hr, tracing, g_fWebSocketSupported, resolved,
                g_dwActiveServerProcesses, sleeps>>

Stdout == INSTANCE StdoutLog WITH Callbacks <- Threads, pc <- spc, process <- logged

stdoutVars == <<spc, m_fStdoutLogEnabled, nulHandle, m_hStdoutHandle, handles, hStdOutput,
                timer, fInCanel, ticking, queued, callback, logged>>
lives == <<moduleVars, stdoutVars>>

-----------------------------------------------------------------------------
\* A component that does not run has one of its inputs.
One(S) == CHOOSE x \in S : TRUE
Fixed ==
    /\ unit = "cache" \/ m_nThreshold = 0
    /\ unit = "env" \/ /\ variables = One(Collections) /\ pszPath = One(AppConfigPaths)
                       /\ pszCommandLine = One(Arguments) /\ g_fNsiApiNotSupported = FALSE
    /\ unit = "response" \/ /\ response = One(Responses) /\ verb = One(Verbs) /\ upgraded = FALSE
    /\ unit = "request" \/ /\ client = One(Requests) /\ pSslInfo = FALSE
                           /\ pClientCertInfo = One(Certs) /\ user = One(Users)
                           /\ forwardToken = FALSE /\ m_fWebSocketEnabled = FALSE /\ listening = FALSE
    /\ unit = "stdout" \/ (m_fStdoutLogEnabled = FALSE /\ nulHandle = FALSE)

Init ==
    /\ unit \in Active /\ Fixed
    /\ Table!Init /\ Tree!Init /\ Cache!Init /\ Log!Init /\ App!Init /\ Manager!Init
    /\ Env!Init /\ Response!Init /\ Request!Init /\ Module!Init /\ Stdout!Init

library == <<tableVars, treeVars, cacheVars, logVars>>
processes == <<appVars, managerVars>>
texts == <<envVars, responseVars, requestVars>>

TableStep == unit = "table" /\ Table!Next
             /\ UNCHANGED <<unit, treeVars, cacheVars, logVars, processes, texts, lives>>
TreeStep == unit = "tree" /\ Tree!Next
            /\ UNCHANGED <<unit, tableVars, cacheVars, logVars, processes, texts, lives>>
CacheStep == unit = "cache" /\ Cache!Next
             /\ UNCHANGED <<unit, tableVars, treeVars, logVars, processes, texts, lives>>
LogStep == unit = "log" /\ Log!Next
           /\ UNCHANGED <<unit, tableVars, treeVars, cacheVars, processes, texts, lives>>
AppStep == unit = "app" /\ App!Next
           /\ UNCHANGED <<unit, library, managerVars, texts, lives>>
ManagerStep == unit = "manager" /\ Manager!Next
               /\ UNCHANGED <<unit, library, appVars, texts, lives>>
EnvStep == unit = "env" /\ Env!Next
           /\ UNCHANGED <<unit, library, processes, responseVars, requestVars, lives>>
ResponseStep == unit = "response" /\ Response!Next
                /\ UNCHANGED <<unit, library, processes, envVars, requestVars, lives>>
RequestStep == unit = "request" /\ Request!Next
               /\ UNCHANGED <<unit, library, processes, envVars, responseVars, lives>>
ModuleStep == unit = "module" /\ Module!Next
              /\ UNCHANGED <<unit, library, processes, texts, stdoutVars>>
StdoutStep == unit = "stdout" /\ Stdout!Next
              /\ UNCHANGED <<unit, library, processes, texts, moduleVars>>

Next == \/ TableStep \/ TreeStep \/ CacheStep \/ LogStep \/ AppStep \/ ManagerStep
        \/ EnvStep \/ ResponseStep \/ RequestStep \/ ModuleStep \/ StdoutStep

Spec == Init /\ [][Next]_<<unit, library, processes, texts, lives>>

-----------------------------------------------------------------------------
(* What each component promises; its own module says it in detail.         *)

\* HASH_TABLE is a set of records with one for each key, under its lock.
ActsAtomically == Table!ActsAtomically
\* HASH_TABLE: the count, the chains and the references agree.
CountsExact == Table!CountsExact
\* TREE_HASH_TABLE: the tree, the count and the references agree.
TreeIsSound == Tree!TreeIsSound
\* ALLOC_CACHE_HANDLER: a block is in one place, a list stays near the threshold.
CacheIsSound == Cache!CacheIsSound
\* The trace log: no two entries overlap and none leaves the allocation.
EntriesStayApart == Log!EntriesStayApart
\* APPLICATION_MANAGER: requests share one application of a configuration.
ApplicationsAreShared == App!ApplicationsAreShared
\* Only the context of an application's configuration recycles it.
RecycledByItsContext == App!RecycledByItsContext
\* SERVER_PROCESS: the references are exact without a TCP owner table, too.
ServerProcessRefs == Manager!ServerProcessRefs
\* The backend gets the environment the configuration asks for.
EnvironmentDelivered == Env!EnvironmentDelivered
\* A configured variable overrides the inherited one.
OverridesApply == Env!OverridesApply
\* The client gets the backend's headers.
ClientSees == Response!ClientSees
\* The backend gets the client's headers and the module's own.
BackendSees == Request!BackendSees
\* The module, and a server process with a stdout log, undo what they set up.
CleansWhatItSet == Module!CleansWhatItSet /\ Stdout!CleansWhatItSet
==============================================================================
