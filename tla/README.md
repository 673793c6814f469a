# Verification of the ASP.NET Core Module

`AspNetCoreModule` is an IIS native module.  For every IIS application it
starts a backend process (a Kestrel server), forwards each HTTP request to it
over WinHTTP, relays WebSocket traffic, restarts the backend when it crashes
and takes the application offline when `app_offline.htm` appears.  This
directory holds TLA+ models of the parts of it that run concurrently, the TLC
runs that check them on small instances, and TLAPS proofs of the properties
that matter most.  Source paths below are relative to `src/src/`.

## 1. Inventory

| Component (source) | State | Operations | Hard behaviour |
|---|---|---|---|
| Process manager (`AspNetCore/Src/processmanager.cxx`, `Inc/processmanager.h`) | slot table, SRW lock, round-robin counter, rapid-fail window, reference count | `GetProcess`, `ShutdownProcess`, `SendShutdownSignal`, `ShutdownAllProcesses`, `IncrementRapidFailCount` | double-checked look-up with an unlocked read, a lock held for seconds, callbacks that outlive the application |
| Server process (`serverprocess.cxx/.h`) | reference count, `m_fReady`, `m_fStopping`, port, process handles, registered waits | `StartProcess`, `RegisterProcessWait`, `HandleProcessExit`, `SendSignal`, `StopProcess` | partial failure of a long start, several exit callbacks for one object, processes the module does not control |
| WebSocket handler (`websockethandler.cxx/.h`) | outstanding-IO count, clean-up flags, WinHTTP handle, two buffers | `ProcessRequest`, four `Do...` helpers, six completions, `Cleanup` | completions on any thread or on the caller's own stack, count and test outside the lock, deletion by the last one out |
| Forwarding handler (`forwardinghandler.cxx/.h`) | request status, WinHTTP handle, references, byte counters, buffers | `OnExecuteRequestHandler`, `OnAsyncCompletion`, `OnWinHttpCompletion`, `TerminateRequest` | IIS and WinHTTP completions interleave; the object lives by reference count; a thread-local flag replaces lock recursion |
| Application (`application.cxx/.h`) | process manager, `APP_OFFLINE_HTM` pointer, file watcher entry, references | `UpdateAppOfflineFileHandle`, destructor | a raw pointer swapped under its readers |
| Application manager (`applicationmanager.cxx/.h`) | hash table of applications, SRW lock | `GetApplication`, `RecycleApplication`, `Get502ErrorPage` | double-checked creation, references of table entries |
| File watcher (`filewatcher.cxx/.h`) | completion port, one thread, entries with references and flags | `Monitor`, `StopMonitor`, `FileWatcherCompletionRoutine` | an entry that deletes itself, racing the destructor of its application |
| Configuration (`aspnetcoreconfig.cxx/.h`) | one object per IIS application, in its module context container | `GetConfig`, `Populate`, destructor | several first requests install it at once; its destructor stops the application's processes |
| Process environment (`aspnetcoreconfig.cxx`, `serverprocess.cxx`) | configured variables, command line, environment block | `Populate`, `Initialize`, `StartProcess` | which of several variables of a name wins, what a placeholder becomes, steps that run out of memory |
| Headers (`forwardinghandler.cxx`, `responseheaderhash.cxx`, `protocolconfig.cxx`) | the headers of the request and of the response | `GetHeaders`, `SetStatusAndHeaders` | edits one by one, each of which may fail; headers that IIS keeps once or many times |
| Module (`dllmain.cpp`, `proxymodule.cxx`, the `StaticInitialize`s) | process-wide pointers and handles | `RegisterModule`, `Terminate` | a failure at any step, then two clean-ups of the same statics |
| Hash tables (`IISLib/hashtable.h`, `treehash.h`) | buckets of chains, a count, a table lock | insert, find, delete, clear, resize | inserts link under a shared lock by compare-and-swap; records are reference counted |
| Allocation cache (`IISLib/acache.cxx`, `percpu.h`) | one lock-free list per processor | `Alloc`, `Free`, `CleanupLookaside` | a depth read before the push, threads that change processors |
| Trace log (`IISLib/tracelog.c`) | a ring of entries | create, write, destroy | sizes that overflow, several writers without a lock |
| Stdout log and timer (`serverprocess.cxx`, `sttimer.h`) | a file handle, a thread-pool timer, its callbacks | `SetupStdHandles`, `TimerCallback`, `InitializeTimer`, `CancelTimer` | callbacks with a bare pointer to the process, two places that undo the log |
| Paths, strings, tracing output, COM configuration access | data, or read-only after initialisation | parse, format, look up | none |

How they interact: IIS calls `CProxyModule`, which creates a
`FORWARDING_HANDLER` per request.  It takes an `APPLICATION` from the
`APPLICATION_MANAGER`, a `SERVER_PROCESS` from the application's
`PROCESS_MANAGER`, and talks to WinHTTP; completions come back from IIS's and
WinHTTP's threads.  A 101 response turns the request over to a
`WEBSOCKET_HANDLER`.  Exits of backend processes arrive on thread-pool wait
threads (`ProcessHandleCallback`), file changes on the watcher's thread and
configuration changes on IIS's; they call into the same process manager.

What makes each one correct: a process manager hands out live, ready processes
and never more failed starts than `rapidFailsPerMinute` allows; a server
process is stopped once, freed when its last user is gone, and no backend is
left running behind; the WebSocket handler completes its request exactly once
and is freed after its last operation; a forwarding handler answers every
request once and outlives its callbacks; an application is referenced by
everything that can reach it; a watcher entry is deleted exactly once; the
configuration that lost a race stops nobody's processes; a backend finds the
variables that were configured for it and its request the headers the module
vouches for; a client gets what the backend answered; a table keeps one record
per key and counts its references; and whatever step of the registration fails,
everything acquired is released once.

The hazards these properties are for are in `PROJECT.json`, each at its line.

## 2. Modules

| Module | Models | Run through |
|---|---|---|
| `ProcessManager.tla` | process manager and server processes | `MCProcessManager.tla`, `ProcessManager_*.cfg` |
| `ProcessManager_proofs.tla` | TLAPS proofs about it | `tlapm` |
| `WebSocketHandler.tla` | WebSocket handler and the forwarding handler's side of it | `MCWebSocketHandler.tla`, `WebSocketHandler_*.cfg` |
| `WebSocketHandler_proofs.tla` | TLAPS proofs about it | `tlapm` |
| `FileWatcher.tla` | an application, its watcher entry and its `app_offline.htm` pages | `MCFileWatcher.tla`, `FileWatcher_*.cfg` |
| `FileWatcher_proofs.tla` | TLAPS proofs about it: the watcher's entry; the references of the application and its pages | `tlapm` |
| `RequestLife.tla` | what a forwarding handler promises IIS, an abstract specification | as a property of `ForwardingHandler` |
| `ForwardingHandler.tla` | one forwarding handler, from request to deletion | `MCForwardingHandler.tla`, `ForwardingHandler_request.cfg` |
| `ForwardingHandler_proofs.tla` | TLAPS proofs about it: turns, references and the refinement; bodies, buffers and headers | `tlapm` |
| `ApplicationManager.tla` | configurations and applications of one id, created by racing requests and recycled | `MCUnits.tla`, `Units_*.cfg` |
| `ProcessEnvironment.tla` | the variables, ports and command line of a backend | `MCUnits.tla` |
| `ProcessEnvironment_proofs.tla` | TLAPS proof about it | `tlapm` |
| `RequestHeaders.tla`, `ResponseHeaders.tla` | the headers sent to the backend and to the client | `MCUnits.tla` |
| `ModuleLife.tla` | registration, static initialisation and unloading of the module | `MCUnits.tla` |
| `StdoutLog.tla` | the stdout log of a server process, and `STTIMER` | `MCUnits.tla` |
| `KeyedSet.tla` | what a hash table promises, an abstract specification | as a property of `HashTable` |
| `HashTable.tla` | `HASH_TABLE` | `MCUnits.tla` |
| `HashTable_proofs.tla` | TLAPS proofs about lists and about it | `tlapm` |
| `TreeHash.tla` | `TREE_HASH_TABLE` | `MCUnits.tla` |
| `TreeHash_proofs.tla` | TLAPS proof about it | `tlapm` |
| `AllocCache.tla` | `ALLOC_CACHE_HANDLER` over `PER_CPU` | `MCUnits.tla` |
| `TraceLog.tla` | the trace log | `MCUnits.tla` |
| `Lists.tla` | the part of a list with certain names, for the tables and the headers | by `HashTable`, `RequestHeaders`, `ResponseHeaders` |
| `Units.tla` | the components that do not interact, one at a time | `MCUnits.tla` |
| `Units_proofs.tla` | TLAPS proofs about them | `tlapm` |

Operators named `X_Something` right before an `X` are mutants: `X` with a
plausible mistake.  They are used nowhere; substituting one for its original
must make TLC report the property that `PROJECT.json` pairs it with, which is
the evidence that the property is sensitive to that code.

### 2.1 ProcessManager

*Actors.*  Request threads in `GetProcess` (`pc[t]`), thread-pool callbacks in
`HandleProcessExit` (`wait[p][w]`, one per registered wait), the recycler in
`SendShutdownSignal` (`rpc`), and the operating system (`os`, `listener`),
which lets backends spawn children, bind their port and exit at any time.

*Correspondence.*  `list`, `listReady`, `lock`, `route`, `rapidFails`,
`pmRefs` are the members of `PROCESS_MANAGER` (the counter modulo the table
size); `cRefs`, `fReady`, `fStopping`, `port`, `wait` those of
`SERVER_PROCESS`; `alloc` says whether the object is allocated.  Each action
names the code it stands for and `PROJECT.json` gives the lines.  A section
that holds `m_srwLock` for an instant is one step that needs the lock free; a
start and a recycle, which hold it for seconds, are sequences of steps between
which everything that needs no lock goes on.

*Choices.*  Callbacks run concurrently: wait threads are shared by at most 63
handles, so two callbacks of one manager may well be on different threads.
`CheckIfServerIsUp` answers the truth, or "no" after an error of its own.
Ports come from a small set, and `ForeignPorts` belong to other programs.
`NsiSupported = FALSE` covers systems with no TCP table, where the check
cannot tell who listens.  A wait's registration may fail unnoticed
(`serverprocess.cxx:1806`); such a wait is "lost", and one that a failed start
unregisters (`:850`) is "cancelled": neither has a callback, so the reference
each was given is leaked (`Leaked`) and its object never deleted.
The unlocked reads at `processmanager.cxx:167` may hit a null pointer or a
deleted object (`IsReady`): a null pointer faults, a deleted object faults or
answers either way.  A thread that faults goes to `fault` and stays there.

*Left out.*  `Initialize`, Winsock start-up and tear-down, job-object creation
failing.  Command line and environment are `ProcessEnvironment`'s, the standard
handles and the stdout log `StdoutLog`'s.

### 2.2 WebSocketHandler

*Actors.*  `Starter`, the thread in `OnAsyncCompletion` that creates the
handler and runs `ProcessRequest`; a pool of `Workers` each of which runs one
completion handler at a time; IIS and WinHTTP, which work on `pending`
operations and complete them in any order, well or badly.

*Correspondence.*  `outstanding`, `fCleanup`, `fIndicate`, `hSocket` are the
members of `WEBSOCKET_HANDLER`, `hRequest`, `status`, `refs` those of
`FORWARDING_HANDLER`.  `lock` is the stack of owners of the recursive critical
section: WinHTTP may call back on the issuing thread before the call returns,
and such an activation (its `parent` is that thread) may enter the lock its
parent holds while its parent stands still.  IIS operations, issued
asynchronously with no completion-expected pointer, complete on other threads.
A `Do...` helper is two steps, the increment and the call, because an inline
callback can fall between the call and its return.  `Deleted` is the state in
which the forwarding handler's last reference is gone; its destructor deletes
the WebSocket handler.  After a failed start the status is "done" while
operations may still be under way: what they call back is taken for a
completion of the response (`Misroute`), whose failure exit drops a reference
that no websocket operation took and posts a completion
(`forwardinghandler.cxx:2192-2288`).

*Left out.*  Frame contents and types other than "close"; reference tracing;
`TerminateRequest`, which nothing calls since the disconnect notification was
commented out (`forwardinghandler.cxx:1198`).

### 2.3 FileWatcher

*Actors.*  `Creator`, the request in `GetApplication` that creates the
application and goes on as an ordinary request; `Requests`, which find it in
the table; `Recycler`, which takes it out; `Watcher`, the thread that serves
the completion port; the file system, which changes the file, records changes
and completes the pending `ReadDirectoryChangesW`.

*Correspondence.*  `cRefs`, `fIsValid`, `fStop`, `lock`, `hDirectory` are the
members of `FILE_WATCHER_ENTRY`; `page`, `fFound`, `appRefs` those of
`APPLICATION`; `htmRefs`, `contents` those of each `APP_OFFLINE_HTM`.  `io`
and `packet` are the entry's one `OVERLAPPED` and its completion packet.  The
destructor of the application runs on whichever thread drops the last
reference, in the steps `mark`, `stop`, `close`, `delete`.

*Choices.*  Once a watch has been armed on a handle, the system goes on
recording changes between two calls, as NTFS does.  `DirectoryChange` covers
what the completion routine takes for a change of the file without being one
(a buffer overflow, a name that is a prefix).  `MayFail` lets the calls on the
directory and the file fail; a file that cannot be read, or is too big, loads
well as an empty page (`Unread`, `application.h:94-113`).  A request that references a page deleted since
it read the pointer goes to `fault` and stays there.

*Left out.*  Start and end of the watcher itself (`ModuleLife` has its
resources), the file's MIME headers, and what `SendShutdownSignal` does, which
is `ProcessManager`'s.

### 2.4 ForwardingHandler and RequestLife

*Actors.*  `Frames` are activations of the entry points: one of
`OnExecuteRequestHandler` (`First`) and any number, one after another, of
`OnAsyncCompletion` and `OnWinHttpCompletion`.  An operation under way (`ops`)
may complete at any time, also while the frame that started it is still on its
way to its last dereference, so frames overlap; WinHTTP calling back on the
stack of the call that started the operation is one such overlap, in which the
caller stands still.

*Correspondence.*  `status`, `toReceive`, `toSend`, `contentLength`,
`fWebSocket`, `fHeaders`, `buffers`, `hRequest`, `cRefs` are members of
`FORWARDING_HANDLER`; `module` is IIS's `CProxyModule`, which holds one
reference; `chunk`, `http`, `reset` are what `IHttpResponse` was told;
`answers` and `answer` the notification statuses other than pending that were
returned.  `entity`, `reply`, `declared` are bodies still to come, chosen by
`Init`.  A frame runs from its label (`execute`, `callback`, `async`) to
`return` in one step, in which it changes members and starts at most one
operation, always last; its dereference is the next step (`Return`), and a
callback that started nothing posts a completion after that (`post`).

*Choices.*  `m_RequestLock` and the TLS slot are not in the model: the lock is
taken shared only, so it excludes nobody; that is why `OneOwes` matters.
`INFINITE` is one more than the longest body.  An earlier module may have
consumed entity, so `entity` may be less than the declared length.  WinHTTP
may read nothing of what it announced, which the code only asserts against
(`forwardinghandler.cxx:2611`); it then posts a completion and asks again.  The
operation `WebSocket` stands for the whole of `WebSocketHandler`, with the one
completion that module shows to be its last; the partial failure of
`ProcessRequest` that run `ws_orphan` is about is a failure here.

*Refinement.*  `RequestLife` knows three things of a request: who owes its
next step (the module, an operation, nobody), its answer, and whether the
handler is deleted.  `KeepsPromise` maps the first to `owes`: the module if a
frame has still to start an operation or to answer, else an operation if one is
under way.  In particular nothing is started, and no answer given, after the
answer.

*Left out.*  `TerminateRequest` and `ASYNC_DISCONNECT_CONTEXT`, unused since
the registration is commented out; response buffering (the limit is always 0,
`protocolconfig.cxx:33`); chunk contents; tracing.  Headers and static
initialisation have modules of their own.

### 2.5 ApplicationManager

*Actors.*  Requests (`pc[t]`) on their way through `GetConfig` and
`GetApplication`, and IIS, which starts contexts and ends them.  A context is an
`IHttpApplication` with its container; while the requests of an old one drain,
a new one may run under the same application id.

*Correspondence.*  `stored` is what `GetModuleContext` returns, `configs` the
`ASPNETCORE_CONFIG` objects there are, `named` those that know their
application id; `record`, `m_cRefs`, `m_srwLock` and `pages` are the entry of
the table, its reference count, the manager's lock and the creation of the
shared error page.  The operations of the table are atomic here, which
`HashTable` shows of them.

*Choices.*  Everything that allocates may fail.  When the copy of the id fails,
`GetConfig` deletes an object the container still holds
(`aspnetcoreconfig.cxx:84`); such a context is `lost`.  Requests go on entering
it and find the deleted object; `ApplicationsAreShared` promises nothing about
the configuration of a lost context.

*Left out.*  The end of a lost context, which deletes its configuration a
second time: what that does is undefined.  That a request may find the manager
already cleaned up, when the module is unloaded under it.

### 2.6 ProcessEnvironment

One configuration read, one process started: `variables`, `pszCommandLine` and
`pszPath` are the inputs, `m_mszEnvironment` the result of `Populate`,
`m_Environment` the copy of the process, `mszNewEnvironment` the block
`CreateProcess` gets.  Texts are sequences of tokens, so that "contains" (the
code's `wcsstr`), "begins with" and "equals" differ as they do in the code.
What looks at its result leaves when there is no memory (`Fail`).  The appends
of `ReverseMultisz` and of `StartProcess` (`serverprocess.cxx:276` to `468`) do
not: `Unchecked` lets each of them leave its entry out, or half of the path and
the token, and `dropped` counts how often that happened, up to `MaxDropped`.
The copy of the variables may fail unnoticed as well (`copied`,
`serverprocess.cxx:52`).

`EnvironmentDelivered` is about what the started process looks up.  While
nothing was dropped, its own port and path are there whatever is configured.
The rest is stated for `Ordinary` names: one with an `=` or a placeholder inside
would change what an entry is a value of, and one of the module's own names is
hidden by the module's entry, which comes first.  An inherited variable that is
neither configured nor the module's keeps its value, and `DEBUG_PORT` is the
module's if something asks for it and the inherited one otherwise.  That a
configured variable has its last value needs besides that the copy worked and
that no variable's string contains another's name and `=` (`Confused`); run
`env_override` is about the others.  Whatever was dropped or confused, the two
ports differ, and an ordinary name brings one of its own values, the worker's
or none: entries get lost, but none is delivered under another's name.

### 2.7 RequestHeaders and ResponseHeaders

Both follow one block of headers line by line and call by call; every call of
IIS may fail.  A header is a name and a sequence of values.  `RequestHeaders`
starts from the headers of a client and ends with what `ALL_RAW` reads out;
`ResponseHeaders` starts from what WinHTTP read and ends with the response of
IIS.  Left out: the inner form of dates, tokens and certificates, the limits of
IIS on header sizes, and `DoReverseRewrite`, whose switch
`m_fReverseRewriteHeaders` is never set (`protocolconfig.cxx:17`).

### 2.8 ModuleLife

`global` and `exists` say of each process-wide pointer or handle whether it is
set and how many objects it owns, so that a second release, a leak and a
dangling pointer all show.  `RegisterModule` runs step by step, each step may
fail; IIS terminates the factory also after a registration that failed; backend
processes come and go meanwhile, and `StaticTerminate` waits for them only so
long.

### 2.9 StdoutLog

The start of a server process opens the log and starts a timer, then works or
fails; a failed start and, later, the destructor close the handle and cancel
the timer, each in the steps of the code.  Meanwhile callbacks become due and
run on the threads `Callbacks` of the pool, in three steps: they begin, open
the file by the path that the process holds, and close it.  `handles` counts
the handles that were given, so that a handle closed twice or never shows;
`timer` is "forgotten" where the code clears `_pTimer` with the timer unclosed.
`CancelTimer` stops the ticking, drops what is due and waits for what
runs; `CleansWhatItSet` says that no callback reaches a process that
is deleted.

### 2.10 The library

`HashTable` has a bucket as a chain of nodes, each thread's `FindNodeInternal`
walking it node by node while others link theirs; deletions, clearing and
resizing hold the table lock alone and are one step each.  It implements `KeyedSet`: an insert takes
effect when its compare-and-swap succeeds or when it sees a record with its
key.  `TreeHash` keeps paths with their parents: an insert looks for the lowest
part of its path that has a node and adds one node per segment below it, each
by two compare-and-swaps, beside other inserts that do the same; its buckets
are `HashTable`'s, so finding and linking in them are single steps.
An insert that cannot copy its path releases the lock without having taken it
(`CopyFails`, `treehash.h:543` and `594`).  `shares` is how many shared holds
the lock counts, `readers` the threads that are inserting; the first is smaller
once a copy has failed while somebody was inserting.  A release with no share
left, or a writer that is let in while there are readers, has effects the code
does not define, and sets `fault`, after which the model stops.  `TreeIsSound`
relates the nodes, the lists of children, the count and the references up to
there.  `AllocCache`
lets a thread change processors between any two steps.  `TraceLog` computes
sizes in `Width` bits and copies an entry byte by byte.

### 2.11 MCUnits

These components do not interact while they work, so one run checks them all:
a behaviour of `Units` chooses one component out of `Active` (`unit`) in its
initial state and runs that one alone; the variables of the others keep one
initial value (`Fixed`).  The states of the run are the sum of the components'
states, not their product.  The components are instances of their modules with
their variables renamed where two have the same name: `table`, `tree`, `cache`,
`log`, `app`, `manager` (a second instance of `ProcessManager`, with a child
process and no TCP table), `env`, `response`, `request`,
`module` and `stdout`.  `Units` holds the constants' assumptions
(`UnitsAssumption`) and the properties, `MCUnits` the values.  The two threads
are interchangeable in every component, which the symmetry uses.

## 3. Runs

| Run | Shows |
|---|---|
| `pm_lookup` | two requests, callbacks and recycles on one slot with two objects, the first of which may have a child process: `ListedIsReady`, `ReferencedIsLive`, `RunningIsListed`, `RapidFailBound`, `ManagerRefs`, `StoppedOnce` |
| `pm_live` | one request, a table of two slots, one backend with a child, and another program on one of the ports: `GetProcessReturns`: every look-up ends, under contention; `CrashedIsDelisted`: a backend that is gone with its child leaves the list while an exit has yet to be looked at, unless somebody answers on the port then |
| `pm_outparam` | violated: success without a process (`processmanager.cxx:167`) |
| `pm_stop` | violated: a healthy process is stopped by a late callback |
| `ws_relay` | three completion threads: the count is exact, the request is completed once and last, no loop is left stranded, one operation per buffer, no closed handle is used, and a clean-up ends with the handler freed; the promises about the count are for a websocket whose start did not fail |
| `ws_orphan` | violated: after a partial failure of `ProcessRequest` the handler is freed under a pending read |
| `fw_safety` | the file watched with two requests, a recycle, failing calls: `EntryRefsExact`, `AppOutlivesUpdate`, `SharedRefsExact` (the counts of the application and of its pages) |
| `fw_live` | `ChangeIsSeen`: the application ends up knowing the file as the last watched change left it; `ClosedIsDeleted` |
| `fw_early` | violated: the entry deletes itself before `StopMonitor` is done with it |
| `fh_request` | one request with every call failing or not: `OneOwes`, `RefsExact`, `HandlerOutlivesUse`, `BuffersOutliveUse`, `EntityIsForwarded`, `LengthIsAccounted`, `CompleteOrAborted`; `KeepsPromise` (it implements `RequestLife`) and `HandlerIsFreed` |
| `units` | each component of `Units` alone: `CountsExact`, `ActsAtomically` (`HashTable` implements `KeyedSet`), `TreeIsSound`, `CacheIsSound`, `EntriesStayApart`, `ApplicationsAreShared`, `RecycledByItsContext`, `ServerProcessRefs` (with a child and no TCP table), `EnvironmentDelivered`, `ClientSees`, `BackendSees`, `CleansWhatItSet` (of the module's statics, and of the stdout log of a server process) |
| `env_override` | violated: with `path` = `a` and `URLS` = `PATH=a`, or `MYPATH`, configured after it, the second is taken for `PATH` (`aspnetcoreconfig.cxx:374`), and the backend sees the inherited `PATH` |

*Bounds.* `Procs` bounds how many server processes are ever created in a
behaviour (an identity is never reused); two suffice for an old and a new
process meeting, three for a third that reuses a port. One or two slots, two
threads, one child: each hazard in the list needs no more actors than that. The
run `pm_live` has one thread and one object, but two slots, a child and a
foreign port: who competes for the lock there are the request, the callbacks of
the two waits and the recycler. `Workers` bounds how many completion handlers
run at once; each loop has one operation in flight, and three leaves room for
both loops' handlers and an inline callback. In `fw_safety` states are compared
up to which version of the file a page has (the view `AnyVersion`), which no
guard and none of its properties looks at. `MaxChanges` bounds the matching
changes of the directory: two let a change arrive during the handling of
another; each load needs at most one of `Htms`, so there is one more than there
are changes. `Frames` bounds how many frames of a request are alive at once:
the one that works and up to two that are returning. Bodies of `MaxBody` = 2
bytes with a buffer of one byte need two rounds, and WinHTTP may announce more
than one buffer holds. `ChildrenBound` of `MCProcessManager` gives children to
the first object of a behaviour only; in run `pm_live` and the unit `manager`
of run `units`, which have one object, that is no bound. `MaxDropped` = 1 loses
any one of the entries of an environment; the theorem has no such bound. The
hash table has five records, two of one key and two of one hash, and grows
once; the tree has the paths of three levels and a component that is empty, and
both orders in which a chain may have them. The allocation cache has four
blocks for two threads and two processors with a threshold of one, so a list
can pass its threshold. The trace log has integers of four bits and sizes that
overflow in each of their three ways, and `MaxWrites` = 6 goes around a ring of
two slots three times. Two contexts and three configurations let a context be
recycled while one request still has the old configuration and another creates
a new one. Two variables, three if their names are nearly alike, and three
header lines (of a request, two) are enough for a duplicate with something
between or after it; `MAX_RETRY` is 2 and `MaxSleeps` is 2, for 10 and 40 in
the code, as each further round repeats the last. Two callbacks of the log's
timer run at once and `MaxQueued` = 3 are due: the third waits for a thread. No
other bound is used: counts are finite because what they count is. Deadlock
checking is off in every run, since the systems end: the objects run out, or
the request is over.

*Fairness.* Threads and callbacks that can take a local step take it (weakly
fair: Windows schedules them). Acquiring an SRW lock is strongly fair: it is
queued, so a waiter that finds it free again and again gets it. The watcher's
thread and the destructor take the entry's SRW lock and are strongly fair for
the same reason. A frame of a forwarding handler runs to its end, and every
operation of WinHTTP and IIS completes (WinHTTP's by their timeouts), except a
websocket, which may stay open for ever; and WinHTTP does not for ever read
nothing of what it announced (strongly fair: the code asserts that it never
does); IIS destroys the module of an answered request. New requests, recycles,
changes of a file, crashes, ports being bound and IO completing are not forced,
except that an operation which was cancelled or whose handle was closed
completes, and that IIS destroys the module of a finished request: both are
what those interfaces guarantee.

Two more things a comment of the repository says are false of the code.  Both
are counted or excepted in properties of the runs that pass:

* "wait thread will dereference." (`serverprocess.cxx:1795`) is not so of a wait
  that is unregistered before it fires or was never registered.
  `ServerProcessRefs` counts the references left behind apart from those of
  users, and allows those of unregistered waits only on a backend that has left
  the list.
* The comment at `application.cxx:10-12`, which `fw_early` is about, says of
  every entry that it will delete itself.  A destructor that runs between the
  watcher's look at the entry's validity and its re-arming leaves an entry that
  nothing will delete (`StoppedIsDeleted` of `FileWatcher` is that claim);
  `ClosedIsDeleted` is about a watch that is in flight.

## 4. Proofs

`ProcessManager_proofs.tla` proves for every number of slots, threads,
processes, children and ports, from `ProcessManagerAssumption` alone:

* `TypeCorrect`: `Spec => []TypeOK`
* `ListedIsReadyTheorem`: `Spec => []ListedIsReady`
* `StoppedOnceTheorem`: `Spec => []StoppedOnce`
* `RunningIsListedTheorem`: `Spec => []RunningIsListed`
* `ReferencedIsLiveTheorem`: `Spec => []ReferencedIsLive`
* `ServerProcessRefsTheorem`: `Spec => []ServerProcessRefs`
* `ManagerRefsTheorem`: `Spec => []ManagerRefs`
* `RapidFailBoundTheorem`: `Spec => []RapidFailBound`

The properties are not inductive as they stand.  *Core* adds to the type
invariant who holds the lock (`LockOwner`), that a thread inside a start owns
its slot's entry (`StartingSlot`), and that a request holds a process only
outside the lock's section (`HeldByHave`).  On top of it *ListedOrStarting*
says that an entry is ready unless its starter still holds the lock, from
which `ListedIsReady` follows; *ListedIsUnstopped* says that a listed object
has never been stopped, which gives `StoppedOnce`, since every stop delists
what it stops; and *Running* says that whatever runs is listed and that the
backend itself is the first process of its job to be launched.  Each part is
preserved by lemmas of its own, one per effect an action can have, and the
theorems combine them.

The references are counted on top of *Core* by *Counting*: a process has at
most one entry of the list (*OneSlot*), an object that is not allocated is in
nobody's hands (*Fresh*), and its count is the number of its entries, threads
and waits, those that have no callback any more among them (*Exact*).  An action
takes an object from one holder, hands it to another, or adds and removes one,
so each changes two cardinalities by one at most; that whoever has an object by
a reference or through the list finds it allocated is then a consequence.
`ServerProcessRefsTheorem` splits the waits into those that call back and those
whose reference is leaked; a wait is cancelled together with the entries of its
object (*CancelledIsOut*), so leaks of that kind are of objects no longer listed.  `RapidFailBound` is inductive
with `CreateWithinLimit` (*Window*): a thread about to create a backend found
the count within the limit, and nobody counts a failure while it has the lock.

`FileWatcher_proofs.tla` proves for every number of requests, pages and
changes, from `FileWatcherAssumption` alone:

* `EntryRefsExactTheorem`: `Spec => []EntryRefsExact`
* `AppOutlivesUpdateTheorem`: `Spec => []AppOutlivesUpdate`

`EntryInv` strengthens the first with *Control* (which thread can be where)
and *OneOperation* (nothing is in flight on the entry until it is watched, nor
while the watcher's thread is between a completion and the next call).  For
the second, *DestructorWaits* says that the watcher updates under the lock and
that, once the destructor has closed the directory under that lock, `fStop` is
set and no update runs; the watcher tests the flag before it starts one.

and in its second part, for the same constants:

* `SharedRefsExactTheorem`: `Spec => []SharedRefsExact`

*AppInv* keeps two things of the application's count: that it is exact while no
thread has faulted, and that it is at least the number of holders always, since
a faulted thread never gives its reference up; so the destructor runs once and
alone even then.  *PageInv* says of every page that has been read that its count
is its users and the pointer, and that whoever holds or points to a page has
one that was read.  A step changes the holders by one thread (`PageHoldersMove`)
and has to account for the difference (`PageMove`).  A load needs a page no one
has had so far, and that there is one is the part that is not obvious:
*LoadInv* counts a credit for the creator and one for each matching change,
which passes from what the system has recorded to the packet, to the watcher's
thread and to its load, and is spent there; pages and credits together never
exceed the changes by more than one.  `FileWatcherAssumption` has
`MaxChanges >= 1` because the file may exist from the start, which counts as a
change.

`WebSocketHandler_proofs.tla` proves for every number of worker threads, from
`WebSocketHandlerAssumption` alone:

* `TypeOKTheorem`: `Spec => []TypeOK`
* `OutstandingIsExactTheorem`: `Spec => []OutstandingIsExact`
* `CompletionIsLastTheorem`: `Spec => []CompletionIsLast`
* `NeverStrandedTheorem`: `Spec => []NeverStranded`
* `OneStepPerLoopTheorem`: `Spec => []OneStepPerLoop`
* `UsesOpenHandleTheorem`: `Spec => []UsesOpenHandle`

The four completion handlers are one kind of step (*HandlerStep*), the three
ways to deliver a completion another (*DeliverStep*).  *Stack* says that the
recursive lock is a stack of threads, each on top of the one that waits for it,
so that a thread that runs inside it is the last of them: that is why no
operation is being issued when Cleanup closes the handle.  *Counted* keeps,
besides the exact count, its lower bound after a failed start, when a callback
may be taken for one of the response's (`Misroute`) and is never counted down; `Balanced` shows that every other step changes the load and the
count alike.  *Last* says that whoever finds the count at zero is alone, since
whoever is at work keeps it above zero (`Busy`), and that it stays at zero.
`NeverStranded` does not follow from the count: *Reading* adds that until a
cleanup the loop from the backend has an operation in flight, a handler at
work, or a failure about to clean up.  `OneStepPerLoop` needs that the second
loop is empty until the starter issues its first read.

`ForwardingHandler_proofs.tla` proves for every number of frames, every length
of the bodies and every size of the buffers, from `ForwardingHandlerAssumption`
alone:

* `OneOwesTheorem`: `Spec => []OneOwes`
* `RefsExactTheorem`: `Spec => []RefsExact`
* `HandlerOutlivesUseTheorem`: `Spec => []HandlerOutlivesUse`
* `KeepsPromiseTheorem`: `Spec => KeepsPromise`, the refinement of `RequestLife`

What a working frame does to members, counters and buffers is many actions, but
to the control state it has two effects: it keeps the turn (*KeepsTurn*) or
passes it to an operation (*PassesTurn*), with the references that go with it.
The lemmas `Execute`, `Callback` and `Async` show that every action has one of
them.  The inductive invariant *Inv* is made of the types of the control state
(*Control*, which also says that the module is only destroyed after the answer
and that a frame about to close the request has nothing left to return),
`OneOwes` said of frames and operations one by one (*OneParty*), and
`RefsExact`; the counts follow the sets of holders, which a step changes by one
frame and one operation at most.  That the handler is alive before the answer
is a consequence (`Alive`), and with it each effect is a step of `RequestLife`
or a stutter.

Its second part adds, for the same constants:

* `TypeOKTheorem`: `Spec => []TypeOK`
* `BuffersOutliveUseTheorem`: `Spec => []BuffersOutliveUse`
* `EntityIsForwardedTheorem`: `Spec => []EntityIsForwarded`
* `LengthIsAccountedTheorem`: `Spec => []LengthIsAccounted`
* `CompleteOrAbortedTheorem`: `Spec => []CompleteOrAborted`

*Data* is types, *Flow* and *Turns*.  *Flow* relates the counters to what is
left of both bodies; *Turns* says of each operation under way (*Phase*) and of
each frame (*Place*) in which state it finds the members: the status it was
started in, whether the headers are out, whether its buffer is allocated.  Frames
overlap, so nothing of this would be inductive by itself; it is because of
`OneParty` that the one frame at work, or the one operation, is the only place
where the members still matter, and every frame on its way out is past reading
them.

`ProcessEnvironment_proofs.tla` proves for any configuration, command line,
path and inherited environment and any upper-case table:

* `EnvironmentDeliveredTheorem`: `Spec => []EnvironmentDelivered`

if texts are made of tokens, an inherited entry has a name (it is not empty and
does not begin with `=`) and no port is spelled like `=` or a placeholder
(`Assumptions`).  An entry is found by its name because a name without `=` is a
prefix of `name=value` in one way only (`Named`, `SameName`); the least position in a set,
the last in the reversed list and the places of a part in a text are lemmas of
their own, by the well-foundedness of `<`.  The inductive invariant *IInv* says
at each stage what it hands on, of which much holds only while nothing was
dropped.  *Recorded*: the names read so far, each once, and the strings in the
order of the configuration.  *Reversing*: the strings from the last one
backwards.  *Selected*: for each name the last string that contains it, which is
the variable's own last one unless the configuration is confused; in any case
strings of configured variables (*Collected*).  *Passed*: what the process has
of that, all or nothing.  The ports differ once both are chosen.  *Begun* and
*Made*: the block so far is the module's entries (*OwnEntry*), then the variables
with the placeholders filled in and, if something has asked for it, entries of
`DEBUG_PORT`, all alike.  Since later stages only append, a look-up that has
found a variable keeps finding it, and what is inherited counts only for names
that are not there yet (`Looked`, `LookedPast`); that gives *Complete*, what is
promised while nothing was dropped.  For the rest, *Known* lists every text that
can get into the block, whole or in half, and none of them brings a name a value
meant for another (*Meant*).

`HashTable_proofs.tla` proves for any number of threads, records and buckets:

* `CountsTheorem`: `Spec => []CountsExact`
* `AtomicTheorem`: `Spec => ActsAtomically`, the refinement of `KeyedSet`

if threads and records are finitely many, the hashes are natural numbers,
`Null` is nothing it is compared with, and there is a prime number, not zero,
for as many buckets as there are records (`Assumptions`); the table never has
more, as it only grows to fewer buckets than it has items.  Its first part is
about lists: induction over the natural numbers and over lists, reached with
sets of numbers and of lists in place of predicates (`NatInd` and `ListInd`,
from the well-foundedness of `<`), and with it what `Filter` keeps and that a
function defined step by step is what its steps say (`Stepwise`).  The
inductive invariant is *TableInv*.  *Buckets* is the table at rest: every chain
in the order of the hashes, one node for a key, every node in the bucket of its
hash.  *Search* is what a search that shares the lock knows of a chain others
are changing: the nodes up to the one it has come to are not of its key and
have no greater hash (*Walked*).  That survives an insert anywhere in the chain
(`Inserted`), so when the compare-and-swap finds the pointer unchanged, no node
of the key is behind it (`NextNode`, `LinkPlace`), which is the argument of the
comment at `hashtable.h:430`.  *Private* says that a record to be inserted is
its creator's alone.  Steps of a call that link no node all go through
`LocalStep` and `CountsStep`, what the exclusive lock protects through
`QuietStep`: with no reader no search has come anywhere.  The growth is the
step with the longest argument (`AllNodes`, `Ordered`, `RechainedTable`): it
loses no node and keeps the order.  For the refinement, `StepMaps` gives for
each step the step of `KeyedSet` it is, or that it is none.

`TreeHash_proofs.tla` proves for any number of threads and records, and paths
of any length:

* `TreeTheorem`: `Spec => []TreeIsSound`

if threads and records are finitely many, no path is empty, each list of
`Orders` has at least as many nodes as a path has segments, and the limit of the
last growth is at least the number of paths (`Assumptions`).  *Sound* says of
any tree of nodes that parents are the paths without the last segment and are
present, and that each list has a node once; *Adopted* that the nodes not in a
given set, and no others, are in their parents' lists.  In the table that set is
*LinkedPaths*, the nodes inserts have linked and not yet given to their parents.
That they are the inserts' own needs *Placed*, the position of each insert (its
parent is in the table, the record it inserts is where its position says, and
nowhere while it is on its way), and *Apart*: two inserts have different records
and never have linked the same node.  A deletion needs `readers = {}`, so
*LinkedPaths* is empty; `BelowFacts` shows that what it takes is closed under
children and that all parents but one are in it, by induction on the length of
the paths, and `DeleteSound` that what is left is sound: taking a node out of a
list that has it once (`Unlinked`) leaves the others.  A walk of `DeleteIf`
keeps that step by step (`WalkLeaves`).  `Below` and `Walk` are recursive
functions, of which first `Iterates` shows that they exist.  The references are
counted as in the other tables: `OneChanges` says what one thread's step does to
the number of holders.  An insert whose copy failed changes nothing of this, only
the lock's shares (`CopyFailsInv`).  The theorem is about the states up to a
fault, as the model stops there: a writer needs `readers = {}`, and a lock
that lets one in under an insert is a fault.

`Units_proofs.tla` proves of `Spec` of `Units`, for every choice of `Active`,
from `UnitsAssumption`:

* `ApplicationsAreSharedTheorem`, `RecycledByItsContextTheorem`,
  `CleansWhatItSetTheorem`, `EntriesStayApartTheorem`, `ClientSeesTheorem`,
  `BackendSeesTheorem`, `CacheIsSoundTheorem`: the properties of
  `ApplicationManager`, `ModuleLife` and `StdoutLog`, `TraceLog`,
  `ResponseHeaders`, `RequestHeaders` and `AllocCache`, proved here
* `ServerProcessRefsTheorem`, `CountsExactTheorem`, `ActsAtomicallyTheorem`,
  `TreeIsSoundTheorem`, `EnvironmentDeliveredTheorem`: those of the instances of
  `ProcessManager`, `HashTable`, `TreeHash` and `ProcessEnvironment`

A step of one component leaves the others alone (`Alone`), so a behaviour of
`Units` is a behaviour of each component.  The second group then cites the
theorems of the components' own proof modules, for an instance of them
(`ManagerProofs`, `TableProofs`, `TreeProofs`, `EnvProofs`); that it is the same
specification as the instance in `Units` is proved action by action
(`ManagerSame` and so on).

Of the parts of *AppInv*, *AppCreation* says who holds the lock and that the
record is missing while somebody inserts one, which is why the second look in
`GetApplication` is needed.  *AppInstalled* is the strengthening for the
configurations: one that is not yet installed belongs to the request that made
it, an installed one to one context, and one request at most is about to name
it, all except for contexts whose configuration was deleted under them.  The
reference counts follow the sets of holders, which an action changes by one
request.

*ModuleInv* says at which step of the static initialisation each pointer is set
(*Place*, *Pointers*), that those set depend on those before them, that each
was set once, and that whatever follows a failure finds all of them undone.
*StdoutInv* has the timer's callbacks and the handle: the handle is open
exactly from the set-up to the first of the two clean-ups (*HandleIsOpen*), and
the destructor passes its wait only when no callback is left (*TimerRuns*).
*CacheInv* is `CacheIsSound` entry by entry: *CachePlaced* says that a block is in
one place, *CacheCalls* which blocks the calls have; `DepthBound` is inductive
because a call decides to push after it has seen a depth below the
threshold, and at most all threads have decided so.  `UnitsAssumption` includes
`nThreshold + Cardinality(Threads) - 1 <= MaxDepth`: the depth the system reports
has 16 bits, and were there more threads than fit above the threshold, it could
wrap and the lists grow without bound.
*LogInv* adds to `EntriesStayApart` where every byte of the ring comes from
(*Bytes*) and that writers in one slot are whole laps apart (*Copiers*); the
sizes, products of the constants, are bounded by `SlotFits` and `ByteFits`.  It
assumes that the counter does not wrap, `MaxWrites <= 2 ^ Width` (section 5 has
what happens when it does).  *ResponseInv* says of the lines read so far what
the response has: of a name IIS keeps once the last value, of others all of
them in order, none of the module's own.  *RequestInv* has the three stages of
`GetHeaders`: what has been collected of reserved names, what a deletion and an
overwrite leave (`DeletedHeaders`, `SetHeader`), and that no stage disturbs what
the ones before it established.  `UnitsAssumption` has of a client's request
what IIS guarantees, that lines of a forwarding header come as one, and that
the header names of the module differ.

Only model-checked:

* All liveness, which the prover does not treat.  The runs with fairness check
  it.
* What depends on recursive functions only through their values is proved where
  the function's steps can be stated (`Stepwise`, `FilterAppend`); the induction
  theorems of the library take operators as parameters, which the provers cannot
  instantiate.

## 5. Notes on the code

Seen while modelling; the runs that expect a violation are behind the first four items.

* `processmanager.cxx:167`: `GetProcess` may succeed without a process (run
  `pm_outparam`).
* `processmanager.h:142`: a late callback stops whoever has the port now (run
  `pm_stop`).
* `websockethandler.cxx:333`: a partial failure frees the handler under a
  pending read (run `ws_orphan`); `filewatcher.cxx`: the entry deletes itself
  before `StopMonitor` is done (run `fw_early`).
* `aspnetcoreconfig.cxx:374`: a variable is taken for another that contains its
  name (run `env_override`).
* `serverprocess.cxx:1830`: the exit of a backend is ignored when anybody
  answers on its port.  A child that does has a wait of its own, so the entry
  leaves the list at the child's exit; but after the last exit was ignored,
  because another program has the port or the child's wait is missing, nothing
  looks again and the dead backend may stay in the list.  `CrashedIsDelisted`
  makes no promise then.
* `serverprocess.cxx:1806`, `serverprocess.cxx:52`: a `BOOL` is tested like an
  `HRESULT`, so the failure is not seen.
* `serverprocess.cxx:850`, `:1806`: a wait that is unregistered before it fired,
  or was never registered, has been given a reference that nobody drops; the
  object is never deleted.  `ServerProcessRefs` counts these apart.
* `serverprocess.cxx:276` to `468` and `aspnetcoreconfig.cxx:113`: the results of
  the appends to the environment are not looked at, so without memory for one
  of them a backend starts without its port, its path, a variable or the worker's
  environment.
* `forwardinghandler.cxx:2192-2288`: once a failed start has set the status to
  "done", a callback of the websocket is taken for one of the response's and
  drops a reference that nobody took for it.
* `serverprocess.cxx:196`: `cRetry > MAX_RETRY` cannot be, so after the last
  retry a process is started on a port in use.
* `processmanager.cxx:151`: a 64-bit increment of a 32-bit member; the model
  has the counter only.  `processmanager.cxx:167` also reads through a pointer
  an exit callback may have cleared or freed; the model lets a deleted object
  answer anything or fault, and `ReferencedIsLive` leaves that reader out.
* `forwardinghandler.cxx:356` says that the `Server` header is not passed along
  and `responseheaderhash.cxx` hides its entry; a second entry with the true
  name makes the code keep the backend's `Server`, as `ClientSees` states.
* `forwardinghandler.cxx:1560`, `:1588`, `:1684`: the end of the app_offline
  child request, of a websocket that ends at once, and of a backend that fails
  after its headers; the model has what the code does, and nothing in the
  repository says what should happen.
* `treehash.h:544`: when the copy of the path fails, `InsertRecord` releases a
  lock it has not taken.  Nothing in this module uses the tree table; the model
  follows the lock's shares up to the first release or writer for which they are
  wrong.
* `acache.cxx`: `m_nTotal` is counted without an interlock and only a hint.
* `tracelog.c:202`: when the counter of the ring wraps at 2^32, one lap of the
  10000 entries is shorter.
* `applicationmanager.h:113`: the result of `FILE_WATCHER::Create` is ignored;
  the completion port is never closed and the watcher's thread never stopped.
* `sttimer.h:110`: `CancelTimer` clears `_pTimer`, so the destructor never
  closes the thread-pool timer; every server process with a log leaks one.
* After `APPLICATION_MANAGER::Cleanup`, the destructor of a configuration calls
  `GetInstance` and so makes a new, uninitialised manager
  (`aspnetcoreconfig.cxx:13`).

## 6. Not modelled

* The bodies of strings, paths, encodings and numbers (`stringu`, `stringa`,
  `multisz`, `buffer.h`, `base64`, `path.cxx`): functions over characters
  without state that outlives a call; the models use tokens.
* The debugger's output, event-log messages, statistics and reference traces'
  contents.
* The IIS COM configuration interfaces (`ahutil.cpp`) and the other values
  `Populate` reads, which are constants of the models.
* Two applications of one worker process that interact: they share the Winsock
  flag (`processmanager.cxx:18`, `:95`), the error page and the table, and
  only the last two are modelled.
* Code nothing calls: `TerminateRequest`, `ASYNC_DISCONNECT_CONTEXT`,
  `DoReverseRewrite`, response buffering.

## 7. Plan

Every invariant and every action property of the runs that pass is proved, the
liveness properties are model-checked.  What could be added:

1. Two applications of one worker process, which share the Winsock flag
   (`processmanager.cxx:18`).
2. The buffers of `stringu` and `multisz` with their sizes, below the tokens.
