--------------------------- MODULE ProcessManager ---------------------------
(***************************************************************************)
(* PROCESS_MANAGER and the SERVER_PROCESS objects it owns: the table of    *)
(* backend processes of one application, the request threads that look a   *)
(* process up (and start one when none is there), the thread-pool wait     *)
(* callbacks that notice a process exit, and the recycler (configuration   *)
(* change, app_offline.htm, application destructor) that signals them all. *)
(*                                                                         *)
(* m_srwLock is held exclusively for the whole of a process start and of a *)
(* recycle, so both are split into steps; sections that hold it for an     *)
(* instant (the shared look-up, ShutdownProcess of a callback) are one     *)
(* step that needs the lock free.  GetProcess also reads the table with no *)
(* lock at all (processmanager.cxx:167); those reads are steps of their    *)
(* own and may happen while somebody holds the lock.                       *)
(***************************************************************************)
EXTENDS Integers, FiniteSets

CONSTANTS
    Threads,        \* request threads that call GetProcess
    Procs,          \* identities of SERVER_PROCESS objects (never reused)
    N,              \* m_dwProcessesPerApplication
    Ports,          \* ports GenerateRandomPort may return
    ForeignPorts,   \* ports some unrelated program listens on
    Children,       \* child processes a backend may spawn
    Main,           \* the backend process itself, next to its Children
    RapidFailLimit, \* rapidFailsPerMinute of the configuration
    NsiSupported,   \* ~g_fNsiApiNotSupported: the TCP table names the owner
    Null, Free, Recycler

ASSUME ProcessManagerAssumption ==
    /\ N \in Nat \ {0}
    /\ IsFiniteSet(Procs) /\ IsFiniteSet(Children)
    /\ RapidFailLimit \in Nat
    /\ NsiSupported \in BOOLEAN
    /\ ForeignPorts \subseteq Ports
    /\ Main \notin Children
    /\ Null \notin Procs \cup Ports \cup Children \cup {Main}
    /\ Free \notin Threads \cup {Recycler}
    /\ Recycler \notin Threads

VARIABLES
    list,       \* m_ppServerProcessList
    listReady,  \* m_fServerProcessListReady
    lock,       \* exclusive owner of m_srwLock, or Free
    route,      \* m_dwRouteToProcessIndex, modulo N
    rapidFails, \* m_cRapidFailCount
    pmRefs,     \* PROCESS_MANAGER::m_cRefs
    alloc,      \* is the SERVER_PROCESS object allocated?
    cRefs,      \* SERVER_PROCESS::m_cRefs
    fReady,     \* m_fReady
    fStopping,  \* m_fStopping
    port,       \* m_dwPort
    wait,       \* the registered waits: m_hProcessWaitHandle and the children's
    os,         \* the operating-system processes of the object's job
    listener,   \* which of them listens on the port
    stops,      \* auxiliary: number of StopProcess calls on the object
    pc,         \* where a request thread is in GetProcess
    idx,        \* dwProcessIndex
    seen,       \* pointer loaded by the unlocked read, line 167
    owner,      \* dwActualProcessId as StartProcess last saw it
    held,       \* *ppServerProcess handed to the request
    rpc,        \* "idle" or "signal": the recycler
    cursor,     \* its loop index
    appAlive    \* the APPLICATION still holds its process manager

mgrVars == <<list, listReady, route, rapidFails, pmRefs>>
objVars == <<alloc, cRefs, fReady, fStopping, port, wait, stops>>
osVars  == <<os, listener>>
thrVars == <<pc, idx, seen, owner, held>>
recVars == <<rpc, cursor, appAlive>>
vars    == <<mgrVars, lock, objVars, osVars, thrVars, recVars>>

Slots     == 0 .. N - 1
OsProcs   == Children \cup {Main}
InStart   == {"polling", "children", "verify"}
WaitPc    == {"none", "unopened", "lost", "armed", "cancelled", "fired",
              "down", "setting", "shutdown", "leave", "done"}
\* RegisterProcessWait takes a reference, which the callback's last line drops.
\* A wait that was unregistered before it fired, or never registered, has no
\* callback: its reference is leaked.
Counted   == WaitPc \ {"none", "unopened", "done"}
Leaked    == {"cancelled", "lost"}
CallsBack == Counted \ Leaked
ThreadPc  == {"idle", "initlist", "shared", "recheck", "recheckReady",
              "exclusive", "rapidfail", "create", "start", "have", "nullok",
              "failed", "fault"} \cup InStart

Init ==
    /\ list = [i \in Slots |-> Null] /\ listReady = FALSE
    /\ lock = Free /\ route = 0 /\ rapidFails = 0 /\ pmRefs = 1
    /\ alloc = [p \in Procs |-> "unused"]
    /\ cRefs = [p \in Procs |-> 0]
    /\ fReady = [p \in Procs |-> FALSE]
    /\ fStopping = [p \in Procs |-> FALSE]
    /\ port = [p \in Procs |-> Null]
    /\ wait = [p \in Procs |-> [w \in OsProcs |-> "none"]]
    /\ os = [p \in Procs |-> [w \in OsProcs |-> "none"]]
    /\ listener = [p \in Procs |-> Null]
    /\ stops = [p \in Procs |-> 0]
    /\ pc = [t \in Threads |-> "idle"]
    /\ idx = [t \in Threads |-> 0]
    /\ seen = [t \in Threads |-> Null]
    /\ owner = [t \in Threads |-> Null]
    /\ held = [t \in Threads |-> Null]
    /\ rpc = "idle" /\ cursor = 0 /\ appAlive = TRUE

-----------------------------------------------------------------------------
(* The operating system.                                                   *)

Listening(p) == listener[p] # Null /\ os[p][listener[p]] = "up"

\* Does anybody accept connections on this port?
PortUp(n) == n \in ForeignPorts \/ \E p \in Procs : port[p] = n /\ Listening(p)

\* The answers CheckIfServerIsUp may give: an error of its own means "no".
CheckIfServerIsUp(n) == {FALSE, PortUp(n)}

\* A backend spawns a child; the job object contains it.
SpawnChild(p, w) ==
    /\ w \in Children /\ os[p][Main] = "up" /\ os[p][w] = "none"
    /\ os' = [os EXCEPT ![p][w] = "up"]
    /\ UNCHANGED <<mgrVars, lock, objVars, listener, thrVars, recVars>>

\* One of the backend's processes binds the port it was given.
Listen(p, w) ==
    /\ os[p][w] = "up" /\ ~PortUp(port[p])
    /\ listener' = [listener EXCEPT ![p] = w]
    /\ UNCHANGED <<mgrVars, lock, objVars, os, thrVars, recVars>>

\* A process crashes, or exits on the console signal.
ProcessExits(p, w) ==
    /\ os[p][w] = "up"
    /\ os' = [os EXCEPT ![p][w] = "gone"]
    /\ UNCHANGED <<mgrVars, lock, objVars, listener, thrVars, recVars>>

Killed(f) == [w \in OsProcs |-> IF f[w] = "up" THEN "gone" ELSE f[w]]

-----------------------------------------------------------------------------
(* Reference counting.                                                     *)

Reference_Missing(p) == UNCHANGED cRefs

Reference(p) == cRefs' = [cRefs EXCEPT ![p] = @ + 1]

\* DereferenceServerProcess of every object of S once, the processes being as
\* f says.  The last reference runs the destructor: it closes the job
\* (KILL_ON_JOB_CLOSE) and drops the reference to the process manager.
Dying(S) == {p \in S : cRefs[p] = 1}

Dereference_KeepsManager(S, f) ==
    /\ os' = [p \in Procs |-> IF p \in Dying(S) THEN Killed(f[p]) ELSE f[p]]
    /\ cRefs' = [p \in Procs |-> IF p \in S THEN cRefs[p] - 1 ELSE cRefs[p]]
    /\ alloc' = [p \in Procs |-> IF p \in Dying(S) THEN "freed" ELSE alloc[p]]
    /\ UNCHANGED pmRefs

Dereference(S, f) ==
    /\ os' = [p \in Procs |-> IF p \in Dying(S) THEN Killed(f[p]) ELSE f[p]]
    /\ cRefs' = [p \in Procs |-> IF p \in S THEN cRefs[p] - 1 ELSE cRefs[p]]
    /\ alloc' = [p \in Procs |-> IF p \in Dying(S) THEN "freed" ELSE alloc[p]]
    /\ pmRefs' = pmRefs - Cardinality(Dying(S))

\* StopProcess of every object of S: not ready any more, one rapid fail
\* each; the process and the children it knew of are terminated.
StopProcess(S) ==
    /\ fReady' = [p \in Procs |-> fReady[p] /\ p \notin S]
    /\ stops' = [p \in Procs |-> IF p \in S THEN stops[p] + 1 ELSE stops[p]]
    /\ rapidFails' = rapidFails + Cardinality(S)

Terminated_ChildrenOnly(S) ==
    [p \in Procs |-> [w \in OsProcs |->
        IF p \in S /\ w # Main /\ os[p][w] = "up" THEN "gone" ELSE os[p][w]]]

\* What StopProcess leaves running: it holds handles of the process and of
\* the children found at start, not of those that came later.
Terminated(S) ==
    [p \in Procs |-> [w \in OsProcs |->
        IF /\ p \in S /\ os[p][w] = "up"
           /\ w = Main \/ wait[p][w] \notin {"none", "unopened"}
        THEN "gone" ELSE os[p][w]]]

-----------------------------------------------------------------------------
(* GetProcess                                                              *)

Goto(t, label) ==
    /\ pc' = [pc EXCEPT ![t] = label]
    /\ UNCHANGED <<idx, seen, owner>>

\* GetProcess returns and its locals go out of scope.
Returned == {"idle", "have", "nullok", "failed", "fault"}

Return(t, result) ==
    /\ pc' = [pc EXCEPT ![t] = result]
    /\ idx' = [idx EXCEPT ![t] = 0]
    /\ seen' = [seen EXCEPT ![t] = Null]
    /\ owner' = [owner EXCEPT ![t] = Null]

Continue(t, label) == IF label \in Returned THEN Return(t, label) ELSE Goto(t, label)

EnterGetProcess(t) ==
    /\ pc[t] = "idle" /\ appAlive
    /\ Goto(t, IF listReady THEN "shared" ELSE "initlist")
    /\ UNCHANGED <<mgrVars, lock, objVars, osVars, held, recVars>>

InitList(t) ==
    /\ pc[t] = "initlist" /\ lock = Free
    /\ listReady' = TRUE
    /\ Goto(t, "shared")
    /\ UNCHANGED <<list, route, rapidFails, pmRefs, lock, objVars, osVars, held, recVars>>

\* Round robin under the shared lock.
SharedLookup(t) ==
    /\ pc[t] = "shared" /\ lock = Free
    /\ LET i == (route + 1) % N
           p == list[i]
       IN /\ route' = i
          /\ IF p # Null /\ fReady[p]
             THEN /\ Reference(p)
                  /\ held' = [held EXCEPT ![t] = p]
                  /\ Return(t, "have")
             ELSE /\ pc' = [pc EXCEPT ![t] = "recheck"]
                  /\ idx' = [idx EXCEPT ![t] = i]
                  /\ UNCHANGED <<cRefs, held, seen, owner>>
    /\ UNCHANGED <<list, listReady, rapidFails, pmRefs, lock, alloc, fReady,
                   fStopping, port, wait, stops, osVars, recVars>>

\* Line 167 without the lock: first the comparison with NULL ...
RecheckSlot(t) ==
    /\ pc[t] = "recheck"
    /\ seen' = [seen EXCEPT ![t] = list[idx[t]]]
    /\ pc' = [pc EXCEPT ![t] = IF list[idx[t]] = Null THEN "exclusive"
                               ELSE "recheckReady"]
    /\ UNCHANGED <<mgrVars, lock, objVars, osVars, idx, owner, held, recVars>>

\* ... then IsReady() through the pointer, which the compiler may reload or
\* keep in a register.  A ready process falls through to Finished with S_OK
\* and nothing in *ppServerProcess.  A process deleted in between may answer
\* anything, or fault.
IsReady(p) ==
    IF p = Null THEN {"fault"}
    ELSE IF alloc[p] # "live" THEN {"fault", "nullok", "exclusive"}
    ELSE {IF fReady[p] THEN "nullok" ELSE "exclusive"}

RecheckReady(t) ==
    /\ pc[t] = "recheckReady"
    /\ \E p \in {seen[t], list[idx[t]]} : \E l \in IsReady(p) : Continue(t, l)
    /\ UNCHANGED <<mgrVars, lock, objVars, osVars, held, recVars>>

\* The entries ShutdownProcessNoLock(p) matches: it compares ports.
SamePort(p) == {q \in Procs : (\E i \in Slots : list[i] = q) /\ port[q] = port[p]}

Delist(S) == list' = [i \in Slots |-> IF list[i] \in S THEN Null ELSE list[i]]

ShutdownProcessNoLock_KeepsEntry(S) ==
    StopProcess(S) /\ Dereference(S, Terminated(S)) /\ UNCHANGED list

ShutdownProcessNoLock(S) ==
    StopProcess(S) /\ Dereference(S, Terminated(S)) /\ Delist(S)

\* The exclusive lock, and the second look at the slot.
LockExclusive(t) ==
    /\ pc[t] = "exclusive" /\ lock = Free
    /\ LET p == list[idx[t]]
       IN IF p # Null /\ fReady[p]
          THEN /\ Reference(p)
               /\ held' = [held EXCEPT ![t] = p]
               /\ Return(t, "have")
               /\ UNCHANGED <<mgrVars, lock, alloc, fReady, stops, os>>
          ELSE /\ ShutdownProcessNoLock(IF p = Null THEN {} ELSE SamePort(p))
               /\ lock' = t
               /\ Goto(t, "rapidfail")
               /\ UNCHANGED <<listReady, route, held>>
    /\ UNCHANGED <<fStopping, port, wait, listener, recVars>>

RapidFailCheck_OffByOne(t, minuteElapsed) ==
    /\ pc[t] = "rapidfail"
    /\ rapidFails' = IF minuteElapsed THEN 0 ELSE rapidFails
    /\ LET exceeded == rapidFails' > RapidFailLimit + 1
       IN /\ lock' = IF exceeded THEN Free ELSE lock
          /\ Continue(t, IF exceeded THEN "failed" ELSE "create")
    /\ UNCHANGED <<list, listReady, route, pmRefs, objVars, osVars, held, recVars>>

\* RapidFailsPerMinuteExceeded: the window restarts when a minute went by.
RapidFailCheck(t, minuteElapsed) ==
    /\ pc[t] = "rapidfail"
    /\ rapidFails' = IF minuteElapsed THEN 0 ELSE rapidFails
    /\ LET exceeded == rapidFails' > RapidFailLimit
       IN /\ lock' = IF exceeded THEN Free ELSE lock
          /\ Continue(t, IF exceeded THEN "failed" ELSE "create")
    /\ UNCHANGED <<list, listReady, route, pmRefs, objVars, osVars, held, recVars>>

AllocationFails_KeepsLock(t) ==
    /\ pc[t] = "create" /\ \A p \in Procs : alloc[p] # "unused"
    /\ Return(t, "failed")
    /\ UNCHANGED <<mgrVars, lock, objVars, osVars, held, recVars>>

\* new SERVER_PROCESS fails (the bound on Procs stands for memory).
AllocationFails(t) ==
    /\ pc[t] = "create" /\ \A p \in Procs : alloc[p] # "unused"
    /\ lock' = Free
    /\ Return(t, "failed")
    /\ UNCHANGED <<mgrVars, objVars, osVars, held, recVars>>

\* new SERVER_PROCESS and Initialize, which references the process manager.
CreateServerProcess(t, p) ==
    /\ pc[t] = "create" /\ alloc[p] = "unused"
    /\ alloc' = [alloc EXCEPT ![p] = "live"]
    /\ cRefs' = [cRefs EXCEPT ![p] = 1]
    /\ list' = [list EXCEPT ![idx[t]] = p]
    /\ pmRefs' = pmRefs + 1
    /\ Goto(t, "start")
    /\ UNCHANGED <<listReady, route, rapidFails, lock, fReady, fStopping, port,
                   wait, stops, osVars, held, recVars>>

\* Initialize failed: no StopProcess, GetProcess releases the slot.
InitializeFails(t) ==
    /\ pc[t] = "start"
    /\ Dereference({list[idx[t]]}, os) /\ Delist({list[idx[t]]})
    /\ lock' = Free
    /\ Return(t, "failed")
    /\ UNCHANGED <<listReady, route, rapidFails, fReady, fStopping, port, wait,
                   stops, listener, held, recVars>>

\* StartProcess: a random port (the retry limit never rejects one in use),
\* CreateProcess, AssignProcessToJobObject, ResumeThread.
StartProcess(t, n) ==
    /\ pc[t] = "start"
    /\ LET p == list[idx[t]]
       IN /\ port' = [port EXCEPT ![p] = n]
          /\ os' = [os EXCEPT ![p][Main] = "up"]
    /\ Goto(t, "polling")
    /\ UNCHANGED <<mgrVars, lock, alloc, cRefs, fReady, fStopping, wait, stops,
                   listener, held, recVars>>

\* UnregisterWait stops a wait that has not fired; nobody drops its reference.
Unregister(f) == [w \in OsProcs |-> IF f[w] = "armed" THEN "cancelled" ELSE f[w]]

StartFails_KeepsEntry(t) ==
    LET p == list[idx[t]]
    IN /\ wait' = [wait EXCEPT ![p] = Unregister(@)]
       /\ StopProcess({p})
       /\ Dereference({p}, [os EXCEPT ![p] = Killed(@)])
       /\ lock' = Free
       /\ Return(t, "failed")
       /\ UNCHANGED <<list, listReady, route, fStopping, port, listener, held, recVars>>

\* StartProcess' clean-up on failure, then GetProcess' own: unregister the
\* waits, StopProcess, StopAllProcessesInJobObject, release the slot.
StartFails(t) ==
    LET p == list[idx[t]]
    IN /\ wait' = [wait EXCEPT ![p] = Unregister(@)]
       /\ StopProcess({p}) /\ Delist({p})
       /\ Dereference({p}, [os EXCEPT ![p] = Killed(@)])
       /\ lock' = Free
       /\ Return(t, "failed")
       /\ UNCHANGED <<listReady, route, fStopping, port, listener, held, recVars>>

\* CreateProcess, AssignProcessToJobObject, ResumeThread or an earlier call
\* failed, or the process was gone at one of the polls.
LaunchFails(t) ==
    /\ \/ pc[t] = "start"
       \/ pc[t] = "polling" /\ os[list[idx[t]]][Main] = "gone"
    /\ StartFails(t)

\* RegisterProcessWait tests the BOOL it gets for "< 0", so a registration
\* that failed looks like one that worked; the reference is taken either way.
Registration == {"armed", "lost"}

\* The poll loop ends: somebody listens on the port, or the time is up.
\* RegisterProcessWait then arms the wait on the process itself.
PollEnds(t, r) ==
    /\ pc[t] = "polling"
    /\ LET p == list[idx[t]]
       IN /\ \E up \in CheckIfServerIsUp(port[p]) :
                owner' = [owner EXCEPT ![t] =
                            IF ~up THEN "timeout"
                            ELSE IF Listening(p) THEN listener[p] ELSE "other"]
          /\ Reference(p)
          /\ wait' = [wait EXCEPT ![p][Main] = r]
    /\ pc' = [pc EXCEPT ![t] = "children"]
    /\ UNCHANGED <<mgrVars, lock, alloc, fReady, fStopping, port, stops, osVars,
                   idx, seen, held, recVars>>

\* GetChildProcessHandles lists the job, which must not be empty; a child it
\* can open gets a wait of its own.
RegisterChildren(t, result) ==
    /\ pc[t] = "children"
    /\ LET p == list[idx[t]]
           S == {w \in Children : os[p][w] = "up"}
       IN /\ \E w \in OsProcs : os[p][w] = "up"
          /\ wait' = [wait EXCEPT ![p] =
                        [w \in OsProcs |-> IF w \in S THEN result[w] ELSE @[w]]]
          /\ cRefs' = [cRefs EXCEPT ![p] =
                         @ + Cardinality({w \in S : result[w] \in Registration})]
    /\ Goto(t, "verify")
    /\ UNCHANGED <<mgrVars, lock, alloc, fReady, fStopping, port, stops, osVars,
                   held, recVars>>

\* GetChildProcessHandles failed.
ChildrenFail(t) == pc[t] = "children" /\ StartFails(t)

\* The listener must be the process or a child that was listed, and with
\* children that have a wait the port is probed a last time.
Verified(t) ==
    LET p == list[idx[t]]
    IN /\ owner[t] # "timeout"
       /\ NsiSupported => \E w \in OsProcs : owner[t] = w /\ wait[p][w] # "none"
       /\ (\E w \in Children : wait[p][w] \notin {"none", "unopened"})
              => PortUp(port[p])

\* m_fReady = TRUE, and GetProcess returns the process.
MarkReady(t) ==
    /\ pc[t] = "verify" /\ Verified(t)
    /\ LET p == list[idx[t]]
       IN /\ fReady' = [fReady EXCEPT ![p] = TRUE]
          /\ Reference(p)
          /\ held' = [held EXCEPT ![t] = p]
    /\ lock' = Free
    /\ Return(t, "have")
    /\ UNCHANGED <<mgrVars, alloc, fStopping, port, wait, stops, osVars, recVars>>

\* Not verified, or the FORWARDER_CONNECTION could not be made.
VerifyFails(t) == pc[t] = "verify" /\ StartFails(t)

\* The request finishes with its process (Finished: in the handler).
ReleaseProcess(t) ==
    /\ pc[t] = "have"
    /\ Dereference({held[t]}, os)
    /\ held' = [held EXCEPT ![t] = Null]
    /\ Return(t, "idle")
    /\ UNCHANGED <<list, listReady, route, rapidFails, lock, fReady, fStopping,
                   port, wait, stops, listener, recVars>>

ReturnWithout(t) ==
    /\ pc[t] \in {"nullok", "failed"}
    /\ Return(t, "idle")
    /\ UNCHANGED <<mgrVars, lock, objVars, osVars, held, recVars>>

-----------------------------------------------------------------------------
(* ProcessHandleCallback: HandleProcessExit in the wait thread             *)

Callback(p, w, from, to) ==
    /\ wait[p][w] = from
    /\ wait' = [wait EXCEPT ![p][w] = to]

WaitFires(p, w) ==
    /\ os[p][w] = "gone"
    /\ Callback(p, w, "armed", "fired")
    /\ UNCHANGED <<mgrVars, lock, alloc, cRefs, fReady, fStopping, port, stops,
                   osVars, thrVars, recVars>>

CheckServer(p, w) ==
    /\ \E up \in CheckIfServerIsUp(port[p]) :
          Callback(p, w, "fired", IF up THEN "leave" ELSE "down")
    /\ UNCHANGED <<mgrVars, lock, alloc, cRefs, fReady, fStopping, port, stops,
                   osVars, thrVars, recVars>>

TestStopping_Inverted(p, w) ==
    /\ Callback(p, w, "down", IF fStopping[p] THEN "setting" ELSE "leave")
    /\ UNCHANGED <<mgrVars, lock, alloc, cRefs, fReady, fStopping, port, stops,
                   osVars, thrVars, recVars>>

TestStopping(p, w) ==
    /\ Callback(p, w, "down", IF fStopping[p] THEN "leave" ELSE "setting")
    /\ UNCHANGED <<mgrVars, lock, alloc, cRefs, fReady, fStopping, port, stops,
                   osVars, thrVars, recVars>>

SetStopping(p, w) ==
    /\ Callback(p, w, "setting", "shutdown")
    /\ fStopping' = [fStopping EXCEPT ![p] = TRUE]
    /\ UNCHANGED <<mgrVars, lock, alloc, cRefs, fReady, port, stops, osVars,
                   thrVars, recVars>>

ShutdownProcess(p, w) ==
    /\ lock = Free
    /\ Callback(p, w, "shutdown", "leave")
    /\ ShutdownProcessNoLock(SamePort(p))
    /\ UNCHANGED <<listReady, route, lock, fStopping, port, listener, thrVars, recVars>>

LeaveCallback_KeepsRef(p, w) ==
    /\ Callback(p, w, "leave", "done")
    /\ UNCHANGED <<mgrVars, lock, alloc, cRefs, fReady, fStopping, port, stops,
                   osVars, thrVars, recVars>>

LeaveCallback(p, w) ==
    /\ Callback(p, w, "leave", "done")
    /\ Dereference({p}, os)
    /\ UNCHANGED <<list, listReady, route, rapidFails, lock, fReady, fStopping,
                   port, stops, listener, thrVars, recVars>>

-----------------------------------------------------------------------------
(* ShutdownAllProcesses and SendShutdownSignal: SendSignal to every entry  *)

StartSignal(destroy) ==
    /\ rpc = "idle" /\ lock = Free /\ appAlive
    /\ destroy => \A t \in Threads : pc[t] = "idle"
    /\ appAlive' = ~destroy
    /\ lock' = Recycler
    /\ rpc' = "signal"
    /\ UNCHANGED <<mgrVars, objVars, osVars, thrVars, cursor>>

SkipSlot ==
    /\ rpc = "signal" /\ cursor < N /\ list[cursor] = Null
    /\ cursor' = cursor + 1
    /\ UNCHANGED <<mgrVars, lock, objVars, osVars, thrVars, rpc, appAlive>>

\* SendSignal returned; the caller drops the entry.
DropSignalled(p, f) ==
    /\ Dereference({p}, f) /\ Delist({p})
    /\ cursor' = cursor + 1
    /\ UNCHANGED <<listReady, route, rapidFails, lock, fReady, fStopping, port,
                   stops, listener, thrVars, rpc, appAlive>>

\* The process exited within the shutdown time limit.
SignalObeyed ==
    /\ rpc = "signal" /\ cursor < N /\ list[cursor] # Null
    /\ os[list[cursor]][Main] = "gone"
    /\ DropSignalled(list[cursor], os)
    /\ UNCHANGED wait

\* No signal could be sent, or the time ran out: the wait on the process is
\* unregistered and the process terminated.
SignalTimesOut ==
    /\ rpc = "signal" /\ cursor < N /\ list[cursor] # Null
    /\ LET p == list[cursor]
       IN /\ wait' = [wait EXCEPT ![p][Main] = Unregister(wait[p])[Main]]
          /\ DropSignalled(p, [os EXCEPT ![p][Main] = "gone"])

EndSignal ==
    /\ rpc = "signal" /\ cursor = N
    /\ lock' = Free
    /\ rpc' = "idle" /\ cursor' = 0
    /\ pmRefs' = IF appAlive THEN pmRefs ELSE pmRefs - 1
    /\ UNCHANGED <<list, listReady, route, rapidFails, objVars, osVars, thrVars,
                   appAlive>>

-----------------------------------------------------------------------------
LockStep(t) == InitList(t) \/ SharedLookup(t) \/ LockExclusive(t)

LocalStep(t) ==
    \/ RecheckSlot(t) \/ RecheckReady(t)
    \/ \E b \in BOOLEAN : RapidFailCheck(t, b)
    \/ AllocationFails(t) \/ \E p \in Procs : CreateServerProcess(t, p)
    \/ InitializeFails(t) \/ \E n \in Ports : StartProcess(t, n)
    \/ LaunchFails(t) \/ (\E r \in Registration : PollEnds(t, r))
    \/ (\E f \in [Children -> Registration \cup {"unopened"}] : RegisterChildren(t, f))
    \/ ChildrenFail(t)
    \/ MarkReady(t) \/ VerifyFails(t)
    \/ ReleaseProcess(t) \/ ReturnWithout(t)

CallbackStep(p, w) ==
    \/ WaitFires(p, w) \/ CheckServer(p, w) \/ TestStopping(p, w)
    \/ SetStopping(p, w) \/ LeaveCallback(p, w)

RecyclerStep == SkipSlot \/ SignalObeyed \/ SignalTimesOut \/ EndSignal

Next ==
    \/ \E t \in Threads : EnterGetProcess(t) \/ LockStep(t) \/ LocalStep(t)
    \/ \E p \in Procs, w \in OsProcs :
          \/ CallbackStep(p, w) \/ ShutdownProcess(p, w)
          \/ SpawnChild(p, w) \/ Listen(p, w) \/ ProcessExits(p, w)
    \/ \E destroy \in BOOLEAN : StartSignal(destroy)
    \/ RecyclerStep

Spec == Init /\ [][Next]_vars

\* Threads keep running, and a waiter that finds the SRW lock free again and
\* again gets it in the end.  New requests, recycles and whatever a backend
\* does are not forced.
Fairness ==
    /\ \A t \in Threads : WF_vars(LocalStep(t)) /\ SF_vars(LockStep(t))
    /\ \A p \in Procs, w \in OsProcs :
          WF_vars(CallbackStep(p, w)) /\ SF_vars(ShutdownProcess(p, w))
    /\ WF_vars(RecyclerStep)

FairSpec == Spec /\ Fairness

-----------------------------------------------------------------------------
(* Properties                                                              *)

ManagerType ==
    /\ list \in [Slots -> Procs \cup {Null}] /\ listReady \in BOOLEAN
    /\ route \in Slots /\ rapidFails \in Nat /\ pmRefs \in Int

ObjectType ==
    /\ alloc \in [Procs -> {"unused", "live", "freed"}]
    /\ cRefs \in [Procs -> Int]
    /\ fReady \in [Procs -> BOOLEAN] /\ fStopping \in [Procs -> BOOLEAN]
    /\ port \in [Procs -> Ports \cup {Null}]
    /\ wait \in [Procs -> [OsProcs -> WaitPc]]
    /\ stops \in [Procs -> Nat]

JobStates == [Procs -> [OsProcs -> {"none", "up", "gone"}]]

OsType == os \in JobStates /\ listener \in [Procs -> OsProcs \cup {Null}]

ThreadType ==
    /\ pc \in [Threads -> ThreadPc] /\ idx \in [Threads -> Slots]
    /\ seen \in [Threads -> Procs \cup {Null}]
    /\ owner \in [Threads -> OsProcs \cup {Null, "timeout", "other"}]
    /\ held \in [Threads -> Procs \cup {Null}]

RecyclerType == rpc \in {"idle", "signal"} /\ cursor \in 0 .. N /\ appAlive \in BOOLEAN

\* Every variable has its type; the list and the look-ups of GetProcess stay
\* within m_dwProcessesPerApplication.
TypeOK ==
    /\ ManagerType /\ ObjectType /\ OsType /\ ThreadType /\ RecyclerType
    /\ lock \in Threads \cup {Recycler, Free}

Listed(p) == \E i \in Slots : list[i] = p

\* Whenever m_srwLock is free, every entry of the process list reports ready:
\* GetProcess never has to clean up an entry that
\* is not ready (processmanager.cxx:174-182), and the round robin never hands
\* out a process whose start or stop is half done.
ListedIsReady == lock = Free => \A p \in Procs : Listed(p) => fReady[p]

\* m_cRefs of a live SERVER_PROCESS is the number of its users, one for each
\* list entry, one for each request that got it from GetProcess and one for
\* each wait that calls back, and of the references leaked to waits that never
\* will (serverprocess.cxx:850, 1806, against the comment at 1795).  Without
\* either it is deleted.  A wait is unregistered for a backend only that has
\* left the list.
ServerProcessRefs ==
    \A p \in Procs :
        /\ alloc[p] = "live" =>
              /\ cRefs[p] > 0
              /\ cRefs[p] = Cardinality({i \in Slots : list[i] = p})
                            + Cardinality({t \in Threads : held[t] = p})
                            + Cardinality({w \in OsProcs : wait[p][w] \in CallsBack})
                            + Cardinality({w \in OsProcs : wait[p][w] \in Leaked})
        /\ (\E w \in OsProcs : wait[p][w] = "cancelled") => ~Listed(p)

\* Whoever has a SERVER_PROCESS by a reference or through the list under
\* m_srwLock finds it allocated: a request that holds it, a callback, the
\* starting thread, the recycler.  The reader of processmanager.cxx:167 has
\* neither, and may meet a deleted one (RecheckReady).
ReferencedIsLive ==
    /\ \A p \in Procs :
          (\/ Listed(p) \/ \E t \in Threads : held[t] = p
           \/ \E w \in OsProcs : wait[p][w] \in Counted) => alloc[p] = "live"
    /\ \A t \in Threads : pc[t] \in InStart \cup {"start"} => list[idx[t]] # Null

\* The PROCESS_MANAGER is referenced by the application and by every live
\* SERVER_PROCESS: a late exit callback, which locks m_srwLock through
\* m_pProcessManager, still finds it after the application is gone.
ManagerRefs ==
    pmRefs = Cardinality({p \in Procs : alloc[p] = "live"})
             + (IF appAlive \/ rpc = "signal" THEN 1 ELSE 0)

\* A backend that runs is always in the process list, so once the application
\* destructor has gone through the list none is left behind.
RunningIsListed == \A p \in Procs : os[p][Main] = "up" => Listed(p)

\* However many waits fire for one backend, it is stopped once, and counts
\* once towards rapidFailsPerMinute.
StoppedOnce == \A p \in Procs : stops[p] <= 1

\* rapidFailsPerMinute bounds the failures of a window: backends are started
\* while the count is within the limit and each one counts once, so at most
\* the N backends that were then in the list can still push it beyond.
RapidFailBound ==
    rapidFails + Cardinality({i \in Slots : list[i] # Null}) <= RapidFailLimit + N

\* A look-up comes back with an answer, however the lock is contended; only
\* the unlocked read of line 167 may crash it.
GetProcessReturns ==
    \A t \in Threads :
        pc[t] \notin {"idle", "have", "nullok", "failed"}
            ~> pc[t] \in {"have", "nullok", "failed", "fault"}

\* An entry whose backend and children are all gone leaves the list while one
\* of their exits has yet to be looked at, unless somebody answers on the port
\* then.  So an exit that was ignored because a child still answered does no
\* harm while the child has a wait of its own.  No promise is made once the
\* last exit was ignored (serverprocess.cxx:1830) or nobody was told of it
\* (1806): the entry may stay.
CrashedIsDelisted ==
    \A p \in Procs, i \in Slots :
        /\ list[i] = p /\ fReady[p] /\ \A w \in OsProcs : os[p][w] # "up"
        /\ \E w \in OsProcs : wait[p][w] \in {"armed", "fired"}
        ~> list[i] # p \/ PortUp(port[p])

-----------------------------------------------------------------------------
(* What comments and annotations of the code say                           *)

\* "_Out_ SERVER_PROCESS **ppServerProcess" (processmanager.cxx:108): a
\* GetProcess that succeeds has set its out parameter.
SuccessReturnsProcess == \A t \in Threads : pc[t] # "nullok"

\* "StopProcess is only called if process crashes OR if the process creation
\* failed" (serverprocess.cxx:1287): a ready backend that is up and answers
\* on its port is not stopped.
StopsOnlyTheFailed ==
    [][\A p \in Procs : fReady[p] /\ stops'[p] > stops[p]
            => os[p][Main] # "up" \/ ~Listening(p)]_vars

=============================================================================
