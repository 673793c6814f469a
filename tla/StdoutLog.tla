------------------------------ MODULE StdoutLog ------------------------------
(***************************************************************************)
(* The stdout log of one SERVER_PROCESS (serverprocess.cxx) and the        *)
(* STTIMER that opens and closes the log file every three seconds          *)
(* (sttimer.h).  The start that made them may fail and undo them; whoever  *)
(* drops the last reference of the process undoes them in the destructor.  *)
(* The callbacks of the timer run meanwhile, on threads of the pool, with  *)
(* a pointer to the process and no reference of it.                        *)
(***************************************************************************)
EXTENDS Naturals

CONSTANTS
    Callbacks,  \* the threads of the pool
    MaxQueued   \* bounds the callbacks that are due and wait for a thread

VARIABLES
    pc,                     \* where the start, or the destructor, is
    m_fStdoutLogEnabled, nulHandle,  \* the configuration; the manager has its NUL handle
    m_hStdoutHandle,        \* set or NULL
    handles,                \* how many handles m_hStdoutHandle has given the process
    hStdOutput,             \* the backend's: "log", "NUL" or the worker's "own"
    timer,                  \* _pTimer: "NULL", "set", or "forgotten" while set no more
    fInCanel, ticking,      \* the timer goes on queueing callbacks
    queued,                 \* callbacks that are due
    callback,               \* callback[c]: "idle", "open" (it reads the path), "close"
    process                 \* the SERVER_PROCESS: "live", "deleted"

logVars   == <<m_hStdoutHandle, handles, hStdOutput>>
timerVars == <<timer, fInCanel, ticking>>
poolVars  == <<queued, callback>>
vars == <<pc, m_fStdoutLogEnabled, nulHandle, logVars, timerVars, poolVars, process>>

Init ==
    /\ pc = "setup" /\ m_fStdoutLogEnabled \in BOOLEAN /\ nulHandle \in BOOLEAN
    /\ m_hStdoutHandle = FALSE /\ handles = 0 /\ hStdOutput = "own"
    /\ timer = "NULL" /\ fInCanel = FALSE /\ ticking = FALSE
    /\ queued = 0 /\ callback = [c \in Callbacks |-> "idle"]
    /\ process = "live"

-----------------------------------------------------------------------------
(* STTIMER.                                                                *)

\* CreateThreadpoolTimer, and SetTimer; nobody looks at its failure.
InitializeTimer ==
    \/ timer' = "set" /\ ticking' = TRUE
    \/ UNCHANGED <<timer, ticking>>

\* A period is over.
TimerIsDue ==
    /\ ticking /\ queued < MaxQueued /\ queued' = queued + 1
    /\ UNCHANGED <<pc, m_fStdoutLogEnabled, nulHandle, logVars, timerVars, callback, process>>

\* CancelTimer up to the wait: SetTimer(0) queues no more callbacks.
CancelTimer(from, waits, after) ==
    /\ pc = from
    /\ IF m_fStdoutLogEnabled /\ ~fInCanel
       THEN fInCanel' = TRUE /\ ticking' = FALSE /\ pc' = waits
       ELSE pc' = after /\ UNCHANGED <<fInCanel, ticking>>
    /\ UNCHANGED <<m_fStdoutLogEnabled, nulHandle, logVars, timer, poolVars, process>>

\* Mutant: the callbacks that run are not waited for.
WaitForThreadpoolTimerCallbacks_NoWait(from, after) ==
    /\ pc = from /\ pc' = after
    /\ queued' = (IF timer = "set" THEN 0 ELSE queued)
    /\ timer' = (IF timer = "set" THEN "forgotten" ELSE timer) /\ fInCanel' = FALSE
    /\ UNCHANGED <<m_fStdoutLogEnabled, nulHandle, logVars, ticking, callback, process>>

\* The rest: callbacks that are due are dropped, those that run are waited for.
\* The pointer is cleared without closing the timer.
WaitForThreadpoolTimerCallbacks(from, after) ==
    /\ pc = from /\ pc' = after
    /\ IF timer = "set"
       THEN (\A c \in Callbacks : callback[c] = "idle") /\ queued' = 0 /\ timer' = "forgotten"
       ELSE UNCHANGED <<queued, timer>>
    /\ fInCanel' = FALSE
    /\ UNCHANGED <<m_fStdoutLogEnabled, nulHandle, logVars, ticking, callback, process>>

-----------------------------------------------------------------------------
(* SERVER_PROCESS.                                                         *)

\* SetupStdHandles; its result is ignored.  Without a log, or when the file
\* cannot be created, the backend writes to NUL if there is one; when the name
\* of the log cannot be made, to what the worker process has.
SetupStdHandles ==
    /\ pc = "setup" /\ pc' = "start"
    /\ \/ /\ m_fStdoutLogEnabled
          /\ m_hStdoutHandle' = TRUE /\ handles' = handles + 1 /\ hStdOutput' = "log"
          /\ InitializeTimer
       \/ /\ hStdOutput' = IF nulHandle THEN "NUL" ELSE "own"
          /\ UNCHANGED <<m_hStdoutHandle, handles, timer, ticking>>
       \/ /\ m_fStdoutLogEnabled /\ hStdOutput' = "own"
          /\ UNCHANGED <<m_hStdoutHandle, handles, timer, ticking>>
    /\ UNCHANGED <<m_fStdoutLogEnabled, nulHandle, fInCanel, poolVars, process>>

\* The rest of StartProcess, which takes seconds, works or not.
StartEnds ==
    /\ pc = "start" /\ pc' \in {"ready", "failed"}
    /\ UNCHANGED <<m_fStdoutLogEnabled, nulHandle, logVars, timerVars, poolVars, process>>

\* Whoever drops the last reference runs the destructor; without a start, when
\* the initialisation has failed.
LastDereference ==
    /\ pc \in {"setup", "ready", "stopped"} /\ pc' = "destructor"
    /\ UNCHANGED <<m_fStdoutLogEnabled, nulHandle, logVars, timerVars, poolVars, process>>

\* Mutant: the handle is closed and not cleared.
CloseStdoutHandle_Keeps(from, after) ==
    /\ pc = from /\ pc' = after
    /\ handles' = handles - (IF m_hStdoutHandle THEN 1 ELSE 0)
    /\ UNCHANGED <<m_fStdoutLogEnabled, nulHandle, m_hStdoutHandle, hStdOutput, timerVars,
                   poolVars, process>>

\* The clean-up of a start and the destructor close the handle, if it is set.
CloseStdoutHandle(from, after) ==
    /\ pc = from /\ pc' = after
    /\ handles' = handles - (IF m_hStdoutHandle THEN 1 ELSE 0) /\ m_hStdoutHandle' = FALSE
    /\ UNCHANGED <<m_fStdoutLogEnabled, nulHandle, hStdOutput, timerVars, poolVars, process>>

StartFails ==
    \/ CloseStdoutHandle("failed", "failedCancel")
    \/ CancelTimer("failedCancel", "failedWait", "stopped")
    \/ WaitForThreadpoolTimerCallbacks("failedWait", "stopped")

Delete ==
    /\ pc = "delete" /\ pc' = "deleted" /\ process' = "deleted"
    /\ UNCHANGED <<m_fStdoutLogEnabled, nulHandle, logVars, timerVars, poolVars>>

Destructor ==
    \/ CloseStdoutHandle("destructor", "cancel")
    \/ CancelTimer("cancel", "wait", "delete")
    \/ WaitForThreadpoolTimerCallbacks("wait", "delete")
    \/ Delete

-----------------------------------------------------------------------------
(* TimerCallback.                                                          *)

CallbackBegins(c) ==
    /\ queued > 0 /\ queued' = queued - 1
    /\ callback[c] = "idle" /\ callback' = [callback EXCEPT ![c] = "open"]
    /\ UNCHANGED <<pc, m_fStdoutLogEnabled, nulHandle, logVars, timerVars, process>>

\* The file is opened by the path in the process, and closed again; it may not
\* open, for one while another callback has it open.
CallbackOpens(c) ==
    /\ callback[c] = "open" /\ callback' = [callback EXCEPT ![c] = "close"]
    /\ UNCHANGED <<pc, m_fStdoutLogEnabled, nulHandle, logVars, timerVars, queued, process>>

CallbackCloses(c) ==
    /\ callback[c] = "close" /\ callback' = [callback EXCEPT ![c] = "idle"]
    /\ UNCHANGED <<pc, m_fStdoutLogEnabled, nulHandle, logVars, timerVars, queued, process>>

TimerCallback(c) == CallbackBegins(c) \/ CallbackOpens(c) \/ CallbackCloses(c)

Next ==
    \/ SetupStdHandles \/ StartEnds \/ StartFails \/ LastDereference \/ Destructor
    \/ TimerIsDue \/ \E c \in Callbacks : TimerCallback(c)

Spec == Init /\ [][Next]_vars

-----------------------------------------------------------------------------
\* Whether the start works, fails, or fails and the process is deleted later: no
\* callback runs on a process that is gone, nor is one still due; the log's
\* handle is open while the backend is started with it, closed once, in one of
\* the two places that close it, and not left open (serverprocess.cxx:831-845,
\* 1732-1744).  The timer itself is never closed: CancelTimer forgets it.
CleansWhatItSet ==
    /\ \A c \in Callbacks : callback[c] # "idle" => process = "live"
    /\ handles = IF m_hStdoutHandle THEN 1 ELSE 0
    /\ pc \in {"start", "ready"} /\ hStdOutput = "log" => m_hStdoutHandle
    /\ process = "deleted" => ~m_hStdoutHandle /\ timer # "set" /\ queued = 0
=============================================================================
