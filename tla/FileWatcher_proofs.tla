-------------------------- MODULE FileWatcher_proofs --------------------------
(***************************************************************************)
(* Theorems about FileWatcher, for any number of requests, pages and       *)
(* changes of the directory.                                               *)
(***************************************************************************)
EXTENDS FileWatcher, FiniteSetTheorems, TLAPS

\* Threads that hold or drop references of the application.
Users == Handlers \cup {Recycler}

\* The creator's way to the first ReadDirectoryChangesW.
Unwatched == UpdateSteps \cup {"create", "armWatch"}

Control ==
    /\ pc \in [Threads -> Labels]
    /\ pc[Watcher] \in {"wait", "handle", "recheck", "monitor", "dereference"} \cup UpdateSteps
    /\ io \in {"none", "pending", "queued", "failed"}
    /\ entry \in {"allocated", "deleted"} /\ cRefs \in Int
    /\ \A t \in Users \ {Creator} : pc[t] \notin Unwatched

\* The entry has one operation: none while its completion is processed, none
\* before the creator has issued the first.
OneOperation ==
    /\ pc[Watcher] # "wait" => io = "none"
    /\ pc[Creator] \in Unwatched => io = "none" /\ pc[Watcher] = "wait" /\ entry = "allocated"

EntryInv == Control /\ OneOperation /\ EntryRefsExact

\* The watcher's thread updates under the lock, and not once the destructor has
\* got it: that one sets the flag first and closes the directory under the lock.
DestructorWaits ==
    /\ app \in {"allocated", "deleted"}
    /\ Updating => lock = Watcher
    /\ \A t \in Users : pc[t] \in {"close", "delete"} => fStop
    /\ (\E t \in Users : pc[t] = "delete") \/ app = "deleted" => fStop /\ ~Updating

-----------------------------------------------------------------------------
LEMMA Identities ==
    /\ Creator \in Users /\ Watcher \notin Users
    /\ Threads = Users \cup {Watcher}
    /\ Requests \subseteq Users \ {Creator} /\ Recycler \in Users \ {Creator}
    /\ Handlers \subseteq Users
BY FileWatcherAssumption DEF Users, Handlers, Threads

LEMMA GotoFacts ==
    ASSUME pc \in [Threads -> Labels], NEW t \in Threads, NEW l \in Labels, Goto(t, l)
    PROVE  /\ pc' \in [Threads -> Labels]
           /\ pc'[t] = l
           /\ \A u \in Threads \ {t} : pc'[u] = pc[u]
BY DEF Goto

\* A user of the application takes a step that leaves the entry alone.
LEMMA UserStep ==
    ASSUME EntryInv, NEW t \in Users, NEW l \in Labels, Goto(t, l),
           UNCHANGED <<io, entry, cRefs>>,
           l \in Unwatched => t = Creator /\ pc[t] \in Unwatched
    PROVE  EntryInv'
<1>1. pc' \in [Threads -> Labels] /\ pc'[t] = l /\ \A u \in Threads \ {t} : pc'[u] = pc[u]
  BY GotoFacts, Identities DEF EntryInv, Control
<1>2. pc'[Watcher] = pc[Watcher]
  BY <1>1, Identities
<1>3. Control'
  BY <1>1, <1>2, Identities DEF EntryInv, Control
<1>4. OneOperation'
  BY <1>1, <1>2, Identities DEF EntryInv, OneOperation
<1> QED
  BY <1>2, <1>3, <1>4 DEF EntryInv, EntryRefsExact

\* The watcher's thread takes a step inside the completion routine that leaves
\* the entry's references alone.
LEMMA WatcherStep ==
    ASSUME EntryInv, NEW l \in {"recheck", "monitor", "dereference"} \cup UpdateSteps,
           Goto(Watcher, l), UNCHANGED <<io, entry, cRefs>>, pc[Watcher] # "wait"
    PROVE  EntryInv'
<1>1. pc' \in [Threads -> Labels] /\ pc'[Watcher] = l
      /\ \A u \in Users : pc'[u] = pc[u]
  <2>1. l \in Labels
    BY DEF UpdateSteps, Labels
  <2> QED
    BY <2>1, GotoFacts, Identities DEF EntryInv, Control
<1>2. Control'
  BY <1>1, Identities DEF EntryInv, Control
<1>3. OneOperation'
  BY <1>1, Identities DEF EntryInv, OneOperation
<1> QED
  BY <1>1, <1>2, <1>3 DEF EntryInv, EntryRefsExact, UpdateSteps

LEMMA EntryUpdate ==
    ASSUME EntryInv, NEW t \in {Creator, Watcher}, UpdateAppOfflineFileHandle(t)
    PROVE  EntryInv'
<1>1. UNCHANGED <<io, entry, cRefs>> /\ pc[t] \in {"attributes", "load", "exchange", "release"}
  BY DEF UpdateAppOfflineFileHandle, UpdateAttributes, UpdateLoad, UpdateExchange,
         UpdateRelease, osVars, entryVars
<1>2. PICK l \in UpdateSteps : Goto(t, l)
  BY DEF UpdateAppOfflineFileHandle, UpdateAttributes, UpdateLoad, UpdateExchange,
         UpdateRelease, UpdateSteps
<1>3. CASE t = Creator
  <2>1. l \in Labels /\ l \in Unwatched /\ pc[t] \in Unwatched
    BY <1>1 DEF UpdateSteps, Unwatched, Labels
  <2> QED
    BY <1>1, <1>2, <1>3, <2>1, UserStep, Identities
<1>4. CASE t = Watcher
  BY <1>1, <1>2, <1>4, WatcherStep
<1> QED
  BY <1>3, <1>4

LEMMA EntryEnvironment == ASSUME EntryInv, Environment PROVE EntryInv'
<1>1. UNCHANGED <<pc, entry, cRefs>>
      /\ (io' = io \/ (io = "pending" /\ io' = "queued"))
  BY DEF Environment, DirectoryChange, OtherChange, Notify, entryVars
<1> QED
  BY <1>1 DEF EntryInv, Control, OneOperation, EntryRefsExact, Unwatched, UpdateSteps, Labels

LEMMA EntryCreate == ASSUME EntryInv, Create PROVE EntryInv'
<1>1. CASE InsertRecord
  <2>1. /\ UNCHANGED <<io, entry, cRefs>> /\ pc[Creator] \in Unwatched
        /\ Goto(Creator, "create") \/ Goto(Creator, "dropApplication")
    BY <1>1 DEF InsertRecord, osVars, entryVars, Unwatched, UpdateSteps
  <2>2. "create" \in Labels /\ "dropApplication" \in Labels
    BY DEF Labels
  <2> QED
    BY <2>1, <2>2, UserStep, Identities
<1>2. CASE StartMonitoringAppOffline
  <2>1. /\ UNCHANGED <<io, entry, cRefs>> /\ pc[Creator] \in Unwatched
        /\ Goto(Creator, "query") \/ Goto(Creator, "armWatch")
    BY <1>2 DEF StartMonitoringAppOffline, osVars, Unwatched
  <2>2. "query" \in Labels /\ "armWatch" \in Labels
    BY DEF Labels
  <2> QED
    BY <2>1, <2>2, UserStep, Identities
<1>3. CASE Arm
  <2>1. /\ pc[Creator] = "armWatch" /\ Goto(Creator, "query") /\ entry' = entry
        /\ cRefs' = cRefs + 1 /\ io' \in {"pending", "failed"}
    BY <1>3 DEF Arm, Monitor
  <2>2. io = "none" /\ pc[Watcher] = "wait" /\ entry = "allocated"
    BY <2>1 DEF EntryInv, OneOperation, Unwatched, UpdateSteps, Labels
  <2>3. /\ pc' \in [Threads -> Labels] /\ pc'[Creator] = "query"
        /\ \A u \in Threads \ {Creator} : pc'[u] = pc[u]
    BY <2>1, GotoFacts, Identities DEF EntryInv, Control, Labels
  <2>4. pc'[Watcher] = pc[Watcher]
    BY <2>3, Identities
  <2>5. Control'
    BY <2>1, <2>3, <2>4, Identities DEF EntryInv, Control
  <2>6. OneOperation'
    BY <2>2, <2>3, <2>4 DEF OneOperation, Unwatched, UpdateSteps, Labels
  <2> QED
    BY <2>1, <2>2, <2>5, <2>6 DEF EntryInv, EntryRefsExact
<1> QED
  BY <1>1, <1>2, <1>3 DEF Create

LEMMA EntryWatch == ASSUME EntryInv, Watch PROVE EntryInv'
<1> DEFINE To(l) == pc' \in [Threads -> Labels] /\ pc'[Watcher] = l
                    /\ \A u \in Users : pc'[u] = pc[u]
<1>1. ASSUME NEW l \in Labels, Goto(Watcher, l) PROVE To(l)
  BY <1>1, GotoFacts, Identities DEF EntryInv, Control
<1>2. CASE CompletionRoutine
  <2>1. /\ pc[Watcher] = "wait" /\ io = "queued" /\ io' = "none" /\ cRefs' = cRefs - 1
        /\ entry' = IF cRefs = 1 THEN "deleted" ELSE entry
        /\ Goto(Watcher, "handle")
    BY <1>2 DEF CompletionRoutine
  <2>2. To("handle")
    BY <2>1, <1>1 DEF Labels
  <2>3. entry = "allocated" /\ cRefs = 2 /\ pc[Creator] \notin Unwatched
    BY <2>1 DEF EntryInv, Control, OneOperation, EntryRefsExact
  <2>4. Control'
    BY <2>1, <2>2, <2>3 DEF EntryInv, Control
  <2>5. OneOperation'
    BY <2>1, <2>2, <2>3, Identities DEF OneOperation
  <2> QED
    BY <2>1, <2>3, <2>4, <2>5 DEF EntryInv, EntryRefsExact
<1>3. CASE HandleChangeCompletion \/ HandleChangeCompletionEnd \/ QueryIsValid
  <2>1. UNCHANGED <<io, entry, cRefs>> /\ pc[Watcher] # "wait"
    BY <1>3 DEF HandleChangeCompletion, HandleChangeCompletionEnd, QueryIsValid,
       osVars, entryVars
  <2>2. \E l \in {"recheck", "monitor", "dereference", "attributes"} : Goto(Watcher, l)
    BY <1>3 DEF HandleChangeCompletion, HandleChangeCompletionEnd, QueryIsValid
  <2> QED
    BY <2>1, <2>2, WatcherStep DEF UpdateSteps
<1>4. CASE Rearm
  <2>1. /\ pc[Watcher] = "monitor" /\ Goto(Watcher, "wait") /\ entry' = entry
        /\ cRefs' = cRefs + 1 /\ io' \in {"pending", "failed"}
    BY <1>4 DEF Rearm, Monitor
  <2>2. To("wait")
    BY <2>1, <1>1 DEF Labels
  <2>3. io = "none" /\ entry = "allocated" /\ pc[Creator] \notin Unwatched
    BY <2>1 DEF EntryInv, Control, OneOperation, EntryRefsExact
  <2>4. Control'
    BY <2>1, <2>2 DEF EntryInv, Control
  <2>5. OneOperation'
    BY <2>2, <2>3, Identities DEF OneOperation
  <2> QED
    BY <2>1, <2>3, <2>4, <2>5 DEF EntryInv, EntryRefsExact
<1>5. CASE DereferenceFileWatcherEntry
  <2>1. /\ pc[Watcher] = "dereference" /\ cRefs' = cRefs - 1 /\ io' = io
        /\ entry' = IF cRefs = 1 THEN "deleted" ELSE entry
        /\ Goto(Watcher, "wait")
    BY <1>5 DEF DereferenceFileWatcherEntry, osVars
  <2>2. To("wait")
    BY <2>1, <1>1 DEF Labels
  <2>3. io = "none" /\ entry = "allocated" /\ cRefs = 1 /\ pc[Creator] \notin Unwatched
    BY <2>1 DEF EntryInv, Control, OneOperation, EntryRefsExact
  <2>4. Control'
    BY <2>1, <2>2, <2>3 DEF EntryInv, Control
  <2>5. OneOperation'
    BY <2>2, <2>3, Identities DEF OneOperation
  <2> QED
    BY <2>1, <2>2, <2>3, <2>4, <2>5 DEF EntryInv, EntryRefsExact
<1> QED
  BY <1>2, <1>3, <1>4, <1>5 DEF Watch

LEMMA EntryUsers ==
    ASSUME EntryInv, NEW t \in Users,
           \/ FindKey(t) /\ t \in Requests
           \/ Request(t)
           \/ DeleteKey /\ t = Recycler
           \/ DereferenceApplication(t)
           \/ MarkEntryInValid(t) \/ StopMonitor(t) \/ DeleteApplication(t)
    PROVE  EntryInv'
<1>1. UNCHANGED <<io, entry, cRefs>>
  BY DEF FindKey, Request, QueryAppOfflineHtm, ReferenceAppOfflineHtm, Serve,
         DereferenceAppOfflineHtm, DeleteKey, DereferenceApplication, MarkEntryInValid,
         StopMonitor, DeleteApplication, osVars, entryVars
<1>2. PICK l \in Labels : Goto(t, l) /\ l \notin Unwatched
  BY DEF FindKey, Request, QueryAppOfflineHtm, ReferenceAppOfflineHtm, Serve,
         DereferenceAppOfflineHtm, DeleteKey, DereferenceApplication, MarkEntryInValid,
         StopMonitor, DeleteApplication, Unwatched, UpdateSteps, Labels
<1> QED
  BY <1>1, <1>2, UserStep

\* Closing the directory can complete the pending operation.
LEMMA EntryClose == ASSUME EntryInv, NEW t \in Users, StopMonitorClose(t) PROVE EntryInv'
<1>1. /\ UNCHANGED <<entry, cRefs>> /\ (io' = io \/ (io = "pending" /\ io' = "queued"))
      /\ pc[t] = "close"
  BY DEF StopMonitorClose
<1>2. PICK l \in {"fault", "delete"} : Goto(t, l)
  BY DEF StopMonitorClose
<1>3. /\ pc' \in [Threads -> Labels] /\ pc'[t] = l
      /\ \A u \in Threads \ {t} : pc'[u] = pc[u]
  BY <1>2, GotoFacts, Identities DEF EntryInv, Control, Labels
<1>4. pc'[Watcher] = pc[Watcher]
  BY <1>3, Identities
<1>5. Control'
  BY <1>1, <1>2, <1>3, <1>4, Identities DEF EntryInv, Control, Unwatched, UpdateSteps, Labels
<1>6. OneOperation'
  BY <1>1, <1>2, <1>3, <1>4, Identities DEF EntryInv, OneOperation, Unwatched, UpdateSteps, Labels
<1> QED
  BY <1>1, <1>4, <1>5, <1>6 DEF EntryInv, EntryRefsExact

LEMMA EntryInit == Init => EntryInv
<1> SUFFICES ASSUME Init PROVE EntryInv
  OBVIOUS
<1>1. pc = [t \in Threads |-> IF t = Creator THEN "attributes"
                             ELSE IF t = Watcher THEN "wait" ELSE "idle"]
  BY Zenon DEF Init
<1>2. io = "none" /\ entry = "allocated" /\ cRefs = 1
  BY Zenon DEF Init
<1>3. /\ pc \in [Threads -> Labels] /\ pc[Watcher] = "wait" /\ pc[Creator] = "attributes"
      /\ \A t \in Users \ {Creator} : pc[t] = "idle"
  BY <1>1, Identities, FileWatcherAssumption DEF Labels, UpdateSteps
<1> QED
  BY <1>2, <1>3 DEF EntryInv, Control, OneOperation, EntryRefsExact, Unwatched, UpdateSteps, Labels

LEMMA EntryStep == EntryInv /\ [Next]_vars => EntryInv'
<1> SUFFICES ASSUME EntryInv, [Next]_vars PROVE EntryInv'
  OBVIOUS
<1>1. CASE UNCHANGED vars
  BY <1>1 DEF vars, osVars, entryVars, EntryInv, Control, OneOperation, EntryRefsExact
<1>2. CASE Next
  BY <1>2, SMTT(30), EntryUpdate, EntryEnvironment, EntryCreate, EntryWatch, EntryUsers, EntryClose,
     Identities DEF Next, Destroy, Users, Request
<1> QED
  BY <1>1, <1>2

\* The watcher's entry has exactly the references it should have, and whatever
\* its thread works on and the system may complete is allocated, however the
\* application comes and goes meanwhile.
THEOREM EntryRefsExactTheorem == Spec => []EntryRefsExact
<1>1. EntryInv => EntryRefsExact
  BY DEF EntryInv
<1> QED
  BY <1>1, EntryInit, EntryStep, PTL DEF Spec

-----------------------------------------------------------------------------
(* The destructor of the application and a running update.                 *)

\* A user of the application moves on, outside StopMonitor's locked part.
LEMMA UserElsewhere ==
    ASSUME Control, DestructorWaits, NEW t \in Users, NEW l \in Labels \ {"close", "delete"},
           Goto(t, l), UNCHANGED <<lock, fStop, app>>
    PROVE  DestructorWaits'
<1>1. pc'[t] = l /\ \A u \in Threads \ {t} : pc'[u] = pc[u]
  BY GotoFacts, Identities DEF Control
<1>2. pc'[Watcher] = pc[Watcher]
  BY <1>1, Identities
<1> QED
  BY <1>1, <1>2, Identities DEF DestructorWaits, Updating

\* The watcher's thread moves on, not into an update.
LEMMA WatcherElsewhere ==
    ASSUME Control, DestructorWaits, NEW l \in Labels \ UpdateSteps, Goto(Watcher, l),
           UNCHANGED <<fStop, app>>
    PROVE  DestructorWaits'
<1>1. pc'[Watcher] = l /\ \A u \in Users : pc'[u] = pc[u]
  BY GotoFacts, Identities DEF Control
<1> QED
  BY <1>1 DEF DestructorWaits, Updating

LEMMA WaitsUpdate ==
    ASSUME Control, DestructorWaits, NEW t \in {Creator, Watcher},
           UpdateAppOfflineFileHandle(t)
    PROVE  DestructorWaits'
<1>1. /\ UNCHANGED <<lock, fStop, app>>
      /\ pc[t] \in UpdateSteps
  BY DEF UpdateAppOfflineFileHandle, UpdateAttributes, UpdateLoad, UpdateExchange,
         UpdateRelease, entryVars, appVars, UpdateSteps
<1>2. PICK l \in UpdateSteps : Goto(t, l)
  BY DEF UpdateAppOfflineFileHandle, UpdateAttributes, UpdateLoad, UpdateExchange,
         UpdateRelease, UpdateSteps
<1>3. l \in Labels \ {"close", "delete"}
  BY DEF UpdateSteps, Labels
<1>4. CASE t = Creator
  BY <1>1, <1>2, <1>3, <1>4, UserElsewhere, Identities
<1>5. CASE t = Watcher
  <2>1. pc'[Watcher] = l /\ \A u \in Users : pc'[u] = pc[u]
    BY <1>2, <1>3, <1>5, GotoFacts, Identities DEF Control
  <2> QED
    BY <1>1, <1>5, <2>1 DEF DestructorWaits, Updating
<1> QED
  BY <1>4, <1>5

LEMMA WaitsWatch == ASSUME Control, DestructorWaits, Watch PROVE DestructorWaits'
<1>1. CASE HandleChangeCompletion /\ lock' = Watcher /\ ~fStop /\ Goto(Watcher, "attributes")
  <2>1. UNCHANGED <<fStop, app>>
    BY <1>1 DEF HandleChangeCompletion, appVars
  <2>2. \A u \in Users : pc'[u] = pc[u]
    BY <1>1, GotoFacts, Identities DEF Control, Labels, UpdateSteps
  <2> QED
    BY <1>1, <2>1, <2>2 DEF DestructorWaits, Updating
<1>2. CASE ~(lock' = Watcher /\ ~fStop /\ Goto(Watcher, "attributes"))
  <2>1. UNCHANGED <<fStop, app>>
    BY DEF Watch, CompletionRoutine, HandleChangeCompletion, HandleChangeCompletionEnd,
       QueryIsValid, Rearm, DereferenceFileWatcherEntry, entryVars, appVars
  <2>2. PICK l \in {"wait", "handle", "recheck", "monitor", "dereference"} : Goto(Watcher, l)
    BY <1>2 DEF Watch, CompletionRoutine, HandleChangeCompletion, HandleChangeCompletionEnd,
       QueryIsValid, Rearm, Monitor, DereferenceFileWatcherEntry
  <2>3. l \in Labels \ UpdateSteps
    BY DEF Labels, UpdateSteps
  <2> QED
    BY <2>1, <2>2, <2>3, WatcherElsewhere
<1>3. CASE ~HandleChangeCompletion
  <2>1. UNCHANGED <<fStop, app>>
    BY <1>3 DEF Watch, CompletionRoutine, HandleChangeCompletionEnd,
       QueryIsValid, Rearm, DereferenceFileWatcherEntry, entryVars, appVars
  <2>2. PICK l \in {"wait", "handle", "recheck", "monitor", "dereference"} : Goto(Watcher, l)
    BY <1>3 DEF Watch, CompletionRoutine, HandleChangeCompletionEnd,
       QueryIsValid, Rearm, Monitor, DereferenceFileWatcherEntry
  <2>3. l \in Labels \ UpdateSteps
    BY DEF Labels, UpdateSteps
  <2> QED
    BY <2>1, <2>2, <2>3, WatcherElsewhere
<1> QED
  BY <1>1, <1>2, <1>3

LEMMA WaitsUsers ==
    ASSUME Control, DestructorWaits, NEW t \in Users,
           \/ FindKey(t)
           \/ Request(t)
           \/ DeleteKey /\ t = Recycler
           \/ Create /\ t = Creator
           \/ DereferenceApplication(t)
           \/ MarkEntryInValid(t)
    PROVE  DestructorWaits'
<1>1. UNCHANGED <<lock, fStop, app>>
  BY DEF FindKey, Request, QueryAppOfflineHtm, ReferenceAppOfflineHtm, Serve,
         DereferenceAppOfflineHtm, DeleteKey, DereferenceApplication, MarkEntryInValid,
         Create, InsertRecord, StartMonitoringAppOffline, Arm, entryVars, appVars
<1>2. PICK l \in Labels \ {"close", "delete"} : Goto(t, l)
  BY DEF FindKey, Request, QueryAppOfflineHtm, ReferenceAppOfflineHtm, Serve,
         DereferenceAppOfflineHtm, DeleteKey, DereferenceApplication, MarkEntryInValid,
         Create, InsertRecord, StartMonitoringAppOffline, Arm, Monitor, Labels
<1> QED
  BY <1>1, <1>2, UserElsewhere

\* StopMonitor and what follows it: the flag is set before the lock is
\* asked for, and an update holds the lock.
LEMMA WaitsDestroy ==
    ASSUME Control, DestructorWaits, NEW t \in Users,
           StopMonitor(t) \/ StopMonitorClose(t) \/ DeleteApplication(t)
    PROVE  DestructorWaits'
<1>1. PICK l \in {"fault", "close", "delete", "dropHtm"} : Goto(t, l)
  BY DEF StopMonitor, StopMonitorClose, DeleteApplication
<1>2. pc'[t] = l /\ \A u \in Threads \ {t} : pc'[u] = pc[u]
  BY <1>1, GotoFacts, Identities DEF Control, Labels
<1>3. pc'[Watcher] = pc[Watcher] /\ lock' = lock
  BY <1>2, Identities DEF StopMonitor, StopMonitorClose, DeleteApplication, entryVars
<1>4. CASE StopMonitor(t)
  <2>1. app' = app /\ (fStop' = fStop \/ fStop' = TRUE)
        /\ (pc'[t] = "fault" \/ (pc'[t] = "close" /\ fStop' = TRUE))
    BY <1>2, <1>4, Identities DEF StopMonitor, appVars, Goto, Control
  <2> QED
    BY <1>2, <1>3, <2>1, Identities DEF DestructorWaits, Updating
<1>5. CASE StopMonitorClose(t)
  <2>1. lock = None /\ pc[t] = "close" /\ UNCHANGED <<fStop, app>>
    BY <1>5 DEF StopMonitorClose, appVars
  <2>2. ~Updating /\ fStop
    BY <2>1, FileWatcherAssumption DEF DestructorWaits
  <2> QED
    BY <1>2, <1>3, <2>1, <2>2, Identities DEF DestructorWaits, Updating
<1>6. CASE DeleteApplication(t)
  <2>1. pc[t] = "delete" /\ fStop' = fStop /\ pc'[t] = "dropHtm"
        /\ app' = "deleted"
    BY <1>2, <1>6, Identities DEF DeleteApplication, entryVars, Goto, Control
  <2>2. fStop /\ ~Updating
    BY <2>1 DEF DestructorWaits
  <2> QED
    BY <1>2, <1>3, <2>1, <2>2, Identities DEF DestructorWaits, Updating
<1> QED
  BY <1>4, <1>5, <1>6

LEMMA WaitsInit == Init => DestructorWaits
<1> SUFFICES ASSUME Init PROVE DestructorWaits
  OBVIOUS
<1>1. pc = [t \in Threads |-> IF t = Creator THEN "attributes"
                             ELSE IF t = Watcher THEN "wait" ELSE "idle"]
  BY Zenon DEF Init
<1>2. app = "allocated"
  BY Zenon DEF Init
<1> QED
  BY <1>1, <1>2, Identities DEF DestructorWaits, Updating, UpdateSteps

LEMMA WaitsStep == Control /\ DestructorWaits /\ [Next]_vars => DestructorWaits'
<1> SUFFICES ASSUME Control, DestructorWaits, [Next]_vars PROVE DestructorWaits'
  OBVIOUS
<1>1. CASE UNCHANGED vars \/ Environment
  <2>1. UNCHANGED <<pc, lock, fStop, app>>
    BY <1>1 DEF vars, entryVars, appVars, Environment, DirectoryChange, OtherChange, Notify
  <2> QED
    BY <2>1 DEF DestructorWaits, Updating
<1>2. CASE Next /\ ~Environment
  BY <1>2, SMTT(30), WaitsUpdate, WaitsWatch, WaitsUsers, WaitsDestroy, Identities
     DEF Next, Destroy, Users, Request
<1> QED
  BY <1>1, <1>2

\* The watcher's thread never updates an application that has been deleted: the
\* destructor waits for a running update, and no update begins after it.
THEOREM AppOutlivesUpdateTheorem == Spec => []AppOutlivesUpdate
<1>1. EntryInv => Control
  BY DEF EntryInv
<1>2. DestructorWaits => AppOutlivesUpdate
  BY DEF DestructorWaits, AppOutlivesUpdate
<1> QED
  BY <1>1, <1>2, EntryInit, EntryStep, WaitsInit, WaitsStep, PTL DEF Spec

-----------------------------------------------------------------------------
(* The references of the application and of its app_offline.htm pages.     *)
(* Once a request has used a page that was deleted (an early run shows     *)
(* that one can), nothing is said of the counters any more; that the       *)
(* destructor runs once and on nobody's reference holds even then.         *)
(* The application's references.                                           *)

\* Labels at which a user of the application holds a reference of it; the
\* creator also does while it loads the page.
HoldLabels == {"create", "armWatch", "query", "reference", "serve", "dropApplication"}
Holds(t, l) == l \in HoldLabels \/ (t = Creator /\ l \in UpdateSteps)
Held(t, l) == IF Holds(t, l) THEN 1 ELSE 0
DestroyLabels == {"mark", "stop", "close", "delete"}
NoFault == \A t \in Threads : pc[t] # "fault"
InTable == IF published THEN 1 ELSE 0

\* A reference that a faulted thread held is never given up.
AppInv ==
    /\ appRefs \in Nat /\ published \in BOOLEAN
    /\ appRefs >= Cardinality(AppHolders) + InTable
    /\ NoFault => appRefs = Cardinality(AppHolders) + InTable
    /\ pc[Creator] \in UpdateSteps => ~published
    /\ \A t, u \in Threads : pc[t] \in DestroyLabels /\ pc[u] \in DestroyLabels => t = u
    /\ (\E t \in Threads : pc[t] \in DestroyLabels) \/ app = "deleted" => appRefs = 0

-----------------------------------------------------------------------------
(* The pages' references.                                                  *)

PageLabels == {"exchange", "release", "serve", "dropApplication", "dropHtm",
               "mark", "stop", "close", "delete"}
Uses(t, h) == IF htm[t] = h /\ pc[t] \in PageLabels THEN 1 ELSE 0
Pointed(h) == IF page = h THEN 1 ELSE 0

\* Pages that have been allocated, and the loads that may still come: one of the
\* creator and one for each change that is known and not yet acted upon.
Loaded == {h \in Htms : htmRefs[h] # 0 \/ contents[h] # 0}
Due(b) == IF b THEN 1 ELSE 0
Loads ==
    Due(recorded = "match") + Due(io = "queued" /\ packet = "match")
      + Due(pc[Watcher] = "handle" /\ packet = "match")
      + Due(pc[Watcher] \in {"attributes", "load"})
      + Due(pc[Creator] \in {"attributes", "load"})

LoadInv ==
    /\ changes \in 0..MaxChanges
    /\ recorded \in {"none", "other", "match"} /\ packet \in {"other", "match", "closed"}
    /\ packet = "closed" => fStop
    /\ Cardinality(Loaded) + Loads <= changes + 1

PageTypes ==
    /\ file \in Nat /\ htmRefs \in [Htms -> Int] /\ contents \in [Htms -> Nat]
    /\ page \in Htms \cup {None} /\ htm \in [Threads -> Htms \cup {None}]

PageInv ==
    /\ page # None => contents[page] # 0
    /\ \A t \in Threads :
          htm[t] # None => contents[htm[t]] # 0 /\ pc[t] \in PageLabels \cup {"reference", "fault"}
    /\ \A t \in Threads : pc[t] \in {"exchange", "release", "reference"} => htm[t] # None
    /\ HtmRefsExact

-----------------------------------------------------------------------------
LEMMA FiniteThreads ==
    /\ IsFiniteSet(Users) /\ IsFiniteSet(Threads)
    /\ AppHolders = {t \in Users : Holds(t, pc[t])}
    /\ IsFiniteSet(AppHolders) /\ Cardinality(AppHolders) \in Nat
<1>1. IsFiniteSet(Requests \cup {Creator})
  BY FileWatcherAssumption, FS_AddElement
<1>2. IsFiniteSet((Requests \cup {Creator}) \cup {Recycler})
  BY <1>1, FS_AddElement
<1>3. IsFiniteSet(((Requests \cup {Creator}) \cup {Recycler}) \cup {Watcher})
  BY <1>2, FS_AddElement
<1>4. /\ Users = (Requests \cup {Creator}) \cup {Recycler}
      /\ Threads = ((Requests \cup {Creator}) \cup {Recycler}) \cup {Watcher}
  BY DEF Users, Threads, Handlers
<1>5. AppHolders = {t \in Users : Holds(t, pc[t])}
  BY DEF AppHolders, Users, Holds, HoldLabels
<1>6. AppHolders \subseteq Users
  BY <1>5
<1> QED
  BY <1>2, <1>3, <1>4, <1>5, <1>6, FS_Subset, FS_CardinalityType

LEMMA HoldersSame ==
    ASSUME \A t \in Users : pc'[t] = pc[t]
    PROVE  AppHolders' = AppHolders
BY FiniteThreads DEF AppHolders, Users

LEMMA HoldersMove ==
    ASSUME Control, NEW t \in Users, NEW l \in Labels, Goto(t, l)
    PROVE  Cardinality(AppHolders') = Cardinality(AppHolders) + Held(t, l) - Held(t, pc[t])
<1>1. pc'[t] = l /\ \A u \in Threads \ {t} : pc'[u] = pc[u]
  BY GotoFacts, Identities DEF Control
<1>2. AppHolders = {u \in Users : Holds(u, pc[u])}
  BY FiniteThreads
<1>3. AppHolders' = {u \in Users : Holds(u, pc'[u])}
  BY DEF AppHolders, Users, Holds, HoldLabels
<1>4. \A u \in Users \ {t} : pc'[u] = pc[u]
  BY <1>1, Identities
<1>5. CASE Holds(t, l) /\ ~Holds(t, pc[t])
  <2>1. AppHolders' = AppHolders \cup {t} /\ t \notin AppHolders
    BY <1>1, <1>2, <1>3, <1>4, <1>5
  <2>2. Cardinality(AppHolders') = Cardinality(AppHolders) + 1
    BY <2>1, FiniteThreads, FS_AddElement
  <2> QED
    BY <1>5, <2>2, FiniteThreads DEF Held
<1>6. CASE ~Holds(t, l) /\ Holds(t, pc[t])
  <2>1. AppHolders' = AppHolders \ {t} /\ t \in AppHolders
    BY <1>1, <1>2, <1>3, <1>4, <1>6
  <2>2. Cardinality(AppHolders') = Cardinality(AppHolders) - 1
    BY <2>1, FiniteThreads, FS_RemoveElement
  <2> QED
    BY <1>6, <2>2, FiniteThreads DEF Held
<1>7. CASE Holds(t, l) <=> Holds(t, pc[t])
  <2>1. AppHolders' = AppHolders
    BY <1>1, <1>2, <1>3, <1>4, <1>7
  <2> QED
    BY <1>7, <2>1, FiniteThreads DEF Held
<1> QED
  BY <1>5, <1>6, <1>7

LEMMA HolderCounts ==
    ASSUME NEW t \in Users, Holds(t, pc[t])
    PROVE  Cardinality(AppHolders) >= 1
<1>1. t \in AppHolders
  BY FiniteThreads
<1>2. Cardinality(AppHolders) # 0
  BY <1>1, FiniteThreads, FS_EmptySet
<1> QED
  BY <1>2, FiniteThreads

\* The environment and the watcher's thread hold no reference.
LEMMA AppElsewhere ==
    ASSUME Control, Control', AppInv, UNCHANGED appVars, \A u \in Users : pc'[u] = pc[u]
    PROVE  AppInv'
<1>1. AppHolders' = AppHolders
  BY HoldersSame
<1>2. /\ pc[Watcher] \notin DestroyLabels \cup {"fault"}
      /\ pc'[Watcher] \notin DestroyLabels \cup {"fault"}
  BY DEF Control, UpdateSteps, DestroyLabels
<1>3. \A u \in Threads : pc'[u] \in DestroyLabels => u \in Users /\ pc[u] \in DestroyLabels
  BY <1>2, Identities
<1>4. NoFault' <=> NoFault
  BY <1>2, Identities DEF NoFault
<1>5. InTable' = InTable
  BY DEF InTable, appVars
<1> QED
  BY <1>1, <1>3, <1>4, <1>5, Identities DEF AppInv, appVars

\* A user moves on and keeps what it holds, or faults and never gives it up.
LEMMA AppKeeps ==
    ASSUME Control, AppInv, NEW t \in Users, NEW l \in Labels, Goto(t, l),
           UNCHANGED <<published, appRefs>>, pc[t] # "fault",
           Holds(t, l) => Holds(t, pc[t]),
           Holds(t, pc[t]) => Holds(t, l) \/ l = "fault",
           l \in DestroyLabels => pc[t] \in DestroyLabels,
           app' = app \/ pc[t] \in DestroyLabels,
           t = Creator /\ l \in UpdateSteps => pc[t] \in UpdateSteps
    PROVE  AppInv'
<1>1. pc'[t] = l /\ \A u \in Threads \ {t} : pc'[u] = pc[u]
  BY GotoFacts, Identities DEF Control
<1>2. Cardinality(AppHolders') = Cardinality(AppHolders) + Held(t, l) - Held(t, pc[t])
  BY HoldersMove
<1>3. /\ Cardinality(AppHolders') <= Cardinality(AppHolders)
      /\ l # "fault" => Cardinality(AppHolders') = Cardinality(AppHolders)
  BY <1>2, FiniteThreads DEF Held
<1>4. Cardinality(AppHolders') \in Int
  BY <1>2, FiniteThreads DEF Held
<1>5. NoFault' => NoFault /\ l # "fault"
  BY <1>1, Identities DEF NoFault
<1>6. InTable' = InTable /\ InTable \in Nat
  BY DEF InTable
<1>7. /\ appRefs' >= Cardinality(AppHolders') + InTable'
      /\ NoFault' => appRefs' = Cardinality(AppHolders') + InTable'
  BY <1>3, <1>4, <1>5, <1>6, FiniteThreads DEF AppInv
<1>8. \A u \in Threads : pc'[u] \in DestroyLabels => pc[u] \in DestroyLabels
  BY <1>1
<1>9. pc'[Creator] \in UpdateSteps => pc[Creator] \in UpdateSteps
  BY <1>1, Identities
<1> QED
  BY <1>7, <1>8, <1>9, Identities DEF AppInv

\* A user takes references, or the table does, while there are some.
LEMMA AppTakes ==
    ASSUME Control, AppInv, NEW t \in Users, NEW l \in Labels, Goto(t, l),
           NEW d \in {0, 1}, appRefs' = appRefs + d, app' = app, published' \in BOOLEAN,
           pc[t] # "fault", l # "fault", l \notin DestroyLabels,
           Held(t, l) + InTable' = Held(t, pc[t]) + InTable + d,
           d = 1 => appRefs >= 1,
           t = Creator => l \notin UpdateSteps,
           published' => published \/ t = Creator
    PROVE  AppInv'
<1>1. pc'[t] = l /\ \A u \in Threads \ {t} : pc'[u] = pc[u]
  BY GotoFacts, Identities DEF Control
<1>2. Cardinality(AppHolders') = Cardinality(AppHolders) + Held(t, l) - Held(t, pc[t])
  BY HoldersMove
<1>3. /\ InTable \in Nat /\ InTable' \in Nat /\ Held(t, l) \in Nat /\ Held(t, pc[t]) \in Nat
      /\ appRefs \in Nat
  BY DEF InTable, Held, AppInv
<1>4. Cardinality(AppHolders') + InTable' = Cardinality(AppHolders) + InTable + d
  BY <1>2, <1>3, FiniteThreads
<1>5. NoFault' => NoFault
  BY <1>1, Identities DEF NoFault
<1>6. /\ appRefs' >= Cardinality(AppHolders') + InTable'
      /\ NoFault' => appRefs' = Cardinality(AppHolders') + InTable'
  BY <1>3, <1>4, <1>5, FiniteThreads DEF AppInv
<1>7. \A u \in Threads : pc'[u] \in DestroyLabels => pc[u] \in DestroyLabels
  BY <1>1
<1>8. (\E u \in Threads : pc'[u] \in DestroyLabels) \/ app' = "deleted" => appRefs' = 0
  BY <1>3, <1>7 DEF AppInv
<1>9. pc'[Creator] \in UpdateSteps => ~published'
  BY <1>1, Identities DEF AppInv
<1>10. appRefs' \in Nat
  BY <1>3
<1> QED
  BY <1>6, <1>7, <1>8, <1>9, <1>10 DEF AppInv

\* Whoever drops the last reference becomes the one destructor.
LEMMA AppDrops ==
    ASSUME Control, AppInv, NEW t \in Users, DereferenceApplication(t)
    PROVE  AppInv'
<1>1. /\ pc[t] = "dropApplication" /\ appRefs' = appRefs - 1 /\ UNCHANGED <<published, app>>
      /\ Goto(t, IF appRefs = 1 THEN "mark" ELSE "dropHtm")
  BY DEF DereferenceApplication
<1> DEFINE l == IF appRefs = 1 THEN "mark" ELSE "dropHtm"
<1>2. l \in Labels /\ ~Holds(t, l) /\ Holds(t, pc[t])
  BY <1>1 DEF Labels, Holds, HoldLabels, UpdateSteps
<1>3. pc'[t] = l /\ \A u \in Threads \ {t} : pc'[u] = pc[u]
  BY <1>1, <1>2, GotoFacts, Identities DEF Control
<1>4. Cardinality(AppHolders') = Cardinality(AppHolders) - 1
  <2>1. Cardinality(AppHolders') = Cardinality(AppHolders) + Held(t, l) - Held(t, pc[t])
    BY <1>1, <1>2, HoldersMove
  <2>2. Held(t, l) = 0 /\ Held(t, pc[t]) = 1
    BY <1>2 DEF Held
  <2> QED
    BY <2>1, <2>2, FiniteThreads
<1>5. appRefs \in Nat /\ appRefs >= 1 /\ InTable \in Nat /\ InTable' = InTable
  <2>1. InTable \in Nat /\ InTable' = InTable
    BY <1>1 DEF InTable
  <2>2. Cardinality(AppHolders) >= 1
    BY <1>2, HolderCounts
  <2> QED
    BY <2>1, <2>2, FiniteThreads DEF AppInv
<1>6. \A u \in Threads : pc[u] \notin DestroyLabels
  BY <1>5 DEF AppInv
<1>7. app # "deleted"
  BY <1>5 DEF AppInv
<1>8. NoFault' => NoFault
  BY <1>1, <1>3, Identities DEF NoFault
<1>9. /\ appRefs' \in Nat
      /\ appRefs' >= Cardinality(AppHolders') + InTable'
      /\ NoFault' => appRefs' = Cardinality(AppHolders') + InTable'
  BY <1>1, <1>4, <1>5, <1>8, FiniteThreads DEF AppInv
<1>10. \A u \in Threads : pc'[u] \in DestroyLabels => u = t /\ appRefs = 1
  BY <1>3, <1>6 DEF DestroyLabels
<1>11. pc'[Creator] \in UpdateSteps => pc[Creator] \in UpdateSteps
  BY <1>3, Identities DEF UpdateSteps
<1> QED
  BY <1>1, <1>5, <1>7, <1>9, <1>10, <1>11 DEF AppInv

LEMMA AppUpdate ==
    ASSUME Control, Control', AppInv, NEW t \in {Creator, Watcher}, UpdateAppOfflineFileHandle(t)
    PROVE  AppInv'
<1>1. UNCHANGED appVars /\ pc[t] \in UpdateSteps
  BY DEF UpdateAppOfflineFileHandle, UpdateAttributes, UpdateLoad, UpdateExchange,
         UpdateRelease, UpdateSteps
<1>2. PICK l \in UpdateSteps : Goto(t, l)
  BY DEF UpdateAppOfflineFileHandle, UpdateAttributes, UpdateLoad, UpdateExchange,
         UpdateRelease, UpdateSteps
<1>3. l \in Labels
  BY DEF Labels
<1>4. CASE t = Creator
  <2>1. /\ Holds(t, l) /\ Holds(t, pc[t]) /\ l \notin DestroyLabels /\ pc[t] # "fault"
    BY <1>1, <1>4 DEF Holds, DestroyLabels, UpdateSteps
  <2> QED
    BY <1>1, <1>2, <1>3, <1>4, <2>1, AppKeeps, Identities DEF appVars
<1>5. CASE t = Watcher
  <2>1. \A u \in Users : pc'[u] = pc[u]
    BY <1>2, <1>3, <1>5, GotoFacts, Identities DEF Control
  <2> QED
    BY <1>1, <2>1, AppElsewhere
<1> QED
  BY <1>4, <1>5

LEMMA AppWatch ==
    ASSUME Control, Control', AppInv, Watch \/ Environment
    PROVE  AppInv'
<1>1. UNCHANGED appVars
  BY DEF Watch, CompletionRoutine, HandleChangeCompletion, HandleChangeCompletionEnd,
         QueryIsValid, Rearm, DereferenceFileWatcherEntry,
         Environment, DirectoryChange, OtherChange, Notify
<1>2. UNCHANGED pc \/ \E l : Goto(Watcher, l)
  BY DEF Watch, CompletionRoutine, HandleChangeCompletion, HandleChangeCompletionEnd,
         QueryIsValid, Rearm, Monitor, DereferenceFileWatcherEntry,
         Environment, DirectoryChange, OtherChange, Notify
<1>3. \A u \in Users : pc'[u] = pc[u]
  BY <1>2, Identities DEF Goto, Control
<1> QED
  BY <1>1, <1>3, AppElsewhere

LEMMA AppCreate ==
    ASSUME Control, AppInv, Create
    PROVE  AppInv'
<1>1. CASE InsertRecord /\ published' = TRUE
  <2>1. /\ pc[Creator] = "updated" /\ published' = TRUE /\ app' = app
        /\ appRefs' = appRefs + 1 /\ Goto(Creator, "create")
    BY <1>1 DEF InsertRecord, AppInv, UpdateSteps
  <2>2. Holds(Creator, "create") /\ Holds(Creator, pc[Creator]) /\ ~published
    BY <2>1 DEF Holds, HoldLabels, UpdateSteps, AppInv
  <2>3. appRefs >= 1
    <3>1. Cardinality(AppHolders) >= 1
      BY <2>2, HolderCounts, Identities
    <3> QED
      BY <3>1, FiniteThreads DEF AppInv, InTable
  <2>4. Held(Creator, "create") + InTable' = Held(Creator, pc[Creator]) + InTable + 1
    BY <2>1, <2>2 DEF Held, InTable
  <2>5. "create" \in Labels \ (DestroyLabels \cup UpdateSteps)
    BY DEF Labels, DestroyLabels, UpdateSteps
  <2> QED
    BY <2>1, <2>3, <2>4, <2>5, AppTakes, Identities
<1>2. CASE InsertRecord /\ published' # TRUE
  <2>1. /\ pc[Creator] = "updated" /\ Goto(Creator, "dropApplication")
        /\ UNCHANGED <<published, appRefs, app>>
    BY <1>2 DEF InsertRecord
  <2>2. /\ Holds(Creator, "dropApplication") /\ Holds(Creator, pc[Creator])
        /\ "dropApplication" \in Labels \ (DestroyLabels \cup UpdateSteps)
    BY <2>1 DEF Holds, HoldLabels, UpdateSteps, Labels, DestroyLabels
  <2> QED
    BY <2>1, <2>2, AppKeeps, Identities
<1>3. CASE StartMonitoringAppOffline \/ Arm
  <2>1. /\ pc[Creator] \in {"create", "armWatch"} /\ UNCHANGED appVars
        /\ \E l \in {"query", "armWatch"} : Goto(Creator, l)
    BY <1>3 DEF StartMonitoringAppOffline, Arm, Monitor
  <2>2. PICK l \in {"query", "armWatch"} : Goto(Creator, l)
    BY <2>1
  <2>3. Holds(Creator, l) /\ Holds(Creator, pc[Creator]) /\ l \in Labels \ (DestroyLabels \cup UpdateSteps)
    BY <2>1 DEF Holds, HoldLabels, Labels, DestroyLabels, UpdateSteps
  <2> QED
    BY <2>1, <2>2, <2>3, AppKeeps, Identities DEF appVars
<1> QED
  BY <1>1, <1>2, <1>3 DEF Create

\* Requests and the recycler enter with a reference of their own; the recycler
\* takes over the one of the table.
LEMMA AppEnters ==
    ASSUME Control, AppInv, NEW t \in Users \ {Creator},
           (FindKey(t) /\ t \in Requests) \/ (DeleteKey /\ t = Recycler)
    PROVE  AppInv'
<1>1. pc[t] = "idle" /\ published /\ app' = app /\ Held(t, pc[t]) = 0
  <2>1. pc[t] = "idle" /\ published /\ app' = app
    BY DEF FindKey, DeleteKey
  <2>2. ~Holds(t, pc[t])
    BY <2>1 DEF Holds, HoldLabels, UpdateSteps
  <2> QED
    BY <2>1, <2>2 DEF Held
<1>2. appRefs >= 1
  BY <1>1, FiniteThreads DEF AppInv, InTable
<1>3. CASE FindKey(t)
  <2>1. appRefs' = appRefs + 1 /\ Goto(t, "query") /\ published' = published
    BY <1>3 DEF FindKey
  <2>2. "query" \in Labels \ (DestroyLabels \cup UpdateSteps) /\ Held(t, "query") = 1
    BY DEF Labels, DestroyLabels, UpdateSteps, Held, Holds, HoldLabels
  <2>3. Held(t, "query") + InTable' = Held(t, pc[t]) + InTable + 1
    BY <1>1, <2>1, <2>2 DEF InTable
  <2> QED
    BY <1>1, <1>2, <2>1, <2>2, <2>3, AppTakes DEF AppInv
<1>4. CASE DeleteKey /\ t = Recycler
  <2>1. appRefs' = appRefs + 0 /\ Goto(t, "dropApplication") /\ published' = FALSE
    BY <1>4 DEF DeleteKey, AppInv
  <2>2. /\ "dropApplication" \in Labels \ (DestroyLabels \cup UpdateSteps)
        /\ Held(t, "dropApplication") = 1
    BY DEF Labels, DestroyLabels, UpdateSteps, Held, Holds, HoldLabels
  <2>3. Held(t, "dropApplication") + InTable' = Held(t, pc[t]) + InTable + 0
    BY <1>1, <2>1, <2>2 DEF InTable
  <2>4. published' \in BOOLEAN /\ ~published'
    BY <2>1
  <2>5. pc[t] # "fault"
    BY <1>1
  <2>6. t # Creator /\ "dropApplication" # "fault" /\ "dropApplication" \notin DestroyLabels
    BY <2>2
  <2> QED
    BY <1>1, <2>1, <2>2, <2>3, <2>4, <2>5, <2>6, AppTakes
<1> QED
  BY <1>3, <1>4

LEMMA AppUsers ==
    ASSUME Control, AppInv, NEW t \in Users, Request(t) \/ Destroy(t)
    PROVE  AppInv'
<1> DEFINE Moves(from, to) == pc[t] \in from /\ \E l \in to : Goto(t, l)
<1>1. /\ UNCHANGED <<published, appRefs>> /\ (app' = app \/ pc[t] \in DestroyLabels)
      /\ \/ Moves({"query", "reference", "serve"},
                  {"reference", "serve", "dropApplication", "fault"})
         \/ Moves({"dropHtm"}, {"idle"})
         \/ Moves(DestroyLabels, DestroyLabels \cup {"fault", "dropHtm"})
  BY DEF Request, QueryAppOfflineHtm, ReferenceAppOfflineHtm, Serve, DereferenceAppOfflineHtm,
         Destroy, MarkEntryInValid, StopMonitor, StopMonitorClose, DeleteApplication,
         appVars, DestroyLabels
<1>2. ASSUME NEW l \in Labels, Goto(t, l), pc[t] # "fault",
             Holds(t, l) => Holds(t, pc[t]),
             Holds(t, pc[t]) => Holds(t, l) \/ l = "fault",
             l \in DestroyLabels => pc[t] \in DestroyLabels, l \notin UpdateSteps
      PROVE  AppInv'
  <2>1. UNCHANGED <<published, appRefs>> /\ (app' = app \/ pc[t] \in DestroyLabels)
    BY <1>1
  <2> QED
    BY <1>2, <2>1, AppKeeps
<1>3. CASE Moves({"query", "reference", "serve"},
                 {"reference", "serve", "dropApplication", "fault"})
  <2>1. PICK l \in {"reference", "serve", "dropApplication", "fault"} : Goto(t, l)
    BY <1>3
  <2>2. l \in Labels /\ l \notin DestroyLabels \cup UpdateSteps /\ Holds(t, pc[t])
        /\ (l # "fault" => Holds(t, l)) /\ (l = "fault" => ~Holds(t, l))
    BY <1>3 DEF Labels, DestroyLabels, UpdateSteps, Holds, HoldLabels
  <2> QED
    BY <1>2, <1>3, <2>1, <2>2
<1>4. CASE Moves({"dropHtm"}, {"idle"})
  <2>1. "idle" \in Labels /\ "idle" \notin DestroyLabels \cup UpdateSteps
        /\ ~Holds(t, "idle") /\ ~Holds(t, pc[t])
    BY <1>4 DEF Labels, DestroyLabels, UpdateSteps, Holds, HoldLabels
  <2> QED
    BY <1>2, <1>4, <2>1
<1>5. CASE Moves(DestroyLabels, DestroyLabels \cup {"fault", "dropHtm"})
  <2>1. PICK l \in DestroyLabels \cup {"fault", "dropHtm"} : Goto(t, l)
    BY <1>5
  <2>2. l \in Labels /\ l \notin UpdateSteps /\ ~Holds(t, pc[t]) /\ ~Holds(t, l) /\ pc[t] # "fault"
    BY <1>5 DEF Labels, DestroyLabels, UpdateSteps, Holds, HoldLabels
  <2> QED
    BY <1>2, <1>5, <2>1, <2>2
<1> QED
  BY <1>1, <1>3, <1>4, <1>5

LEMMA AppInit == Init => AppInv
<1> SUFFICES ASSUME Init  PROVE AppInv
  OBVIOUS
<1>1. /\ pc = [t \in Threads |-> IF t = Creator THEN "attributes"
                                ELSE IF t = Watcher THEN "wait" ELSE "idle"]
      /\ published = FALSE /\ appRefs = 1 /\ app = "allocated"
  BY Zenon DEF Init
<1>2. /\ pc[Creator] = "attributes"
      /\ \A t \in Threads \ {Creator} : pc[t] \in {"wait", "idle"}
  BY <1>1, Identities
<1>3. AppHolders = {} \cup {Creator}
  <2>1. Holds(Creator, pc[Creator]) /\ \A t \in Users \ {Creator} : ~Holds(t, pc[t])
    BY <1>2, Identities DEF Holds, HoldLabels, UpdateSteps
  <2> QED
    BY <2>1, FiniteThreads, Identities
<1>4. Cardinality(AppHolders) = 1
  <2>1. Cardinality({} \cup {Creator}) = Cardinality({}) + 1
    BY FS_EmptySet, FS_AddElement
  <2> QED
    BY <1>3, <2>1, FS_EmptySet
<1>5. \A t \in Threads : pc[t] \notin DestroyLabels
  BY <1>2 DEF DestroyLabels
<1>6. InTable = 0 /\ published \in BOOLEAN /\ ~published
  BY <1>1 DEF InTable
<1> QED
  BY <1>1, <1>4, <1>5, <1>6 DEF AppInv

LEMMA AppStep == Control /\ Control' /\ AppInv /\ [Next]_vars => AppInv'
<1> SUFFICES ASSUME Control, Control', AppInv, [Next]_vars  PROVE AppInv'
  OBVIOUS
<1>1. CASE UNCHANGED vars
  <2>1. UNCHANGED appVars /\ UNCHANGED pc
    BY <1>1 DEF vars
  <2> QED
    BY <2>1, AppElsewhere
<1>2. CASE Next
  <2>1. CASE Environment \/ Watch
    BY <2>1, AppWatch
  <2>2. CASE Create
    BY <2>2, AppCreate
  <2>3. CASE DeleteKey \/ \E r \in Requests : FindKey(r)
    BY <2>3, AppEnters, Identities
  <2>4. CASE \E t \in {Creator, Watcher} : UpdateAppOfflineFileHandle(t)
    BY <2>4, AppUpdate
  <2>5. CASE \/ \E r \in Handlers : Request(r)
             \/ \E t \in Handlers \cup {Recycler} : DereferenceApplication(t) \/ Destroy(t)
    BY <2>5, AppUsers, AppDrops DEF Users
  <2>6. CASE DereferenceAppOfflineHtm(Recycler)
    BY <2>6, AppUsers, Identities DEF Request
  <2> QED
    BY <1>2, <2>1, <2>2, <2>3, <2>4, <2>5, <2>6 DEF Next
<1> QED
  BY <1>1, <1>2

-----------------------------------------------------------------------------
(* The loads that may come.                                                *)

LEMMA LoadedFinite ==
    /\ IsFiniteSet(Loaded) /\ Cardinality(Loaded) \in Nat
    /\ Cardinality(Htms) \in Nat /\ MaxChanges \in Nat
<1>1. Loaded \subseteq Htms
  BY DEF Loaded
<1> QED
  BY <1>1, FileWatcherAssumption, FS_Subset, FS_CardinalityType

LEMMA DueType == \A b : Due(b) \in {0, 1}
BY DEF Due

LEMMA LoadsType == Loads \in Nat
BY DueType DEF Loads

LEMMA LoadsTypeAfter == Loads' \in Nat
BY DueType DEF Loads

\* There is a page for every load.
LEMMA PageLeft ==
    ASSUME LoadInv, Loads >= 1
    PROVE  FreshHtm \in Htms /\ htmRefs[FreshHtm] = 0 /\ contents[FreshHtm] = 0
<1>1. Cardinality(Loaded) <= changes /\ changes <= MaxChanges
  BY LoadsType, LoadedFinite DEF LoadInv
<1>2. Cardinality(Loaded) < Cardinality(Htms)
  BY <1>1, LoadedFinite, FileWatcherAssumption DEF LoadInv
<1>3. Loaded # Htms /\ Loaded \subseteq Htms
  BY <1>2, LoadedFinite DEF Loaded
<1>4. PICK h \in Htms : h \notin Loaded
  BY <1>3
<1>5. htmRefs[h] = 0 /\ contents[h] = 0
  BY <1>4 DEF Loaded
<1> QED
  BY <1>5 DEF FreshHtm

\* A step that loads nothing keeps the bound if it adds no load but by a change.
LEMMA LoadsKept ==
    ASSUME LoadInv, Loaded' = Loaded, NEW n \in {0, 1}, changes' = changes + n,
           changes' <= MaxChanges, Loads' <= Loads + n,
           packet' = "closed" => fStop', recorded' \in {"none", "other", "match"},
           packet' \in {"other", "match", "closed"}
    PROVE  LoadInv'
<1>1. Loads' \in Nat /\ Loads \in Nat
  BY LoadsType, LoadsTypeAfter
<1>2. Cardinality(Loaded') + Loads' <= changes' + 1
  BY <1>1, LoadedFinite DEF LoadInv
<1> QED
  BY <1>2, LoadedFinite DEF LoadInv

\* Whoever moves outside the way to a load leaves the loads alone.
LEMMA LoadsElsewhere ==
    ASSUME LoadInv, Control, NEW t \in Users, NEW l \in Labels, Goto(t, l),
           l \notin {"attributes", "load"},
           \A h \in Htms : (htmRefs'[h] # 0 \/ contents'[h] # 0) <=>
                           (htmRefs[h] # 0 \/ contents[h] # 0),
           UNCHANGED <<recorded, changes>>,
           (packet' = packet /\ (io' = io \/ io' # "queued")) \/ packet' = "closed",
           packet' = "closed" => fStop'
    PROVE  LoadInv'
<1>1. pc'[t] = l /\ \A u \in Threads \ {t} : pc'[u] = pc[u]
  BY GotoFacts, Identities DEF Control
<1>2. pc'[Watcher] = pc[Watcher]
  BY <1>1, Identities
<1>3. pc'[Creator] \in {"attributes", "load"} => pc[Creator] \in {"attributes", "load"}
  BY <1>1, Identities
<1>4. Loads' <= Loads
  <2>1. Due(recorded = "match")' = Due(recorded = "match")
    BY DEF Due
  <2>2. Due(io = "queued" /\ packet = "match")' <= Due(io = "queued" /\ packet = "match")
    BY DEF Due
  <2>3. Due(pc[Watcher] = "handle" /\ packet = "match")' <= Due(pc[Watcher] = "handle" /\ packet = "match")
    BY <1>2 DEF Due
  <2>4. Due(pc[Watcher] \in {"attributes", "load"})' = Due(pc[Watcher] \in {"attributes", "load"})
    BY <1>2 DEF Due
  <2>5. Due(pc[Creator] \in {"attributes", "load"})' <= Due(pc[Creator] \in {"attributes", "load"})
    BY <1>3 DEF Due
  <2> QED
    BY <2>1, <2>2, <2>3, <2>4, <2>5, DueType DEF Loads
<1>5. Loaded' = Loaded
  BY DEF Loaded
<1>6. changes' = changes + 0 /\ changes' <= MaxChanges
  BY LoadedFinite DEF LoadInv
<1>7. Loads' <= Loads + 0
  BY <1>4, LoadsType
<1>8. recorded' \in {"none", "other", "match"} /\ packet' \in {"other", "match", "closed"}
  BY DEF LoadInv
<1> QED
  BY <1>5, <1>6, <1>7, <1>8, LoadsKept

LEMMA LoadEnvironment ==
    ASSUME LoadInv, EntryInv, Environment
    PROVE  LoadInv'
<1>1. UNCHANGED <<pc, htmRefs, contents, fStop>> /\ Loaded' = Loaded
  BY DEF Environment, DirectoryChange, OtherChange, Notify, entryVars, pageVars, Loaded
<1>2. changes \in Nat /\ Loads \in Nat /\ changes <= MaxChanges
  BY LoadedFinite, LoadsType DEF LoadInv
<1>3. CASE DirectoryChange
  <2>1. /\ changes' = changes + 1 /\ changes' <= MaxChanges
        /\ recorded' \in {recorded, "match"} /\ UNCHANGED <<io, packet>>
    BY <1>2, <1>3, LoadedFinite DEF DirectoryChange, LoadInv
  <2>2. Loads' <= Loads + 1
    <3>1. Due(recorded = "match")' <= Due(recorded = "match") + 1
      BY DueType DEF Due
    <3>2. /\ Due(io = "queued" /\ packet = "match")' = Due(io = "queued" /\ packet = "match")
          /\ Due(pc[Watcher] = "handle" /\ packet = "match")' = Due(pc[Watcher] = "handle" /\ packet = "match")
          /\ Due(pc[Watcher] \in {"attributes", "load"})' = Due(pc[Watcher] \in {"attributes", "load"})
          /\ Due(pc[Creator] \in {"attributes", "load"})' = Due(pc[Creator] \in {"attributes", "load"})
      BY <1>1, <2>1
    <3> QED
      BY <3>1, <3>2, DueType DEF Loads
  <2>3. (packet' = "closed" => fStop') /\ recorded' \in {"none", "other", "match"}
        /\ packet' \in {"other", "match", "closed"}
    BY <1>1, <2>1 DEF LoadInv
  <2> QED
    BY <1>1, <2>1, <2>2, <2>3, LoadsKept
<1>4. CASE OtherChange
  <2>1. recorded = "none" /\ recorded' = "other" /\ changes' = changes + 0 /\ UNCHANGED <<io, packet>>
    BY <1>2, <1>4 DEF OtherChange, fileVars
  <2>2. Loads' <= Loads + 0
    BY <1>1, <1>2, <2>1 DEF Loads
  <2>3. (packet' = "closed" => fStop') /\ packet' \in {"other", "match", "closed"}
        /\ recorded' \in {"none", "other", "match"} /\ changes' <= MaxChanges
    BY <1>1, <1>2, <2>1 DEF LoadInv
  <2> QED
    BY <1>1, <2>1, <2>2, <2>3, LoadsKept
<1>5. CASE Notify
  <2>1. /\ io = "pending" /\ recorded # "none" /\ recorded' = "none" /\ io' = "queued"
        /\ packet' = recorded /\ changes' = changes + 0
    BY <1>2, <1>5 DEF Notify, fileVars
  <2>2. pc[Watcher] = "wait"
    BY <2>1 DEF EntryInv, OneOperation
  <2>3. Loads' <= Loads + 0
    <3>1. Due(recorded = "match")' = 0 /\ Due(io = "queued" /\ packet = "match") = 0
      BY <2>1 DEF Due
    <3>2. Due(io = "queued" /\ packet = "match")' = Due(recorded = "match")
      BY <2>1 DEF Due
    <3>3. /\ Due(pc[Watcher] = "handle" /\ packet = "match")' = Due(pc[Watcher] = "handle" /\ packet = "match")
          /\ Due(pc[Watcher] \in {"attributes", "load"})' = Due(pc[Watcher] \in {"attributes", "load"})
          /\ Due(pc[Creator] \in {"attributes", "load"})' = Due(pc[Creator] \in {"attributes", "load"})
      BY <1>1, <2>2 DEF Due
    <3> QED
      BY <3>1, <3>2, <3>3, DueType DEF Loads
  <2>4. packet' # "closed" /\ packet' \in {"other", "match", "closed"}
        /\ recorded' \in {"none", "other", "match"} /\ changes' <= MaxChanges
    BY <1>2, <2>1 DEF LoadInv
  <2> QED
    BY <1>1, <2>1, <2>3, <2>4, LoadsKept
<1> QED
  BY <1>3, <1>4, <1>5 DEF Environment

\* The completion routine passes the load on: from the packet to the thread.
LEMMA LoadWatch ==
    ASSUME LoadInv, EntryInv, Watch
    PROVE  LoadInv'
<1>1. UNCHANGED <<htmRefs, contents, fStop, recorded, packet, changes>> /\ Loaded' = Loaded
  BY DEF Watch, CompletionRoutine, HandleChangeCompletion, HandleChangeCompletionEnd,
         QueryIsValid, Rearm, Monitor, DereferenceFileWatcherEntry,
         fileVars, osVars, entryVars, pageVars, Loaded
<1>2. /\ changes \in Nat /\ Loads \in Nat /\ changes <= MaxChanges /\ changes' = changes + 0
      /\ (packet' = "closed" => fStop') /\ recorded' \in {"none", "other", "match"}
      /\ packet' \in {"other", "match", "closed"}
  BY <1>1, LoadedFinite, LoadsType DEF LoadInv
<1>3. /\ Due(recorded = "match")' = Due(recorded = "match")
      /\ Due(pc[Creator] \in {"attributes", "load"})' = Due(pc[Creator] \in {"attributes", "load"})
  <2>1. \E l : Goto(Watcher, l)
    BY DEF Watch, CompletionRoutine, HandleChangeCompletion, HandleChangeCompletionEnd,
           QueryIsValid, Rearm, Monitor, DereferenceFileWatcherEntry
  <2>2. pc'[Creator] = pc[Creator]
    BY <2>1, Identities DEF Goto, EntryInv, Control
  <2> QED
    BY <1>1, <2>2
<1>4. ASSUME Due(io = "queued" /\ packet = "match")' + Due(pc[Watcher] = "handle" /\ packet = "match")'
               + Due(pc[Watcher] \in {"attributes", "load"})'
             <= Due(io = "queued" /\ packet = "match") + Due(pc[Watcher] = "handle" /\ packet = "match")
               + Due(pc[Watcher] \in {"attributes", "load"})
      PROVE  LoadInv'
  <2>1. Loads' <= Loads + 0
    BY <1>3, <1>4, DueType DEF Loads
  <2> QED
    BY <1>1, <1>2, <2>1, LoadsKept
<1>5. ASSUME NEW l, Goto(Watcher, l)  PROVE pc'[Watcher] = l
  BY <1>5, Identities DEF Goto, EntryInv, Control
<1>6. CASE CompletionRoutine
  <2>1. pc[Watcher] = "wait" /\ io = "queued" /\ io' = "none" /\ pc'[Watcher] = "handle"
    BY <1>5, <1>6 DEF CompletionRoutine
  <2> QED
    BY <1>1, <1>4, <2>1 DEF Due
<1>7. CASE HandleChangeCompletion
  <2>1. pc[Watcher] = "handle" /\ io' = io
        /\ (pc'[Watcher] = "recheck" \/ (pc'[Watcher] = "attributes" /\ ~fStop /\ packet # "other"))
    BY <1>5, <1>7 DEF HandleChangeCompletion, osVars
  <2>2. pc'[Watcher] = "attributes" => packet = "match"
    BY <2>1 DEF LoadInv
  <2> QED
    BY <1>1, <1>4, <2>1, <2>2 DEF Due
<1>8. CASE \/ HandleChangeCompletionEnd \/ QueryIsValid \/ Rearm
           \/ DereferenceFileWatcherEntry
  <2>1. /\ pc'[Watcher] \in {"recheck", "monitor", "dereference", "wait"}
        /\ io' = io \/ io' \in {"pending", "failed"}
    BY <1>5, <1>8 DEF HandleChangeCompletionEnd, QueryIsValid, Rearm, Monitor,
       DereferenceFileWatcherEntry, osVars
  <2> QED
    BY <1>1, <1>4, <2>1, DueType DEF Due
<1> QED
  BY <1>6, <1>7, <1>8 DEF Watch

\* The ways to a load, and the load itself.
LEMMA LoadUpdate ==
    ASSUME LoadInv, EntryInv, PageTypes, PageInv, NEW t \in {Creator, Watcher},
           UpdateAppOfflineFileHandle(t)
    PROVE  LoadInv'
<1>1. /\ UNCHANGED <<fStop, recorded, packet, io, changes>>
      /\ t \in Threads
  BY Identities DEF UpdateAppOfflineFileHandle, UpdateAttributes, UpdateLoad, UpdateExchange,
         UpdateRelease, fileVars, osVars, entryVars
<1>2. /\ changes \in Nat /\ Loads \in Nat /\ changes <= MaxChanges /\ changes' = changes + 0
      /\ (packet' = "closed" => fStop') /\ recorded' \in {"none", "other", "match"}
      /\ packet' \in {"other", "match", "closed"}
  BY <1>1, LoadedFinite, LoadsType DEF LoadInv
<1> DEFINE mine == Due(pc[t] \in {"attributes", "load"})
           rest == Due(recorded = "match") + Due(io = "queued" /\ packet = "match")
                   + Due(pc[Watcher] = "handle" /\ packet = "match")
                   + Due(t # Watcher /\ pc[Watcher] \in {"attributes", "load"})
                   + Due(t # Creator /\ pc[Creator] \in {"attributes", "load"})
<1>3. /\ Loads = rest + mine /\ Loads' = rest' + mine' /\ rest \in Nat
  <2>1. Creator # Watcher
    BY FileWatcherAssumption
  <2> QED
    BY <2>1, DueType DEF Due, Loads
<1>4. pc[t] \in UpdateSteps /\ \E l \in UpdateSteps : Goto(t, l)
  BY DEF UpdateAppOfflineFileHandle, UpdateAttributes, UpdateLoad, UpdateExchange,
         UpdateRelease, UpdateSteps
<1>5. /\ pc'[t] \in UpdateSteps /\ \A u \in Threads \ {t} : pc'[u] = pc[u]
  BY <1>1, <1>4 DEF Goto, EntryInv, Control
<1>6. rest' = rest
  <2>1. (pc'[Watcher] = "handle") <=> (pc[Watcher] = "handle")
    BY <1>4, <1>5, Identities DEF UpdateSteps
  <2>2. /\ t # Watcher => pc'[Watcher] = pc[Watcher]
        /\ t # Creator => pc'[Creator] = pc[Creator]
    BY <1>5, Identities
  <2> QED
    BY <1>1, <2>1, <2>2 DEF Due
<1>7. CASE UpdateAttributes(t)
  <2>1. mine' <= mine /\ Loaded' = Loaded
    BY <1>7 DEF UpdateAttributes, Due, Loaded
  <2>2. Loads' <= Loads + 0
    BY <1>2, <1>3, <1>6, <2>1, DueType
  <2> QED
    BY <1>1, <1>2, <2>1, <2>2, LoadsKept
<1>8. CASE UpdateLoad(t)
  <2>1. /\ pc[t] = "load" /\ mine = 1
        /\ htmRefs' = [htmRefs EXCEPT ![FreshHtm] = 1]
        /\ \/ \E text \in {file, Unread} :
                 contents' = [contents EXCEPT ![FreshHtm] = text] /\ Goto(t, "exchange")
           \/ contents' = contents /\ Goto(t, "updated")
    BY <1>8 DEF UpdateLoad, Due
  <2>2. mine' = 0
    BY <1>1, <2>1 DEF Due, Goto, EntryInv, Control
  <2>3. Loads >= 1 /\ Loads' = Loads - 1
    BY <1>2, <1>3, <1>6, <2>1, <2>2
  <2>4. FreshHtm \in Htms /\ FreshHtm \notin Loaded
    BY <2>3, PageLeft DEF Loaded
  <2>5. Loaded' \subseteq Loaded \cup {FreshHtm}
    BY <2>1, <2>4 DEF Loaded, PageTypes
  <2>6. Cardinality(Loaded') <= Cardinality(Loaded) + 1 /\ Cardinality(Loaded') \in Nat
    <3>1. /\ IsFiniteSet(Loaded \cup {FreshHtm})
          /\ Cardinality(Loaded \cup {FreshHtm}) = Cardinality(Loaded) + 1
      BY <2>4, LoadedFinite, FS_AddElement
    <3> QED
      BY <2>5, <3>1, FS_Subset, FS_CardinalityType, LoadedFinite
  <2>7. Cardinality(Loaded') + Loads' <= changes' + 1
    BY <1>2, <2>3, <2>6, LoadedFinite DEF LoadInv
  <2> QED
    BY <1>2, <2>7, LoadedFinite DEF LoadInv
<1>9. CASE UpdateExchange(t) \/ UpdateRelease(t)
  <2>1. mine = 0 /\ mine' = 0
    BY <1>1, <1>9 DEF UpdateExchange, UpdateRelease, Due, Goto, EntryInv, Control
  <2>2. Loads' <= Loads + 0
    BY <1>2, <1>3, <1>6, <2>1
  <2>3. Loaded' = Loaded
    <3>1. CASE UpdateExchange(t)
      BY <3>1 DEF UpdateExchange, Loaded
    <3>2. CASE UpdateRelease(t)
      <4>1. /\ pc[t] = "release" /\ htmRefs' = [htmRefs EXCEPT ![htm[t]] = @ - 1]
            /\ contents' = contents
        BY <3>2 DEF UpdateRelease
      <4>2. htm[t] \in Htms /\ contents[htm[t]] # 0
        BY <1>1, <4>1 DEF PageInv, PageTypes
      <4> QED
        BY <4>1, <4>2 DEF Loaded, PageTypes
    <3> QED
      BY <1>9, <3>1, <3>2
  <2> QED
    BY <1>1, <1>2, <2>2, <2>3, LoadsKept
<1> QED
  BY <1>7, <1>8, <1>9 DEF UpdateAppOfflineFileHandle

LEMMA LoadUsers ==
    ASSUME LoadInv, Control, DestructorWaits, PageTypes, PageInv, NEW t \in Users,
           \/ FindKey(t) /\ t \in Requests
           \/ Request(t)
           \/ DeleteKey /\ t = Recycler
           \/ Create /\ t = Creator
           \/ DereferenceApplication(t) \/ Destroy(t)
    PROVE  LoadInv'
<1>1. UNCHANGED <<recorded, changes, contents>> /\ (fStop' = fStop \/ fStop' = TRUE)
  BY DEF FindKey, Request, QueryAppOfflineHtm, ReferenceAppOfflineHtm, Serve,
         DereferenceAppOfflineHtm, DeleteKey, Create, InsertRecord,
         StartMonitoringAppOffline, Arm, Monitor, DereferenceApplication, Destroy,
         MarkEntryInValid, StopMonitor, StopMonitorClose, DeleteApplication,
         fileVars, osVars, entryVars, pageVars
<1>2. PICK l \in Labels \ UpdateSteps : Goto(t, l)
  BY DEF FindKey, Request, QueryAppOfflineHtm, ReferenceAppOfflineHtm, Serve,
         DereferenceAppOfflineHtm, DeleteKey, Create, InsertRecord,
         StartMonitoringAppOffline, Arm, Monitor, DereferenceApplication, Destroy,
         MarkEntryInValid, StopMonitor, StopMonitorClose, DeleteApplication, Labels, UpdateSteps
<1>3. l \notin {"attributes", "load"}
  BY <1>2 DEF UpdateSteps
<1>4. \A h \in Htms : (htmRefs'[h] # 0 \/ contents'[h] # 0) <=>
                      (htmRefs[h] # 0 \/ contents[h] # 0)
  <2>1. CASE htmRefs' = htmRefs
    BY <1>1, <2>1
  <2>2. CASE \E d \in {-1, 1} : htm[t] # None /\ htmRefs' = [htmRefs EXCEPT ![htm[t]] = @ + d]
    <3>1. contents[htm[t]] # 0
      BY <2>2, Identities DEF PageInv
    <3> QED
      BY <1>1, <2>2, <3>1 DEF PageTypes
  <2>3. CASE ReferenceAppOfflineHtm(t) /\ htmRefs' # htmRefs
    <3>1. pc[t] = "reference" /\ htmRefs' = [htmRefs EXCEPT ![htm[t]] = @ + 1]
      BY <2>3 DEF ReferenceAppOfflineHtm
    <3>2. htm[t] # None
      BY <3>1, Identities DEF PageInv
    <3> QED
      BY <2>2, <3>1, <3>2
  <2>4. CASE DereferenceAppOfflineHtm(t) /\ htmRefs' # htmRefs
    <3>1. htm[t] # None /\ htmRefs' = [htmRefs EXCEPT ![htm[t]] = @ - 1]
      BY <2>4 DEF DereferenceAppOfflineHtm
    <3>2. htm[t] \in Htms /\ contents[htm[t]] # 0
      BY <3>1, Identities DEF PageInv, PageTypes
    <3> QED
      BY <1>1, <3>1, <3>2 DEF PageTypes
  <2>5. CASE ~ReferenceAppOfflineHtm(t) /\ ~DereferenceAppOfflineHtm(t)
    <3>1. htmRefs' = htmRefs
      BY <2>5 DEF FindKey, Request, QueryAppOfflineHtm, Serve, DeleteKey, Create,
         InsertRecord, StartMonitoringAppOffline, Arm, DereferenceApplication, Destroy,
         MarkEntryInValid, StopMonitor, StopMonitorClose, DeleteApplication, pageVars
    <3> QED
      BY <2>1, <3>1
  <2> QED
    BY <2>1, <2>3, <2>4, <2>5
<1>5. ((packet' = packet /\ (io' = io \/ io' # "queued")) \/ packet' = "closed")
      /\ (packet' = "closed" => fStop')
  <2>1. CASE StopMonitorClose(t)
    <3>1. pc[t] = "close" /\ fStop' = fStop /\ (packet' = "closed" \/ (packet' = packet /\ io' = io))
      BY <2>1 DEF StopMonitorClose
    <3>2. fStop
      BY <3>1 DEF DestructorWaits
    <3> QED
      BY <3>1, <3>2
  <2>2. CASE ~StopMonitorClose(t)
    <3>1. packet' = packet /\ (io' = io \/ io' # "queued")
      BY <2>2 DEF FindKey, Request, QueryAppOfflineHtm, ReferenceAppOfflineHtm, Serve,
         DereferenceAppOfflineHtm, DeleteKey, Create, InsertRecord,
         StartMonitoringAppOffline, Arm, Monitor, DereferenceApplication, Destroy,
         MarkEntryInValid, StopMonitor, DeleteApplication, osVars
    <3> QED
      BY <1>1, <3>1 DEF LoadInv
  <2> QED
    BY <2>1, <2>2
<1> QED
  BY <1>1, <1>2, <1>3, <1>4, <1>5, LoadsElsewhere

LEMMA LoadInit == Init => LoadInv
<1> SUFFICES ASSUME Init PROVE LoadInv
  OBVIOUS
<1>1. pc = [t \in Threads |-> IF t = Creator THEN "attributes"
                             ELSE IF t = Watcher THEN "wait" ELSE "idle"]
  BY Zenon DEF Init
<1>2. /\ file \in {0, 1} /\ changes = file /\ recorded = "none" /\ io = "none" /\ packet = "other"
      /\ htmRefs = [h \in Htms |-> 0] /\ contents = [h \in Htms |-> 0]
  BY Zenon DEF Init
<1>3. pc[Creator] = "attributes" /\ pc[Watcher] = "wait"
  BY <1>1, Identities, FileWatcherAssumption
<1>4. Loads = 1
  BY <1>2, <1>3 DEF Loads, Due
<1>5. Loaded = {}
  BY <1>2 DEF Loaded
<1>6. Cardinality(Loaded) = 0
  BY <1>5, FS_EmptySet
<1> QED
  BY <1>2, <1>4, <1>6, FileWatcherAssumption DEF LoadInv

LEMMA LoadStep ==
    LoadInv /\ EntryInv /\ DestructorWaits /\ PageTypes /\ PageInv /\ [Next]_vars => LoadInv'
<1> SUFFICES ASSUME LoadInv, EntryInv, DestructorWaits, PageTypes, PageInv, [Next]_vars
             PROVE  LoadInv'
  OBVIOUS
<1>1. Control
  BY DEF EntryInv
<1>2. CASE UNCHANGED vars
  <2>1. UNCHANGED <<changes, recorded, packet, fStop, io, pc, htmRefs, contents>>
    BY <1>2 DEF vars, fileVars, osVars, entryVars, pageVars
  <2>2. Loaded' = Loaded /\ Loads' = Loads
    BY <2>1 DEF Loaded, Loads
  <2> QED
    BY <2>1, <2>2 DEF LoadInv
<1>3. CASE Next
  <2>1. CASE Environment
    BY <2>1, LoadEnvironment
  <2>2. CASE Watch
    BY <2>2, LoadWatch
  <2>3. CASE \E t \in {Creator, Watcher} : UpdateAppOfflineFileHandle(t)
    BY <2>3, LoadUpdate
  <2>4. CASE Create
    BY <1>1, <2>4, LoadUsers, Identities
  <2>5. CASE DeleteKey \/ \E r \in Requests : FindKey(r)
    BY <1>1, <2>5, LoadUsers, Identities
  <2>6. CASE \/ \E r \in Handlers : Request(r)
             \/ \E t \in Handlers \cup {Recycler} : DereferenceApplication(t) \/ Destroy(t)
    BY <1>1, <2>6, LoadUsers DEF Users
  <2>7. CASE DereferenceAppOfflineHtm(Recycler)
    BY <1>1, <2>7, LoadUsers, Identities DEF Request
  <2> QED
    BY <1>3, <2>1, <2>2, <2>3, <2>4, <2>5, <2>6, <2>7 DEF Next
<1> QED
  BY <1>2, <1>3

-----------------------------------------------------------------------------
(* The references of a page.                                               *)

LEMMA PageHoldersFinite ==
    ASSUME NEW h
    PROVE  /\ PageHolders(h) = {t \in Threads : htm[t] = h /\ pc[t] \in PageLabels}
           /\ IsFiniteSet(PageHolders(h)) /\ Cardinality(PageHolders(h)) \in Nat
<1>1. PageHolders(h) = {t \in Threads : htm[t] = h /\ pc[t] \in PageLabels}
  BY DEF PageHolders, PageLabels
<1>2. PageHolders(h) \subseteq Threads
  BY <1>1
<1> QED
  BY <1>1, <1>2, FiniteThreads, FS_Subset, FS_CardinalityType

\* One thread moves: it may come to use the page or leave it.
LEMMA PageHoldersMove ==
    ASSUME NEW h, NEW t \in Threads,
           \A u \in Threads \ {t} : pc'[u] = pc[u] /\ htm'[u] = htm[u]
    PROVE  Cardinality(PageHolders(h)') = Cardinality(PageHolders(h)) + Uses(t, h)' - Uses(t, h)
<1> DEFINE Before == htm[t] = h /\ pc[t] \in PageLabels
           After  == htm'[t] = h /\ pc'[t] \in PageLabels
<1>1. PageHolders(h) = {u \in Threads : htm[u] = h /\ pc[u] \in PageLabels}
  BY PageHoldersFinite
<1>2. PageHolders(h)' = {u \in Threads : htm'[u] = h /\ pc'[u] \in PageLabels}
  BY DEF PageHolders, PageLabels
<1>3. /\ Uses(t, h) = IF Before THEN 1 ELSE 0
      /\ Uses(t, h)' = IF After THEN 1 ELSE 0
  BY DEF Uses
<1>4. CASE After /\ ~Before
  <2>1. PageHolders(h)' = PageHolders(h) \cup {t} /\ t \notin PageHolders(h)
    BY <1>1, <1>2, <1>4
  <2>2. Cardinality(PageHolders(h)') = Cardinality(PageHolders(h)) + 1
    BY <2>1, PageHoldersFinite, FS_AddElement
  <2>3. Uses(t, h) = 0 /\ Uses(t, h)' = 1
    BY <1>3, <1>4
  <2> QED
    BY <2>2, <2>3, PageHoldersFinite
<1>5. CASE ~After /\ Before
  <2>1. PageHolders(h)' = PageHolders(h) \ {t} /\ t \in PageHolders(h)
    BY <1>1, <1>2, <1>5
  <2>2. Cardinality(PageHolders(h)') = Cardinality(PageHolders(h)) - 1
    BY <2>1, PageHoldersFinite, FS_RemoveElement
  <2>3. Uses(t, h) = 1 /\ Uses(t, h)' = 0
    BY <1>3, <1>5
  <2> QED
    BY <2>2, <2>3, PageHoldersFinite
<1>6. CASE After <=> Before
  <2>1. PageHolders(h)' = PageHolders(h)
    BY <1>1, <1>2, <1>6
  <2>2. Uses(t, h)' = Uses(t, h) /\ Uses(t, h) \in {0, 1}
    BY <1>3, <1>6
  <2> QED
    BY <2>1, <2>2, PageHoldersFinite
<1> QED
  BY <1>4, <1>5, <1>6

\* A page nobody has loaded is not pointed to and not held.
LEMMA PageNew ==
    ASSUME PageTypes, PageInv, NEW h \in Htms, contents[h] = 0
    PROVE  Pointed(h) = 0 /\ Cardinality(PageHolders(h)) = 0
<1>1. h # None
  BY FileWatcherAssumption
<1>2. page # h /\ \A t \in Threads : htm[t] # h
  BY <1>1 DEF PageInv
<1>3. PageHolders(h) = {}
  BY <1>2, PageHoldersFinite
<1> QED
  BY <1>2, <1>3, FS_EmptySet DEF Pointed

\* What a step of one thread has to account for.
LEMMA PageMove ==
    ASSUME PageTypes, PageInv, NEW t \in Threads,
           \A u \in Threads \ {t} : pc'[u] = pc[u] /\ htm'[u] = htm[u],
           pc[t] # "fault",
           file' \in Nat, htmRefs' \in [Htms -> Int], contents' \in [Htms -> Nat],
           page' \in Htms \cup {None}, htm' \in [Threads -> Htms \cup {None}],
           \A h \in Htms : contents[h] # 0 => contents'[h] # 0,
           page' # None => contents'[page'] # 0,
           htm'[t] # None =>
               contents'[htm'[t]] # 0 /\ pc'[t] \in PageLabels \cup {"reference", "fault"},
           pc'[t] \in {"exchange", "release", "reference"} => htm'[t] # None,
           pc'[t] # "fault" =>
             \A h \in Htms : contents'[h] # 0 =>
               /\ contents[h] # 0 \/ htmRefs[h] = 0
               /\ htmRefs'[h] + Uses(t, h) + Pointed(h) = htmRefs[h] + Uses(t, h)' + Pointed(h)'
    PROVE  PageTypes' /\ PageInv'
<1>1. PageTypes'
  BY DEF PageTypes
<1>2. \A u \in Threads :
         htm'[u] # None =>
           contents'[htm'[u]] # 0 /\ pc'[u] \in PageLabels \cup {"reference", "fault"}
  <2>1. ASSUME NEW u \in Threads, u # t, htm'[u] # None
        PROVE  contents'[htm'[u]] # 0 /\ pc'[u] \in PageLabels \cup {"reference", "fault"}
    <3>1. htm'[u] = htm[u] /\ pc'[u] = pc[u] /\ htm[u] \in Htms
      BY <2>1 DEF PageTypes
    <3> QED
      BY <2>1, <3>1 DEF PageInv
  <2> QED
    BY <2>1
<1>3. \A u \in Threads : pc'[u] \in {"exchange", "release", "reference"} => htm'[u] # None
  BY DEF PageInv
<1>4. HtmRefsExact'
  <2>1. SUFFICES ASSUME \A u \in Threads : pc'[u] # "fault", NEW h \in Htms, contents'[h] # 0
                 PROVE  htmRefs'[h] = Cardinality(PageHolders(h)') + (IF page' = h THEN 1 ELSE 0)
    BY DEF HtmRefsExact
  <2>2. \A u \in Threads : pc[u] # "fault"
    BY <2>1
  <2>3. htmRefs[h] = Cardinality(PageHolders(h)) + Pointed(h)
    <3>1. CASE contents[h] # 0
      BY <2>2, <3>1 DEF PageInv, HtmRefsExact, Pointed
    <3>2. CASE contents[h] = 0
      BY <2>1, <3>2, PageNew
    <3> QED
      BY <3>1, <3>2
  <2>4. htmRefs'[h] + Uses(t, h) + Pointed(h) = htmRefs[h] + Uses(t, h)' + Pointed(h)'
    BY <2>1
  <2>5. Cardinality(PageHolders(h)') = Cardinality(PageHolders(h)) + Uses(t, h)' - Uses(t, h)
    BY PageHoldersMove
  <2>6. /\ Uses(t, h) \in {0, 1} /\ Pointed(h) \in {0, 1}
        /\ Uses(t, h)' \in {0, 1} /\ Pointed(h)' \in {0, 1}
    BY DEF Uses, Pointed
  <2>7. htmRefs'[h] \in Int /\ htmRefs[h] \in Int
    BY DEF PageTypes
  <2>8. htmRefs'[h] = Cardinality(PageHolders(h)') + Pointed(h)'
    BY <2>3, <2>4, <2>5, <2>6, <2>7, PageHoldersFinite
  <2> QED
    BY <2>8 DEF Pointed
<1> QED
  BY <1>1, <1>2, <1>3, <1>4 DEF PageInv

\* A step that touches no page, of a thread that keeps or has none.
LEMMA PageElsewhere ==
    ASSUME PageTypes, PageInv, pc \in [Threads -> Labels], NEW t \in Threads, NEW l, Goto(t, l),
           UNCHANGED <<file, page, htmRefs, contents, htm>>, pc[t] # "fault",
           \/ htm[t] = None
           \/ pc[t] \notin PageLabels \cup {"reference"}
           \/ l = "fault"
           \/ pc[t] \in PageLabels /\ l \in PageLabels,
           l \notin {"exchange", "release", "reference"}
    PROVE  PageTypes' /\ PageInv'
<1>1. pc'[t] = l /\ \A u \in Threads \ {t} : pc'[u] = pc[u] /\ htm'[u] = htm[u]
  BY DEF Goto
<1>2. htm[t] = None \/ l = "fault" \/ (pc[t] \in PageLabels /\ l \in PageLabels)
  BY DEF PageInv
<1>3. \A h \in Htms : l # "fault" => Uses(t, h)' = Uses(t, h) /\ Pointed(h)' = Pointed(h)
  BY <1>1, <1>2, FileWatcherAssumption DEF Uses, Pointed
<1>4. \A h \in Htms : Uses(t, h) \in {0, 1} /\ Pointed(h) \in {0, 1} /\ htmRefs[h] \in Int
  BY DEF Uses, Pointed, PageTypes
<1>5. pc'[t] # "fault" =>
        \A h \in Htms : contents'[h] # 0 =>
          /\ contents[h] # 0 \/ htmRefs[h] = 0
          /\ htmRefs'[h] + Uses(t, h) + Pointed(h) = htmRefs[h] + Uses(t, h)' + Pointed(h)'
  BY <1>1, <1>3, <1>4
<1>6. htm'[t] # None =>
        contents'[htm'[t]] # 0 /\ pc'[t] \in PageLabels \cup {"reference", "fault"}
  BY <1>1, <1>2 DEF PageInv
<1>7. page' # None => contents'[page'] # 0
  BY DEF PageInv
<1>8. /\ file' \in Nat /\ htmRefs' \in [Htms -> Int] /\ contents' \in [Htms -> Nat]
      /\ page' \in Htms \cup {None} /\ htm' \in [Threads -> Htms \cup {None}]
  BY DEF PageTypes
<1>9. pc'[t] \notin {"exchange", "release", "reference"}
  BY <1>1
<1>10. \A h \in Htms : contents[h] # 0 => contents'[h] # 0
  OBVIOUS
<1> QED
  BY <1>1, <1>5, <1>6, <1>7, <1>8, <1>9, <1>10, PageMove

\* A thread gives up the page it uses.
LEMMA PageReleased ==
    ASSUME PageTypes, PageInv, pc \in [Threads -> Labels], NEW t \in Threads, NEW l, Goto(t, l),
           l \notin {"exchange", "release", "reference", "fault"},
           UNCHANGED <<file, page, contents>>, htm[t] # None, pc[t] \in PageLabels,
           htmRefs' = [htmRefs EXCEPT ![htm[t]] = @ - 1], htm' = [htm EXCEPT ![t] = None]
    PROVE  PageTypes' /\ PageInv'
<1>1. htm[t] \in Htms /\ contents[htm[t]] # 0 /\ None \notin Htms /\ pc[t] # "fault"
  BY FileWatcherAssumption DEF PageInv, PageTypes, PageLabels
<1>2. /\ pc'[t] = l /\ htm'[t] = None
      /\ \A u \in Threads \ {t} : pc'[u] = pc[u] /\ htm'[u] = htm[u]
  BY DEF Goto, PageTypes
<1>3. \A h \in Htms : htmRefs'[h] = IF h = htm[t] THEN htmRefs[h] - 1 ELSE htmRefs[h]
  BY <1>1 DEF PageTypes
<1>4. \A h \in Htms : /\ Uses(t, h)' = 0 /\ Uses(t, h) = (IF h = htm[t] THEN 1 ELSE 0)
                      /\ Pointed(h)' = Pointed(h) /\ Pointed(h) \in {0, 1} /\ htmRefs[h] \in Int
  BY <1>1, <1>2 DEF Uses, Pointed, PageTypes
<1>5. \A h \in Htms : contents'[h] # 0 =>
        /\ contents[h] # 0 \/ htmRefs[h] = 0
        /\ htmRefs'[h] + Uses(t, h) + Pointed(h) = htmRefs[h] + Uses(t, h)' + Pointed(h)'
  BY <1>3, <1>4
<1>6. /\ file' \in Nat /\ htmRefs' \in [Htms -> Int] /\ contents' \in [Htms -> Nat]
      /\ page' \in Htms \cup {None} /\ htm' \in [Threads -> Htms \cup {None}]
  BY <1>1 DEF PageTypes
<1>7. /\ page' # None => contents'[page'] # 0
      /\ \A h \in Htms : contents[h] # 0 => contents'[h] # 0
      /\ pc'[t] \notin {"exchange", "release", "reference"}
  BY <1>2 DEF PageInv
<1> QED
  BY <1>1, <1>2, <1>5, <1>6, <1>7, PageMove

\* A thread that is to load a page is one of the loads.
LEMMA LoadDue ==
    ASSUME NEW t \in {Creator, Watcher}, pc[t] = "load"
    PROVE  Loads >= 1
<1>1. Due(pc[t] \in {"attributes", "load"}) = 1
  BY DEF Due
<1> QED
  BY <1>1, DueType DEF Loads

LEMMA PageUpdate ==
    ASSUME PageTypes, PageInv, LoadInv, pc \in [Threads -> Labels],
           NEW t \in {Creator, Watcher}, UpdateAppOfflineFileHandle(t)
    PROVE  PageTypes' /\ PageInv'
<1>1. t \in Threads /\ file' = file
  BY Identities DEF UpdateAppOfflineFileHandle, UpdateAttributes, UpdateLoad, UpdateExchange,
         UpdateRelease, fileVars
<1>2. None \notin Htms
  BY FileWatcherAssumption
<1>3. CASE UpdateAttributes(t)
  <2>1. /\ pc[t] = "attributes" /\ UNCHANGED <<file, page, htmRefs, contents, htm>>
        /\ \E l \in {"updated", "load"} : Goto(t, l)
    BY <1>1, <1>3 DEF UpdateAttributes
  <2>2. pc[t] \notin PageLabels \cup {"reference", "fault"}
    BY <2>1 DEF PageLabels
  <2> QED
    BY <1>1, <2>1, <2>2, PageElsewhere
<1>4. CASE UpdateLoad(t) /\ pc'[t] = "updated"
  <2> DEFINE h0 == FreshHtm
  <2>1. /\ pc[t] = "load" /\ htmRefs' = [htmRefs EXCEPT ![h0] = 1] /\ page' = page
        /\ contents' = contents /\ htm' = htm /\ pc' = [pc EXCEPT ![t] = "updated"]
    BY <1>1, <1>4 DEF UpdateLoad, Goto
  <2>2. h0 \in Htms /\ htmRefs[h0] = 0 /\ contents[h0] = 0
    BY <2>1, LoadDue, PageLeft
  <2> HIDE DEF h0
  <2>3. htm[t] = None
    BY <1>1, <2>1 DEF PageInv, PageLabels
  <2>4. pc'[t] = "updated"
    BY <1>4
  <2>5. \A h \in Htms : Uses(t, h)' = Uses(t, h) /\ Pointed(h)' = Pointed(h)
    BY <1>2, <1>4, <2>1, <2>3 DEF Uses, Pointed
  <2>6. \A h \in Htms : Uses(t, h) \in {0, 1} /\ Pointed(h) \in {0, 1} /\ htmRefs[h] \in Int
    BY DEF Uses, Pointed, PageTypes
  <2>7. \A h \in Htms : contents'[h] # 0 =>
          /\ contents[h] # 0 \/ htmRefs[h] = 0
          /\ htmRefs'[h] + Uses(t, h) + Pointed(h) = htmRefs[h] + Uses(t, h)' + Pointed(h)'
    BY <1>4, <2>1, <2>2, <2>5, <2>6 DEF PageTypes
  <2>8. /\ file' \in Nat /\ htmRefs' \in [Htms -> Int] /\ contents' \in [Htms -> Nat]
        /\ page' \in Htms \cup {None} /\ htm' \in [Threads -> Htms \cup {None}]
    BY <1>1, <2>1, <2>2 DEF PageTypes
  <2>9. \A u \in Threads \ {t} : pc'[u] = pc[u] /\ htm'[u] = htm[u]
    BY <1>4, <2>1
  <2>10. page' # None => contents'[page'] # 0
    BY <1>4, <2>1 DEF PageInv
  <2>11. /\ pc[t] # "fault" /\ htm'[t] = None /\ pc'[t] \notin {"exchange", "release", "reference"}
         /\ \A h \in Htms : contents[h] # 0 => contents'[h] # 0
    BY <1>4, <2>1, <2>3, <2>4
  <2> QED
    BY <1>1, <2>7, <2>8, <2>9, <2>10, <2>11, PageMove
<1>5. CASE UpdateLoad(t) /\ pc'[t] # "updated"
  <2> DEFINE h0 == FreshHtm
  <2>0. PICK text \in {file, Unread} :
          /\ pc[t] = "load" /\ htmRefs' = [htmRefs EXCEPT ![h0] = 1] /\ page' = page
          /\ file # 0 /\ contents' = [contents EXCEPT ![h0] = text]
          /\ htm' = [htm EXCEPT ![t] = h0] /\ pc' = [pc EXCEPT ![t] = "exchange"]
    BY <1>1, <1>5 DEF UpdateLoad, Goto
  <2>1. /\ pc[t] = "load" /\ htmRefs' = [htmRefs EXCEPT ![h0] = 1] /\ page' = page
        /\ contents' = [contents EXCEPT ![h0] = text] /\ text \in Nat /\ text # 0
        /\ htm' = [htm EXCEPT ![t] = h0] /\ pc' = [pc EXCEPT ![t] = "exchange"]
    BY <2>0, FileWatcherAssumption DEF Unread, PageTypes
  <2>2. h0 \in Htms /\ htmRefs[h0] = 0 /\ contents[h0] = 0
    BY <2>1, LoadDue, PageLeft
  <2> HIDE DEF h0
  <2>3. htm[t] = None
    BY <1>1, <2>1 DEF PageInv, PageLabels
  <2>4. htm'[t] = h0 /\ pc'[t] = "exchange"
        /\ \A u \in Threads \ {t} : pc'[u] = pc[u] /\ htm'[u] = htm[u]
    BY <1>1, <2>1 DEF PageTypes
  <2>5. \A h \in Htms : /\ htmRefs'[h] = IF h = h0 THEN 1 ELSE htmRefs[h]
                        /\ contents'[h] = IF h = h0 THEN text ELSE contents[h]
    BY <2>1, <2>2 DEF PageTypes
  <2>6. \A h \in Htms : /\ Uses(t, h) = 0 /\ Uses(t, h)' = (IF h = h0 THEN 1 ELSE 0)
                        /\ Pointed(h)' = Pointed(h) /\ Pointed(h) \in {0, 1} /\ htmRefs[h] \in Int
    BY <1>2, <2>1, <2>3, <2>4 DEF Uses, Pointed, PageLabels, PageTypes
  <2>7. \A h \in Htms : contents'[h] # 0 =>
          /\ contents[h] # 0 \/ htmRefs[h] = 0
          /\ htmRefs'[h] + Uses(t, h) + Pointed(h) = htmRefs[h] + Uses(t, h)' + Pointed(h)'
    BY <2>2, <2>5, <2>6
  <2>8. /\ file' \in Nat /\ htmRefs' \in [Htms -> Int] /\ contents' \in [Htms -> Nat]
        /\ page' \in Htms \cup {None} /\ htm' \in [Threads -> Htms \cup {None}]
    BY <1>1, <2>1, <2>2 DEF PageTypes
  <2>9. \A h \in Htms : contents[h] # 0 => contents'[h] # 0
    BY <2>1, <2>5
  <2>10. page' # None => contents'[page'] # 0
    BY <2>1, <2>9 DEF PageInv, PageTypes
  <2>11. contents'[h0] # 0 /\ "exchange" \in PageLabels /\ h0 # None
    BY <1>2, <2>1, <2>2, <2>5 DEF PageLabels
  <2>12. pc[t] # "fault"
    BY <2>1
  <2> QED
    BY <1>1, <2>4, <2>7, <2>8, <2>9, <2>10, <2>11, <2>12, PageMove
<1>6. CASE UpdateExchange(t)
  <2>1. /\ pc[t] = "exchange" /\ UNCHANGED <<htmRefs, contents>> /\ page' = htm[t]
        /\ htm' = [htm EXCEPT ![t] = page]
        /\ pc' = [pc EXCEPT ![t] = IF page = None THEN "updated" ELSE "release"]
    BY <1>6 DEF UpdateExchange, Goto
  <2>2. htm[t] \in Htms /\ contents[htm[t]] # 0
    BY <1>1, <2>1 DEF PageInv, PageTypes
  <2>3. /\ htm'[t] = page /\ pc'[t] = IF page = None THEN "updated" ELSE "release"
        /\ \A u \in Threads \ {t} : pc'[u] = pc[u] /\ htm'[u] = htm[u]
    BY <1>1, <2>1 DEF PageTypes
  <2>4. \A h \in Htms : /\ Uses(t, h) = Pointed(h)' /\ Uses(t, h)' = Pointed(h)
                        /\ Pointed(h) \in {0, 1} /\ Pointed(h)' \in {0, 1} /\ htmRefs[h] \in Int
    BY <1>2, <2>1, <2>3 DEF Uses, Pointed, PageLabels, PageTypes
  <2>5. \A h \in Htms : contents'[h] # 0 =>
          /\ contents[h] # 0 \/ htmRefs[h] = 0
          /\ htmRefs'[h] + Uses(t, h) + Pointed(h) = htmRefs[h] + Uses(t, h)' + Pointed(h)'
    BY <2>1, <2>4
  <2>6. /\ file' \in Nat /\ htmRefs' \in [Htms -> Int] /\ contents' \in [Htms -> Nat]
        /\ page' \in Htms \cup {None} /\ htm' \in [Threads -> Htms \cup {None}]
    BY <1>1, <2>1, <2>2 DEF PageTypes
  <2>7. /\ page' # None => contents'[page'] # 0
        /\ htm'[t] # None => contents'[htm'[t]] # 0 /\ pc'[t] \in PageLabels \cup {"reference", "fault"}
        /\ pc'[t] \in {"exchange", "release", "reference"} => htm'[t] # None
        /\ \A h \in Htms : contents[h] # 0 => contents'[h] # 0
        /\ pc[t] # "fault"
    BY <2>1, <2>2, <2>3 DEF PageInv, PageLabels
  <2> QED
    BY <1>1, <2>3, <2>5, <2>6, <2>7, PageMove
<1>7. CASE UpdateRelease(t)
  <2>1. /\ pc[t] = "release" /\ page' = page /\ contents' = contents /\ Goto(t, "updated")
        /\ htmRefs' = [htmRefs EXCEPT ![htm[t]] = @ - 1] /\ htm' = [htm EXCEPT ![t] = None]
    BY <1>7 DEF UpdateRelease
  <2>2. htm[t] # None /\ pc[t] \in PageLabels
    BY <1>1, <2>1 DEF PageInv, PageLabels
  <2> QED
    BY <1>1, <2>1, <2>2, PageReleased
<1> QED
  BY <1>3, <1>4, <1>5, <1>6, <1>7 DEF UpdateAppOfflineFileHandle

LEMMA PageUsers ==
    ASSUME PageTypes, PageInv, pc \in [Threads -> Labels], NEW t \in Users,
           \/ FindKey(t) /\ t \in Requests
           \/ Request(t)
           \/ DeleteKey /\ t = Recycler
           \/ Create /\ t = Creator
           \/ DereferenceApplication(t) \/ Destroy(t)
    PROVE  PageTypes' /\ PageInv'
<1>1. t \in Threads
  BY Identities
<1>2. None \notin Htms
  BY FileWatcherAssumption
<1>3. CASE QueryAppOfflineHtm(t)
  <2>1. /\ pc[t] = "query" /\ UNCHANGED <<file, page, htmRefs, contents>>
        /\ htm' = [htm EXCEPT ![t] = page]
        /\ pc' = [pc EXCEPT ![t] = IF page = None THEN "serve" ELSE "reference"]
    BY <1>3 DEF QueryAppOfflineHtm, Goto, fileVars, pageVars
  <2>2. htm[t] = None
    BY <1>1, <2>1 DEF PageInv, PageLabels
  <2>3. /\ htm'[t] = page /\ pc'[t] = IF page = None THEN "serve" ELSE "reference"
        /\ \A u \in Threads \ {t} : pc'[u] = pc[u] /\ htm'[u] = htm[u]
    BY <1>1, <2>1 DEF PageTypes
  <2>4. \A h \in Htms : /\ Uses(t, h) = 0 /\ Uses(t, h)' = 0
                        /\ Pointed(h)' = Pointed(h) /\ Pointed(h) \in {0, 1} /\ htmRefs[h] \in Int
    BY <1>2, <2>1, <2>2, <2>3 DEF Uses, Pointed, PageLabels, PageTypes
  <2>5. \A h \in Htms : contents'[h] # 0 =>
          /\ contents[h] # 0 \/ htmRefs[h] = 0
          /\ htmRefs'[h] + Uses(t, h) + Pointed(h) = htmRefs[h] + Uses(t, h)' + Pointed(h)'
    BY <2>1, <2>4
  <2>6. /\ file' \in Nat /\ htmRefs' \in [Htms -> Int] /\ contents' \in [Htms -> Nat]
        /\ page' \in Htms \cup {None} /\ htm' \in [Threads -> Htms \cup {None}]
    BY <1>1, <2>1 DEF PageTypes
  <2>7. /\ page' # None => contents'[page'] # 0
        /\ htm'[t] # None => contents'[htm'[t]] # 0 /\ pc'[t] \in PageLabels \cup {"reference", "fault"}
        /\ pc'[t] \in {"exchange", "release", "reference"} => htm'[t] # None
        /\ \A h \in Htms : contents[h] # 0 => contents'[h] # 0
        /\ pc[t] # "fault"
    BY <2>1, <2>3 DEF PageInv
  <2> QED
    BY <1>1, <2>3, <2>5, <2>6, <2>7, PageMove
<1>4. CASE ReferenceAppOfflineHtm(t) /\ htmRefs[htm[t]] = 0
  <2>1. /\ pc[t] = "reference" /\ UNCHANGED <<file, page, htmRefs, contents, htm>> /\ Goto(t, "fault")
    BY <1>4 DEF ReferenceAppOfflineHtm, fileVars
  <2> QED
    BY <1>1, <2>1, PageElsewhere
<1>5. CASE ReferenceAppOfflineHtm(t) /\ htmRefs[htm[t]] # 0
  <2>1. /\ pc[t] = "reference" /\ UNCHANGED <<file, page, contents, htm>>
        /\ htmRefs' = [htmRefs EXCEPT ![htm[t]] = @ + 1]
        /\ pc' = [pc EXCEPT ![t] = "serve"]
    BY <1>5 DEF ReferenceAppOfflineHtm, Goto, fileVars
  <2>2. htm[t] \in Htms /\ contents[htm[t]] # 0
    BY <1>1, <2>1 DEF PageInv, PageTypes
  <2>3. pc'[t] = "serve" /\ \A u \in Threads \ {t} : pc'[u] = pc[u] /\ htm'[u] = htm[u]
    BY <1>1, <2>1
  <2>4. \A h \in Htms : htmRefs'[h] = IF h = htm[t] THEN htmRefs[h] + 1 ELSE htmRefs[h]
    BY <2>1, <2>2 DEF PageTypes
  <2>5. \A h \in Htms : /\ Uses(t, h) = 0 /\ Uses(t, h)' = (IF h = htm[t] THEN 1 ELSE 0)
                        /\ Pointed(h)' = Pointed(h) /\ Pointed(h) \in {0, 1} /\ htmRefs[h] \in Int
    BY <2>1, <2>3 DEF Uses, Pointed, PageLabels, PageTypes
  <2>6. \A h \in Htms : contents'[h] # 0 =>
          /\ contents[h] # 0 \/ htmRefs[h] = 0
          /\ htmRefs'[h] + Uses(t, h) + Pointed(h) = htmRefs[h] + Uses(t, h)' + Pointed(h)'
    BY <2>1, <2>4, <2>5
  <2>7. /\ file' \in Nat /\ htmRefs' \in [Htms -> Int] /\ contents' \in [Htms -> Nat]
        /\ page' \in Htms \cup {None} /\ htm' \in [Threads -> Htms \cup {None}]
    BY <2>1, <2>2 DEF PageTypes
  <2>8. /\ page' # None => contents'[page'] # 0
        /\ htm'[t] # None => contents'[htm'[t]] # 0 /\ pc'[t] \in PageLabels \cup {"reference", "fault"}
        /\ pc'[t] \notin {"exchange", "release", "reference"}
        /\ \A h \in Htms : contents[h] # 0 => contents'[h] # 0
        /\ pc[t] # "fault"
    BY <2>1, <2>2, <2>3 DEF PageInv, PageLabels
  <2> QED
    BY <1>1, <2>3, <2>6, <2>7, <2>8, PageMove
<1>6. CASE DereferenceAppOfflineHtm(t) /\ htm[t] # None
  <2>1. /\ pc[t] = "dropHtm" /\ UNCHANGED <<file, page, contents>> /\ Goto(t, "idle")
        /\ htmRefs' = [htmRefs EXCEPT ![htm[t]] = @ - 1] /\ htm' = [htm EXCEPT ![t] = None]
    BY <1>6 DEF DereferenceAppOfflineHtm, fileVars
  <2>2. pc[t] \in PageLabels
    BY <2>1 DEF PageLabels
  <2> QED
    BY <1>1, <1>6, <2>1, <2>2, PageReleased
<1>7. CASE DereferenceAppOfflineHtm(t) /\ htm[t] = None
  <2>1. /\ pc[t] = "dropHtm" /\ UNCHANGED <<file, page, contents, htmRefs>> /\ Goto(t, "idle")
        /\ htm' = [htm EXCEPT ![t] = None]
    BY <1>7 DEF DereferenceAppOfflineHtm, fileVars
  <2>2. htm' = htm
    BY <1>1, <1>7, <2>1 DEF PageTypes
  <2> QED
    BY <1>1, <1>7, <2>1, <2>2, PageElsewhere
<1>8. CASE FindKey(t) \/ (DeleteKey /\ t = Recycler) \/ (Create /\ t = Creator)
  <2>1. /\ UNCHANGED <<file, page, htmRefs, contents, htm>>
        /\ pc[t] \in {"idle", "updated", "create", "armWatch"}
        /\ \E l \in {"query", "dropApplication", "create", "armWatch"} : Goto(t, l)
    BY <1>8 DEF FindKey, DeleteKey, Create, InsertRecord, StartMonitoringAppOffline, Arm, Monitor,
       fileVars, pageVars
  <2>2. pc[t] \notin PageLabels \cup {"reference", "fault"}
    BY <2>1 DEF PageLabels
  <2> QED
    BY <1>1, <2>1, <2>2, PageElsewhere
<1>9. CASE Serve(t) \/ DereferenceApplication(t) \/ Destroy(t)
  <2>1. /\ UNCHANGED <<file, page, htmRefs, contents, htm>>
        /\ pc[t] \in {"serve", "dropApplication", "mark", "stop", "close", "delete"}
        /\ \E l \in {"dropApplication", "mark", "dropHtm", "stop", "close", "delete", "fault"} :
              Goto(t, l)
    BY <1>9 DEF Serve, DereferenceApplication, Destroy, MarkEntryInValid, StopMonitor,
       StopMonitorClose, DeleteApplication, fileVars, pageVars
  <2>2. PICK l \in {"dropApplication", "mark", "dropHtm", "stop", "close", "delete", "fault"} :
              Goto(t, l)
    BY <2>1
  <2>3. /\ pc[t] \in PageLabels /\ pc[t] # "fault" /\ l \in PageLabels \cup {"fault"}
        /\ l \notin {"exchange", "release", "reference"}
    BY <2>1 DEF PageLabels
  <2> QED
    BY <1>1, <2>1, <2>2, <2>3, PageElsewhere
<1>10. CASE Request(t)
  BY <1>3, <1>4, <1>5, <1>6, <1>7, <1>9, <1>10 DEF Request
<1> QED
  BY <1>8, <1>9, <1>10

\* The environment, and the steps of the watcher's thread that read no file.
LEMMA PageWatch ==
    ASSUME PageTypes, PageInv, pc \in [Threads -> Labels], Watch
    PROVE  PageTypes' /\ PageInv'
<1>1. /\ UNCHANGED <<file, page, htmRefs, contents, htm>>
      /\ pc[Watcher] \in {"wait", "handle", "updated", "recheck", "monitor", "dereference"}
      /\ \E l \in {"handle", "attributes", "recheck", "monitor", "wait", "dereference"} :
            Goto(Watcher, l)
  BY DEF Watch, CompletionRoutine, HandleChangeCompletion, HandleChangeCompletionEnd,
         QueryIsValid, Rearm, Monitor, DereferenceFileWatcherEntry, fileVars, pageVars
<1>2. pc[Watcher] \notin PageLabels \cup {"reference", "fault"}
  BY <1>1 DEF PageLabels
<1> QED
  BY <1>1, <1>2, Identities, PageElsewhere

LEMMA PageStill ==
    ASSUME PageTypes, PageInv, file' \in Nat, UNCHANGED <<page, htmRefs, contents, pc, htm>>
    PROVE  PageTypes' /\ PageInv'
<1>1. \A h : PageHolders(h)' = PageHolders(h)
  BY PageHoldersFinite DEF PageHolders
<1>2. HtmRefsExact'
  BY <1>1 DEF PageInv, HtmRefsExact
<1> QED
  BY <1>2 DEF PageTypes, PageInv

LEMMA PageStep ==
    LoadInv /\ Control /\ PageTypes /\ PageInv /\ [Next]_vars => PageTypes' /\ PageInv'
<1> SUFFICES ASSUME LoadInv, Control, PageTypes, PageInv, [Next]_vars
             PROVE  PageTypes' /\ PageInv'
  OBVIOUS
<1>1. pc \in [Threads -> Labels]
  BY DEF Control
<1>2. CASE UNCHANGED vars \/ Environment
  <2>1. UNCHANGED <<page, htmRefs, contents, pc, htm>>
    BY <1>2 DEF vars, Environment, DirectoryChange, OtherChange, Notify, pageVars
  <2>2. file' \in Nat
    <3>1. file \in Nat /\ changes \in Nat
      BY LoadedFinite DEF PageTypes, LoadInv
    <3> QED
      BY <1>2, <3>1 DEF vars, Environment, DirectoryChange, OtherChange, Notify, fileVars
  <2> QED
    BY <2>1, <2>2, PageStill
<1>3. CASE Next /\ ~Environment
  <2>1. CASE Watch
    BY <1>1, <2>1, PageWatch
  <2>2. CASE \E t \in {Creator, Watcher} : UpdateAppOfflineFileHandle(t)
    BY <1>1, <2>2, PageUpdate
  <2>3. CASE Create
    BY <1>1, <2>3, PageUsers, Identities
  <2>4. CASE DeleteKey \/ \E r \in Requests : FindKey(r)
    BY <1>1, <2>4, PageUsers, Identities
  <2>5. CASE \/ \E r \in Handlers : Request(r)
             \/ \E t \in Handlers \cup {Recycler} : DereferenceApplication(t) \/ Destroy(t)
    BY <1>1, <2>5, PageUsers DEF Users
  <2>6. CASE DereferenceAppOfflineHtm(Recycler)
    BY <1>1, <2>6, PageUsers, Identities DEF Request
  <2> QED
    BY <1>3, <2>1, <2>2, <2>3, <2>4, <2>5, <2>6 DEF Next
<1> QED
  BY <1>2, <1>3

LEMMA PageInit == Init => PageTypes /\ PageInv
<1> SUFFICES ASSUME Init PROVE PageTypes /\ PageInv
  OBVIOUS
<1>1. pc = [t \in Threads |-> IF t = Creator THEN "attributes"
                             ELSE IF t = Watcher THEN "wait" ELSE "idle"]
  BY Zenon DEF Init
<1>2. /\ file \in {0, 1} /\ page = None /\ htm = [t \in Threads |-> None]
      /\ htmRefs = [h \in Htms |-> 0] /\ contents = [h \in Htms |-> 0]
  BY Zenon DEF Init
<1>3. PageTypes
  BY <1>2 DEF PageTypes
<1>4. HtmRefsExact
  BY <1>2 DEF HtmRefsExact
<1>5. \A t \in Threads : pc[t] \notin {"exchange", "release", "reference"} /\ htm[t] = None
  BY <1>1, <1>2
<1> QED
  BY <1>2, <1>3, <1>4, <1>5 DEF PageInv

-----------------------------------------------------------------------------
\* Only one thread is in the destructor.
LEMMA OneDestructor ==
    ASSUME AppInv
    PROVE  Cardinality({t \in Threads : pc[t] \in {"mark", "stop", "close", "delete"}}) <= 1
<1> DEFINE D == {t \in Threads : pc[t] \in {"mark", "stop", "close", "delete"}}
<1>1. \A t, u \in D : t = u
  BY DEF AppInv, DestroyLabels
<1>2. CASE D = {}
  BY <1>2, FS_EmptySet
<1>3. CASE D # {}
  <2>1. PICK t : t \in D
    BY <1>3
  <2>2. D = {} \cup {t}
    BY <1>1, <2>1
  <2>3. Cardinality({} \cup {t}) = Cardinality({}) + 1
    BY FS_EmptySet, FS_AddElement
  <2> QED
    BY <2>2, <2>3, FS_EmptySet
<1> QED
  BY <1>2, <1>3

\* While no request has used a deleted page: the application is referenced by
\* the hash table and by every thread that works on it, and by nobody else, so
\* that whoever drops the last reference is alone with it; and each page by the
\* application's pointer and by the requests that serve it.
THEOREM SharedRefsExactTheorem == Spec => []SharedRefsExact
<1> DEFINE Inv == EntryInv /\ DestructorWaits /\ AppInv /\ LoadInv /\ PageTypes /\ PageInv
<1>1. Init => Inv
  BY EntryInit, WaitsInit, AppInit, LoadInit, PageInit
<1>2. Inv /\ [Next]_vars => Inv'
  <2> SUFFICES ASSUME Inv, [Next]_vars PROVE Inv'
    OBVIOUS
  <2>1. EntryInv'
    BY EntryStep
  <2>2. Control /\ Control'
    BY <2>1 DEF EntryInv
  <2> QED
    BY <2>1, <2>2, WaitsStep, AppStep, LoadStep, PageStep
<1>3. Inv => SharedRefsExact
  <2> SUFFICES ASSUME Inv PROVE SharedRefsExact
    OBVIOUS
  <2>1. AppRefsExact
    BY OneDestructor DEF AppInv, AppRefsExact, NoFault, InTable
  <2> QED
    BY <2>1 DEF PageInv, SharedRefsExact
<1> QED
  BY <1>1, <1>2, <1>3, PTL DEF Spec

=============================================================================
