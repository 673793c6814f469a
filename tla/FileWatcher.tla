----------------------------- MODULE FileWatcher -----------------------------
(***************************************************************************)
(* One APPLICATION, its FILE_WATCHER_ENTRY and its APP_OFFLINE_HTM pages.  *)
(*                                                                         *)
(* The request that creates the application looks for app_offline.htm,     *)
(* publishes the application and then starts to watch its directory.  The  *)
(* watcher's thread takes change notifications from a completion port,     *)
(* reloads the page under the entry's lock and arms the watch again.       *)
(* Requests read the page pointer with no lock.  Whoever drops the last    *)
(* reference of the application runs its destructor, which stops the watch *)
(* and leaves the entry to delete itself on the watcher's thread.          *)
(***************************************************************************)
EXTENDS Integers, FiniteSets

CONSTANTS
    Requests,   \* requests other than the one that creates the application
    Creator,    \* the request that creates it
    Recycler,   \* the thread in RecycleApplication
    Watcher,    \* ChangeNotificationThread
    Htms,       \* identities of APP_OFFLINE_HTM objects, never reused
    MaxChanges, \* bounds the changes of the directory that match the file name
    MayFail,    \* system calls on the directory and the file may fail
    None

ASSUME FileWatcherAssumption ==
    /\ IsFiniteSet(Requests) /\ IsFiniteSet(Htms)
    /\ {Creator, Recycler, Watcher} \cap Requests = {}
    /\ Creator # Recycler /\ Creator # Watcher /\ Recycler # Watcher
    /\ MaxChanges \in Nat \ {0} /\ MayFail \in BOOLEAN
    /\ Cardinality(Htms) > MaxChanges   \* so that a load is never blocked
    /\ None \notin Htms \cup Requests \cup {Creator, Recycler, Watcher}

VARIABLES
    file,       \* app_offline.htm: 0 if absent, else its version
    changes,    \* matching changes of the directory so far
    seen,       \* the last change of the file fell into the watch
    armed,      \* ReadDirectoryChangesW has succeeded once on the open handle:
                \* from then on the system records changes between calls
    recorded,   \* what it has recorded: "none", "other" or "match"
    io,         \* the entry's one OVERLAPPED: "none", "pending", "queued" (its
                \* completion is in the port), "failed" (the call failed)
    packet,     \* what a queued completion says: "other", "match" or "closed"
    hDirectory, \* _hDirectory is open
    entry,      \* the FILE_WATCHER_ENTRY: "allocated" or "deleted"
    cRefs,      \* its _cRefs
    fIsValid,   \* its _fIsValid
    fStop,      \* its _lStopMonitorCalled
    lock,       \* the holder of its _srwLock
    page,       \* APPLICATION::m_pAppOfflineHtm
    fFound,     \* APPLICATION::m_fAppOfflineFound
    htmRefs,    \* APP_OFFLINE_HTM::m_cRefs
    contents,   \* APP_OFFLINE_HTM::m_Contents: the version that was read, or Unread
    published,  \* the application is in the hash table
    appRefs,    \* APPLICATION::m_cRefs
    app,        \* the APPLICATION: "allocated" or "deleted"
    pc,         \* where each thread is
    htm         \* the page a thread holds or is about to reference or release

fileVars  == <<file, changes, seen>>
osVars    == <<armed, recorded, io, packet>>
entryVars == <<hDirectory, entry, cRefs, fIsValid, fStop, lock>>
pageVars  == <<page, fFound, htmRefs, contents>>
appVars   == <<published, appRefs, app>>
vars == <<fileVars, osVars, entryVars, pageVars, appVars, pc, htm>>

Handlers == Requests \cup {Creator}
Threads  == Handlers \cup {Recycler, Watcher}

Init ==
    /\ file \in {0, 1} /\ changes = file /\ seen = FALSE
    /\ armed = FALSE /\ recorded = "none" /\ io = "none" /\ packet = "other"
    /\ hDirectory = FALSE /\ entry = "allocated" /\ cRefs = 1
    /\ fIsValid = TRUE /\ fStop = FALSE /\ lock = None
    /\ page = None /\ fFound = FALSE
    /\ htmRefs = [h \in Htms |-> 0] /\ contents = [h \in Htms |-> 0]
    /\ published = FALSE /\ appRefs = 1 /\ app = "allocated"
    /\ pc = [t \in Threads |-> IF t = Creator THEN "attributes"
                              ELSE IF t = Watcher THEN "wait" ELSE "idle"]
    /\ htm = [t \in Threads |-> None]

\* Where threads are: updating the page; as requests; in the destructor; and
\* on the watcher's thread.
UpdateSteps == {"attributes", "load", "exchange", "release", "updated"}
Labels ==
    UpdateSteps
      \cup {"idle", "create", "armWatch", "query", "reference", "serve", "dropApplication",
            "dropHtm", "fault"}
      \cup {"mark", "stop", "close", "delete"}
      \cup {"wait", "handle", "recheck", "monitor", "dereference"}

Goto(t, l) == pc' = [pc EXCEPT ![t] = l]

\* A page never allocated so far; a deleted one keeps its contents.
FreshHtm == CHOOSE h \in Htms : htmRefs[h] = 0 /\ contents[h] = 0

-----------------------------------------------------------------------------
(* The directory.                                                          *)

\* The file is created, written or deleted, or something else happens that
\* the completion routine takes for that (an overflow of the buffer, a file
\* whose name is a prefix).  The system records it once the watch is armed.
DirectoryChange ==
    /\ changes < MaxChanges /\ changes' = changes + 1
    /\ file' \in {0, file, changes + 1}
    /\ seen' = IF file' = file THEN seen ELSE armed /\ hDirectory
    /\ recorded' = IF armed /\ hDirectory THEN "match" ELSE recorded
    /\ UNCHANGED <<armed, io, packet, entryVars, pageVars, appVars, pc, htm>>

\* Another file of the directory changes.
OtherChange ==
    /\ armed /\ hDirectory /\ recorded = "none" /\ recorded' = "other"
    /\ UNCHANGED <<fileVars, armed, io, packet, entryVars, pageVars, appVars, pc, htm>>

\* A pending ReadDirectoryChangesW completes with what was recorded.
Notify ==
    /\ io = "pending" /\ recorded # "none"
    /\ io' = "queued" /\ packet' = recorded /\ recorded' = "none"
    /\ UNCHANGED <<fileVars, armed, entryVars, pageVars, appVars, pc, htm>>

-----------------------------------------------------------------------------
(* UpdateAppOfflineFileHandle, on the creator's thread before the          *)
(* application is published and on the watcher's under the entry's lock.   *)

\* Only "file not found" counts as absent; any other error as found.
UpdateAttributes(t) ==
    /\ pc[t] = "attributes"
    /\ \/ file = 0 /\ fFound' = FALSE /\ Goto(t, "updated")
       \/ (file # 0 \/ MayFail) /\ fFound' = TRUE /\ Goto(t, "load")
    /\ UNCHANGED <<fileVars, osVars, entryVars, page, htmRefs, contents, appVars, htm>>

\* What a page says whose file was opened but not read: nothing.
Unread == MaxChanges + 1

\* Load fails if the file cannot be opened or sized; that it is too long or
\* cannot be read leaves the page empty.  A new object that cannot load the
\* file is dropped without a dereference.
UpdateLoad(t) ==
    /\ pc[t] = "load"
    /\ LET h == FreshHtm IN
         /\ htmRefs' = [htmRefs EXCEPT ![h] = 1]
         /\ \/ /\ file # 0
               /\ \E text \in IF MayFail THEN {file, Unread} ELSE {file} :
                     contents' = [contents EXCEPT ![h] = text]
               /\ htm' = [htm EXCEPT ![t] = h] /\ Goto(t, "exchange")
            \/ /\ file = 0 \/ MayFail
               /\ Goto(t, "updated") /\ UNCHANGED <<contents, htm>>
    /\ UNCHANGED <<fileVars, osVars, entryVars, page, fFound, appVars>>

\* InterlockedExchangePointer; then the processes are told to shut down,
\* which may take seconds (ProcessManager).
UpdateExchange(t) ==
    /\ pc[t] = "exchange"
    /\ page' = htm[t] /\ htm' = [htm EXCEPT ![t] = page]
    /\ Goto(t, IF page = None THEN "updated" ELSE "release")
    /\ UNCHANGED <<fileVars, osVars, entryVars, fFound, htmRefs, contents, appVars>>

\* Mutant: the page that was replaced keeps the reference of the pointer.
UpdateRelease_Leaks(t) ==
    /\ pc[t] = "release" /\ t \in {Creator, Watcher}
    /\ htm' = [htm EXCEPT ![t] = None] /\ Goto(t, "updated")
    /\ UNCHANGED <<fileVars, osVars, entryVars, pageVars, appVars>>

UpdateRelease(t) ==
    /\ pc[t] = "release"
    /\ htmRefs' = [htmRefs EXCEPT ![htm[t]] = @ - 1]
    /\ htm' = [htm EXCEPT ![t] = None] /\ Goto(t, "updated")
    /\ UNCHANGED <<fileVars, osVars, entryVars, page, fFound, contents, appVars>>

UpdateAppOfflineFileHandle(t) ==
    UpdateAttributes(t) \/ UpdateLoad(t) \/ UpdateExchange(t) \/ UpdateRelease(t)

-----------------------------------------------------------------------------
(* The watcher's thread and the entry.                                     *)

\* Mutant: the pending operation holds no reference.
Monitor_NoReference(t, next) ==
    /\ lock = None /\ io' = IF hDirectory THEN "pending" ELSE "failed"
    /\ armed' = (armed \/ hDirectory) /\ cRefs' = cRefs /\ Goto(t, next)
    /\ UNCHANGED <<recorded, packet>>

\* Under the lock: reference, then ReadDirectoryChangesW.  A call that fails
\* (on a closed handle it must) keeps the reference.
Monitor(t, next) ==
    /\ lock = None
    /\ cRefs' = cRefs + 1
    /\ \/ hDirectory /\ io' = "pending" /\ armed' = TRUE
       \/ (~hDirectory \/ MayFail) /\ io' = "failed" /\ UNCHANGED armed
    /\ Goto(t, next)
    /\ UNCHANGED <<recorded, packet>>

\* The completion routine drops the reference of the finished operation.
CompletionRoutine ==
    /\ pc[Watcher] = "wait" /\ io = "queued"
    /\ io' = "none" /\ cRefs' = cRefs - 1
    /\ entry' = IF cRefs = 1 THEN "deleted" ELSE entry
    /\ Goto(Watcher, "handle")
    /\ UNCHANGED <<fileVars, armed, recorded, packet, hDirectory, fIsValid, fStop, lock,
                   pageVars, appVars, htm>>

\* HandleChangeCompletion up to the decision; the lock is kept for an update.
HandleChangeCompletion ==
    /\ pc[Watcher] = "handle" /\ lock = None
    /\ IF fIsValid /\ ~fStop /\ packet # "other"
       THEN Goto(Watcher, "attributes") /\ lock' = Watcher
       ELSE Goto(Watcher, "recheck") /\ UNCHANGED lock
    /\ UNCHANGED <<fileVars, osVars, hDirectory, entry, cRefs, fIsValid, fStop,
                   pageVars, appVars, htm>>

HandleChangeCompletionEnd ==
    /\ pc[Watcher] = "updated"
    /\ lock' = None /\ Goto(Watcher, "recheck")
    /\ UNCHANGED <<fileVars, osVars, hDirectory, entry, cRefs, fIsValid, fStop,
                   pageVars, appVars, htm>>

\* Mutant: an entry that was told to stop is not deleted.
QueryIsValid_Forgets ==
    /\ pc[Watcher] = "recheck"
    /\ Goto(Watcher, IF fIsValid THEN "monitor" ELSE "wait")
    /\ UNCHANGED <<fileVars, osVars, entryVars, pageVars, appVars, htm>>

QueryIsValid ==
    /\ pc[Watcher] = "recheck"
    /\ Goto(Watcher, IF fIsValid THEN "monitor" ELSE "dereference")
    /\ UNCHANGED <<fileVars, osVars, entryVars, pageVars, appVars, htm>>

\* Mutant: the watch is armed again only after a change of the file itself.
Rearm_OnMatch ==
    /\ pc[Watcher] = "monitor"
    /\ IF packet = "match"
       THEN Monitor(Watcher, "wait")
       ELSE Goto(Watcher, "wait") /\ UNCHANGED <<osVars, cRefs>>
    /\ UNCHANGED <<fileVars, hDirectory, entry, fIsValid, fStop, lock, pageVars, appVars, htm>>

Rearm ==
    /\ pc[Watcher] = "monitor" /\ Monitor(Watcher, "wait")
    /\ UNCHANGED <<fileVars, hDirectory, entry, fIsValid, fStop, lock, pageVars, appVars, htm>>

\* The entry deletes itself, closing the directory if it is still open.
DereferenceFileWatcherEntry ==
    /\ pc[Watcher] = "dereference"
    /\ cRefs' = cRefs - 1
    /\ entry' = IF cRefs = 1 THEN "deleted" ELSE entry
    /\ hDirectory' = (hDirectory /\ cRefs # 1)
    /\ Goto(Watcher, "wait")
    /\ UNCHANGED <<fileVars, osVars, fIsValid, fStop, lock, pageVars, appVars, htm>>

-----------------------------------------------------------------------------
(* The application: creation, requests, recycling, destruction.            *)

\* Mutant: the hash table holds no reference of its own.
InsertRecord_NoReference ==
    /\ pc[Creator] = "updated"
    /\ published' = TRUE /\ Goto(Creator, "create")
    /\ UNCHANGED <<fileVars, osVars, entryVars, pageVars, appRefs, app, htm>>

\* Initialize is over; the table references what it holds.  If the insertion
\* fails, the creator drops the application it made.
InsertRecord ==
    /\ pc[Creator] = "updated"
    /\ \/ published' = TRUE /\ appRefs' = appRefs + 1 /\ Goto(Creator, "create")
       \/ MayFail /\ Goto(Creator, "dropApplication") /\ UNCHANGED <<published, appRefs>>
    /\ UNCHANGED <<fileVars, osVars, entryVars, pageVars, app, htm>>

\* FILE_WATCHER_ENTRY::Create opens the directory and arms the watch; when a
\* step before Monitor fails the application lives on unwatched.
StartMonitoringAppOffline ==
    /\ pc[Creator] = "create"
    /\ \/ /\ MayFail /\ hDirectory' \in BOOLEAN
          /\ Goto(Creator, "query") /\ UNCHANGED <<osVars, cRefs>>
       \/ /\ ~hDirectory /\ hDirectory' = TRUE
          /\ Goto(Creator, "armWatch") /\ UNCHANGED <<osVars, cRefs>>
    /\ UNCHANGED <<fileVars, entry, fIsValid, fStop, lock, pageVars, appVars, htm>>

Arm ==
    /\ pc[Creator] = "armWatch" /\ Monitor(Creator, "query")
    /\ UNCHANGED <<fileVars, hDirectory, entry, fIsValid, fStop, lock, pageVars, appVars, htm>>

FindKey(r) ==
    /\ pc[r] = "idle" /\ published
    /\ appRefs' = appRefs + 1 /\ Goto(r, "query")
    /\ UNCHANGED <<fileVars, osVars, entryVars, pageVars, published, app, htm>>

\* The handler copies the pointer, and references the page later.
QueryAppOfflineHtm(r) ==
    /\ pc[r] = "query"
    /\ htm' = [htm EXCEPT ![r] = page]
    /\ Goto(r, IF page = None THEN "serve" ELSE "reference")
    /\ UNCHANGED <<fileVars, osVars, entryVars, pageVars, appVars>>

\* The page may have been deleted since: the thread then writes to freed
\* memory, and the model leaves it there.
ReferenceAppOfflineHtm(r) ==
    /\ pc[r] = "reference"
    /\ IF htmRefs[htm[r]] = 0
       THEN Goto(r, "fault") /\ UNCHANGED htmRefs
       ELSE htmRefs' = [htmRefs EXCEPT ![htm[r]] = @ + 1] /\ Goto(r, "serve")
    /\ UNCHANGED <<fileVars, osVars, entryVars, page, fFound, contents, appVars, htm>>

\* The page is sent, or the request forwarded; the handler is then deleted.
Serve(r) ==
    /\ pc[r] = "serve" /\ Goto(r, "dropApplication")
    /\ UNCHANGED <<fileVars, osVars, entryVars, pageVars, appVars, htm>>

DereferenceAppOfflineHtm(r) ==
    /\ pc[r] = "dropHtm"
    /\ IF htm[r] = None THEN UNCHANGED htmRefs
       ELSE htmRefs' = [htmRefs EXCEPT ![htm[r]] = @ - 1]
    /\ htm' = [htm EXCEPT ![r] = None]
    /\ Goto(r, "idle")
    /\ UNCHANGED <<fileVars, osVars, entryVars, page, fFound, contents, appVars>>

DeleteKey ==
    /\ pc[Recycler] = "idle" /\ published /\ published' = FALSE
    /\ Goto(Recycler, "dropApplication")
    /\ UNCHANGED <<fileVars, osVars, entryVars, pageVars, appRefs, app, htm>>

\* Whoever drops the last reference destroys the application.
DereferenceApplication(t) ==
    /\ pc[t] = "dropApplication"
    /\ appRefs' = appRefs - 1
    /\ Goto(t, IF appRefs = 1 THEN "mark" ELSE "dropHtm")
    /\ UNCHANGED <<fileVars, osVars, entryVars, pageVars, published, app, htm>>

\* The destructor's accesses to the entry.  Any of them may find it deleted.
MarkEntryInValid(t) ==
    /\ pc[t] = "mark"
    /\ Goto(t, "stop") /\ fIsValid' = FALSE
    /\ UNCHANGED <<fileVars, osVars, hDirectory, entry, cRefs, fStop, lock,
                   pageVars, appVars, htm>>

StopMonitor(t) ==
    /\ pc[t] = "stop"
    /\ IF entry = "deleted" THEN Goto(t, "fault") /\ UNCHANGED fStop
       ELSE Goto(t, "close") /\ fStop' = TRUE
    /\ UNCHANGED <<fileVars, osVars, hDirectory, entry, cRefs, fIsValid, lock,
                   pageVars, appVars, htm>>

\* Mutant: the directory is closed without waiting for a running update.
StopMonitorClose_NoLock(t) ==
    /\ pc[t] = "close"
    /\ hDirectory' = FALSE /\ Goto(t, "delete")
    /\ IF hDirectory /\ io = "pending" THEN io' = "queued" /\ packet' = "closed"
       ELSE UNCHANGED <<io, packet>>
    /\ UNCHANGED <<fileVars, armed, recorded, entry, cRefs, fIsValid, fStop, lock,
                   pageVars, appVars, htm>>

\* Under the lock.  Closing the handle completes a pending operation.
StopMonitorClose(t) ==
    /\ pc[t] = "close" /\ lock = None
    /\ IF entry = "deleted"
       THEN Goto(t, "fault") /\ UNCHANGED <<hDirectory, io, packet>>
       ELSE /\ Goto(t, "delete") /\ hDirectory' = FALSE
            /\ IF hDirectory /\ io = "pending" THEN io' = "queued" /\ packet' = "closed"
               ELSE UNCHANGED <<io, packet>>
    /\ UNCHANGED <<fileVars, armed, recorded, entry, cRefs, fIsValid, fStop, lock,
                   pageVars, appVars, htm>>

\* The rest of the destructor gives up the process manager.  The page the
\* application still points to is not dereferenced.
DeleteApplication(t) ==
    /\ pc[t] = "delete"
    /\ app' = "deleted" /\ Goto(t, "dropHtm")
    /\ UNCHANGED <<fileVars, osVars, entryVars, pageVars, published, appRefs, htm>>

Destroy(t) ==
    \/ MarkEntryInValid(t) \/ StopMonitor(t) \/ StopMonitorClose(t) \/ DeleteApplication(t)

-----------------------------------------------------------------------------
Create == InsertRecord \/ StartMonitoringAppOffline \/ Arm

Request(r) ==
    \/ QueryAppOfflineHtm(r) \/ ReferenceAppOfflineHtm(r) \/ Serve(r)
    \/ DereferenceAppOfflineHtm(r)

Watch ==
    \/ CompletionRoutine \/ HandleChangeCompletion \/ HandleChangeCompletionEnd
    \/ QueryIsValid \/ Rearm \/ DereferenceFileWatcherEntry

Environment == DirectoryChange \/ OtherChange \/ Notify

Next ==
    \/ Environment
    \/ Create \/ Watch \/ DeleteKey
    \/ \E t \in {Creator, Watcher} : UpdateAppOfflineFileHandle(t)
    \/ \E r \in Requests : FindKey(r)
    \/ \E r \in Handlers : Request(r)
    \/ \E t \in Handlers \cup {Recycler} : DereferenceApplication(t) \/ Destroy(t)
    \/ DereferenceAppOfflineHtm(Recycler)

Spec == Init /\ [][Next]_vars

\* Threads run; a queued lock is got in the end; the system completes an
\* operation that has something to report.  Nothing forces requests, changes
\* of the directory or a recycle.
FairSpec ==
    /\ Spec
    /\ WF_vars(Notify) /\ WF_vars(Create) /\ SF_vars(Watch)
    /\ \A t \in {Creator, Watcher} : WF_vars(UpdateAppOfflineFileHandle(t))
    /\ \A r \in Handlers : WF_vars(Request(r))
    /\ \A t \in Handlers \cup {Recycler} :
          WF_vars(DereferenceApplication(t)) /\ SF_vars(Destroy(t))

-----------------------------------------------------------------------------
\* Every variable keeps its type; the entry never has more than two references.
TypeOK ==
    /\ file \in 0..MaxChanges /\ changes \in 0..MaxChanges /\ seen \in BOOLEAN
    /\ armed \in BOOLEAN /\ recorded \in {"none", "other", "match"}
    /\ io \in {"none", "pending", "queued", "failed"}
    /\ packet \in {"other", "match", "closed"}
    /\ hDirectory \in BOOLEAN /\ entry \in {"allocated", "deleted"} /\ cRefs \in 0..2
    /\ fIsValid \in BOOLEAN /\ fStop \in BOOLEAN /\ lock \in {None, Watcher}
    /\ page \in Htms \cup {None} /\ fFound \in BOOLEAN
    /\ htmRefs \in [Htms -> Nat] /\ contents \in [Htms -> 0..Unread]
    /\ published \in BOOLEAN /\ appRefs \in Nat /\ app \in {"allocated", "deleted"}
    /\ pc \in [Threads -> Labels]
    /\ htm \in [Threads -> Htms \cup {None}]

\* Safety: the entry's references are its own, given up only to delete it, and
\* one for the operation in flight or for a ReadDirectoryChangesW that failed
\* (filewatcher.cxx:149, 314, 167).  Whatever the watcher's thread works on,
\* and whatever the system may still complete, is allocated.
EntryRefsExact ==
    IF entry = "deleted" THEN cRefs = 0 /\ io = "none" /\ pc[Watcher] = "wait"
    ELSE cRefs = (IF io = "none" THEN 1 ELSE 2)

\* Threads that hold a reference of the application.
AppHolders ==
    {t \in Handlers \cup {Recycler} :
        \/ pc[t] \in {"create", "armWatch", "query", "reference", "serve", "dropApplication"}
        \/ t = Creator /\ pc[t] \in UpdateSteps}

AppRefsExact ==
    /\ (\A t \in Threads : pc[t] # "fault") =>
         appRefs = Cardinality(AppHolders) + (IF published THEN 1 ELSE 0)
    /\ Cardinality({t \in Threads : pc[t] \in {"mark", "stop", "close", "delete"}}) <= 1
    /\ app = "deleted" => appRefs = 0

Updating == pc[Watcher] \in UpdateSteps

\* Safety: the watcher's thread, which holds no reference of the application,
\* updates it only while it exists (the lock in StopMonitor,
\* filewatcher.cxx:343): its destructor waits for the update.
AppOutlivesUpdate == Updating => app = "allocated"

\* References of a page: the application's pointer, the pointer swapped out or
\* not yet in, and the requests that serve it.
PageHolders(h) ==
    {t \in Threads : htm[t] = h /\ pc[t] \in {"exchange", "release", "serve",
                                             "dropApplication", "dropHtm", "mark",
                                             "stop", "close", "delete"}}

HtmRefsExact ==
    (\A t \in Threads : pc[t] # "fault") =>
      \A h \in Htms :
        contents[h] # 0 => htmRefs[h] = Cardinality(PageHolders(h)) + (IF page = h THEN 1 ELSE 0)

\* Safety: the application's references are the hash table's and those of the
\* requests that found it, and its destructor runs on one thread only.  A page
\* is deleted when the last of its users is gone and not before; one whose
\* file could not be loaded keeps the reference of its creation
\* (application.cxx:124), as does the page an application is destroyed with.
SharedRefsExact == AppRefsExact /\ HtmRefsExact

\* Liveness: if the last change of app_offline.htm fell into the watch, what
\* the application knows of the file agrees with it in the end: whether it is
\* there, and what it says.  A change before the watch was armed is missed.
ChangeIsSeen ==
    <>[](seen /\ published => /\ fFound = (file # 0)
                              /\ file # 0 => page # None /\ contents[page] = file)

\* Liveness: an entry whose directory is closed with an operation in flight is
\* deleted by the completion (filewatcher.cxx:161-167).
ClosedIsDeleted == (fStop /\ ~hDirectory /\ io \in {"pending", "queued"}) ~> entry = "deleted"

\* What application.cxx:10-12 says of the destructor: StopMonitor triggers the
\* notification that deletes the entry.  So the entry is there until StopMonitor
\* has closed the directory ...
EntryAwaitsStop ==
    \A t \in Threads : pc[t] \in {"mark", "stop", "close"} => entry = "allocated"

\* ... and is deleted after it.
StoppedIsDeleted == (\E t \in Threads : pc[t] = "delete") ~> entry = "deleted"
=============================================================================
