------------------------- MODULE ApplicationManager -------------------------
(***************************************************************************)
(* How a request gets its configuration and its application:               *)
(* ASPNETCORE_CONFIG::GetConfig and its destructor (aspnetcoreconfig.cxx), *)
(* APPLICATION_MANAGER::GetApplication, RecycleApplication and             *)
(* Get502ErrorPage (applicationmanager.cxx), all for one application id.   *)
(* The operations of the hash are atomic, which the hash table's own       *)
(* module shows.  A context is an IHttpApplication with its module context *)
(* container: while requests of the old one drain, IIS may already run a   *)
(* new one with the same id.                                               *)
(***************************************************************************)
EXTENDS Naturals, FiniteSets

CONSTANTS Threads, Contexts, Configs, Apps, Null

VARIABLES
    contexts,   \* the contexts IIS sends requests to
    stored,     \* stored[c] : what GetModuleContext(g_pModuleId) returns
    configs,    \* the ASPNETCORE_CONFIG objects that exist
    named,      \* those whose m_struApplication is set
    record,     \* the application of the id in m_pApplicationHash, or Null
    m_cRefs,    \* m_cRefs[a] of the applications, 0 when there is none
    m_srwLock,  \* the thread that holds it, or Null
    pages,      \* how often m_pHttp502ErrorPage has been created
    lost,       \* contexts whose stored configuration has been deleted under them
    pc, context, config, app

vars == <<contexts, stored, configs, named, record, m_cRefs, m_srwLock, pages, lost,
          pc, context, config, app>>

Init ==
    /\ contexts = Contexts /\ stored = [c \in Contexts |-> Null]
    /\ configs = {} /\ named = {} /\ lost = {}
    /\ record = Null /\ m_cRefs = [a \in Apps |-> 0] /\ m_srwLock = Null /\ pages = 0
    /\ pc = [t \in Threads |-> "idle"]
    /\ context = [t \in Threads |-> Null]
    /\ config = [t \in Threads |-> Null] /\ app = [t \in Threads |-> Null]

Goto(t, l) == pc' = [pc EXCEPT ![t] = l]
Uses(t, k) == config' = [config EXCEPT ![t] = k]
Holds(t, a) == app' = [app EXCEPT ![t] = a]

(***************************************************************************)
(* The configuration                                                       *)
(***************************************************************************)
Arrive(t, c) ==
    /\ pc[t] = "idle" /\ c \in contexts
    /\ Goto(t, "config") /\ context' = [context EXCEPT ![t] = c]
    /\ UNCHANGED <<contexts, stored, configs, named, record, m_cRefs, m_srwLock, pages, lost,
                   config, app>>

\* In a lost context this is the deleted object.
FindConfig(t) ==
    /\ pc[t] = "config" /\ stored[context[t]] # Null
    /\ Uses(t, stored[context[t]]) /\ Goto(t, "find")
    /\ UNCHANGED <<contexts, stored, configs, named, record, m_cRefs, m_srwLock, pages, lost,
                   context, app>>

\* Populate reads the section; a failure deletes the object, which has no
\* name yet, and fails the request.
Populate(t) ==
    /\ pc[t] = "config" /\ stored[context[t]] = Null
    /\ \/ \E k \in Configs \ configs :
            configs' = configs \cup {k} /\ Uses(t, k) /\ Goto(t, "store")
       \/ Goto(t, "end") /\ UNCHANGED <<configs, config>>
    /\ UNCHANGED <<contexts, stored, named, record, m_cRefs, m_srwLock, pages, lost, context, app>>

Store(t) ==
    /\ pc[t] = "store" /\ stored[context[t]] = Null
    /\ stored' = [stored EXCEPT ![context[t]] = config[t]] /\ Goto(t, "name")
    /\ UNCHANGED <<contexts, configs, named, record, m_cRefs, m_srwLock, pages, lost,
                   context, config, app>>

\* Mutant: Populate sets the name already, as it did before the comment at
\* aspnetcoreconfig.cxx:78, so the loser's destructor recycles.
StoreLost_Named(t) ==
    /\ pc[t] = "store" /\ stored[context[t]] # Null
    /\ configs' = configs \ {config[t]} /\ Uses(t, stored[context[t]]) /\ Goto(t, "find")
    /\ record' = Null
    /\ m_cRefs' = [a \in Apps |-> IF a = record THEN m_cRefs[a] - 1 ELSE m_cRefs[a]]
    /\ UNCHANGED <<contexts, stored, named, m_srwLock, pages, lost, context, app>>

\* ERROR_ALREADY_ASSIGNED: the object is deleted and the winner's one taken.
\* Nothing is recycled, the deleted object having no name.
StoreLost(t) ==
    /\ pc[t] = "store" /\ stored[context[t]] # Null
    /\ configs' = configs \ {config[t]} /\ Uses(t, stored[context[t]]) /\ Goto(t, "find")
    /\ UNCHANGED <<contexts, stored, named, record, m_cRefs, m_srwLock, pages, lost, context, app>>

\* SetModuleContext fails otherwise.
StoreFails(t) ==
    /\ pc[t] = "store"
    /\ configs' = configs \ {config[t]} /\ Uses(t, Null) /\ Goto(t, "end")
    /\ UNCHANGED <<contexts, stored, named, record, m_cRefs, m_srwLock, pages, lost, context, app>>

\* The winner copies the application id.  When the copy finds no memory it
\* deletes the object that the container holds, that others may use and that
\* further requests of the context will find.
Name(t) ==
    /\ pc[t] = "name"
    /\ \/ /\ named' = named \cup {config[t]} /\ Goto(t, "find")
          /\ UNCHANGED <<configs, config, lost>>
       \/ /\ configs' = configs \ {config[t]} /\ Uses(t, Null) /\ Goto(t, "end")
          /\ lost' = lost \cup {context[t]} /\ UNCHANGED named
    /\ UNCHANGED <<contexts, stored, record, m_cRefs, m_srwLock, pages, context, app>>

(***************************************************************************)
(* The application                                                         *)
(***************************************************************************)
FindKey(t) ==
    /\ pc[t] = "find"
    /\ IF record = Null THEN Goto(t, "lock") /\ UNCHANGED <<m_cRefs, app>>
       ELSE /\ m_cRefs' = [m_cRefs EXCEPT ![record] = @ + 1]
            /\ Holds(t, record) /\ Goto(t, "use")
    /\ UNCHANGED <<contexts, stored, configs, named, record, m_srwLock, pages, lost, context, config>>

Lock(t) ==
    /\ pc[t] \in {"lock", "pagelock"} /\ m_srwLock = Null
    /\ m_srwLock' = t /\ Goto(t, IF pc[t] = "lock" THEN "check" ELSE "page")
    /\ UNCHANGED <<contexts, stored, configs, named, record, m_cRefs, pages, lost, context, config, app>>

\* "someone else created the application"
FindAgain(t) ==
    /\ pc[t] = "check" /\ record # Null
    /\ m_cRefs' = [m_cRefs EXCEPT ![record] = @ + 1] /\ Holds(t, record)
    /\ m_srwLock' = Null /\ Goto(t, "use")
    /\ UNCHANGED <<contexts, stored, configs, named, record, pages, lost, context, config>>

\* The object, its process manager and its watcher entry; a failure of any
\* of them undoes the others and drops the object.
Initialize(t) ==
    /\ pc[t] = "check"
    /\ \/ /\ record = Null
          /\ \E a \in Apps : /\ m_cRefs[a] = 0 /\ Holds(t, a)
                             /\ m_cRefs' = [m_cRefs EXCEPT ![a] = 1]
          /\ Goto(t, "insert") /\ UNCHANGED m_srwLock
       \/ m_srwLock' = Null /\ Goto(t, "end") /\ UNCHANGED <<m_cRefs, app>>
    /\ UNCHANGED <<contexts, stored, configs, named, record, pages, lost, context, config>>

\* Mutant: the hash takes over the creator's reference.
InsertRecord_Gives(t) ==
    /\ pc[t] = "insert"
    /\ record' = app[t] /\ m_srwLock' = Null /\ Goto(t, "use")
    /\ UNCHANGED <<contexts, stored, configs, named, m_cRefs, pages, lost, context, config, app>>

\* InsertRecord takes its own reference; the creator keeps the first one.
InsertRecord(t) ==
    /\ pc[t] = "insert"
    /\ record' = app[t] /\ m_cRefs' = [m_cRefs EXCEPT ![app[t]] = @ + 1]
    /\ m_srwLock' = Null /\ Goto(t, "use")
    /\ UNCHANGED <<contexts, stored, configs, named, pages, lost, context, config, app>>

InsertFails(t) ==
    /\ pc[t] = "insert"
    /\ m_cRefs' = [m_cRefs EXCEPT ![app[t]] = @ - 1] /\ Holds(t, Null)
    /\ m_srwLock' = Null /\ Goto(t, "end")
    /\ UNCHANGED <<contexts, stored, configs, named, record, pages, lost, context, config>>

(***************************************************************************)
(* The error page, and the end of the request                              *)
(***************************************************************************)
Get502ErrorPage(t) ==
    /\ pc[t] = "use" /\ Goto(t, IF pages > 0 THEN "end" ELSE "pagelock")
    /\ UNCHANGED <<contexts, stored, configs, named, record, m_cRefs, m_srwLock, pages, lost,
                   context, config, app>>

CreatePage(t) ==
    /\ pc[t] = "page" /\ m_srwLock' = Null /\ Goto(t, "end")
    /\ pages' = IF pages = 0 THEN 1 ELSE pages
    /\ UNCHANGED <<contexts, stored, configs, named, record, m_cRefs, lost, context, config, app>>

\* The handler's destructor dereferences the application.
End(t) ==
    /\ pc[t] \in {"use", "end"} /\ Goto(t, "idle")
    /\ m_cRefs' = [a \in Apps |-> IF a = app[t] THEN m_cRefs[a] - 1 ELSE m_cRefs[a]]
    /\ context' = [context EXCEPT ![t] = Null] /\ Uses(t, Null) /\ Holds(t, Null)
    /\ UNCHANGED <<contexts, stored, configs, named, record, m_srwLock, pages, lost>>

\* IIS drops a context no request is in; CleanupStoredContext deletes the
\* configuration, whose destructor recycles the id if it has a name.  The end
\* of a lost context, which deletes a deleted object, is left out.
Recycle(c) ==
    LET k == stored[c] IN
    /\ c \in contexts \ lost /\ \A t \in Threads : context[t] # c
    /\ k \in named => m_srwLock = Null
    /\ contexts' = contexts \ {c} /\ stored' = [stored EXCEPT ![c] = Null]
    /\ configs' = configs \ {k} /\ named' = named \ {k}
    /\ IF k \in named
       THEN /\ record' = Null
            /\ m_cRefs' = [a \in Apps |-> IF a = record THEN m_cRefs[a] - 1 ELSE m_cRefs[a]]
       ELSE UNCHANGED <<record, m_cRefs>>
    /\ UNCHANGED <<m_srwLock, pages, lost, pc, context, config, app>>

\* IIS starts the application again under the same id.
StartContext(c) ==
    /\ c \notin contexts /\ contexts' = contexts \cup {c}
    /\ UNCHANGED <<stored, configs, named, record, m_cRefs, m_srwLock, pages, lost,
                   pc, context, config, app>>

Next ==
    \/ \E t \in Threads :
        \/ \E c \in Contexts : Arrive(t, c)
        \/ FindConfig(t) \/ Populate(t) \/ Store(t) \/ StoreLost(t) \/ StoreFails(t) \/ Name(t)
        \/ FindKey(t) \/ Lock(t) \/ FindAgain(t) \/ Initialize(t)
        \/ InsertRecord(t) \/ InsertFails(t)
        \/ Get502ErrorPage(t) \/ CreatePage(t) \/ End(t)
    \/ \E c \in Contexts : Recycle(c) \/ StartContext(c)

Spec == Init /\ [][Next]_vars

(***************************************************************************)
(* Properties                                                              *)
(***************************************************************************)
\* Every reference to an application is one request's or the hash's, so it
\* dies with its last user; a request works with a configuration that exists,
\* the one its context holds, unless the copy of the id failed there, which
\* leaves a deleted one to all requests of the context; the shared error page
\* is created once.
ApplicationsAreShared ==
    /\ \A a \in Apps :
        m_cRefs[a] = Cardinality({t \in Threads : app[t] = a}) + (IF record = a THEN 1 ELSE 0)
    /\ \A t \in Threads : config[t] # Null =>
        \/ context[t] \in lost
        \/ config[t] \in configs /\ (pc[t] = "store" \/ stored[context[t]] = config[t])
    /\ pages <= 1

\* The application of an id leaves the hash only when a configuration that
\* was installed and named is destroyed with its context: neither losing the
\* race in GetConfig nor a failed creation stops the processes of others
\* (aspnetcoreconfig.cxx:78).
RecycledByItsContext ==
    [][record # Null /\ record' # record =>
         \E c \in Contexts : c \in contexts /\ c \notin contexts' /\ stored[c] \in named]_vars
==============================================================================
