----------------------------- MODULE Units_proofs -----------------------------
(***************************************************************************)
(* Theorems about the components of Units.  Those without a proof module   *)
(* of their own come first: the application manager, the life of the       *)
(* module, the stdout log, the allocation cache, the trace log, the        *)
(* response and the request headers.  What the other proof modules show    *)
(* is carried over at the end: the process manager, the tables and the     *)
(* environment of the server process.                                      *)
(***************************************************************************)
EXTENDS Units, FiniteSetTheorems, TLAPS

vars == <<unit, library, processes, texts, lives>>

\* A step of one component leaves the others alone.
LEMMA Alone ==
    ASSUME [Next]_vars
    PROVE  /\ [Table!Next]_tableVars /\ [Tree!Next]_treeVars /\ [Cache!Next]_cacheVars
           /\ [Log!Next]_logVars /\ [App!Next]_appVars /\ [Manager!Next]_managerVars
           /\ [Env!Next]_envVars /\ [Response!Next]_responseVars /\ [Request!Next]_requestVars
           /\ [Module!Next]_moduleVars /\ [Stdout!Next]_stdoutVars
<1> USE DEF library, processes, texts, lives
<1>1. CASE TableStep
  BY <1>1 DEF TableStep
<1>2. CASE TreeStep
  BY <1>2 DEF TreeStep
<1>3. CASE CacheStep
  BY <1>3 DEF CacheStep
<1>4. CASE LogStep
  BY <1>4 DEF LogStep
<1>5. CASE AppStep
  BY <1>5 DEF AppStep
<1>6. CASE ManagerStep
  BY <1>6 DEF ManagerStep
<1>7. CASE EnvStep
  BY <1>7 DEF EnvStep
<1>8. CASE ResponseStep
  BY <1>8 DEF ResponseStep
<1>9. CASE RequestStep
  BY <1>9 DEF RequestStep
<1>10. CASE ModuleStep
  BY <1>10 DEF ModuleStep
<1>11. CASE StdoutStep
  BY <1>11 DEF StdoutStep
<1>12. CASE UNCHANGED vars
  BY <1>12 DEF vars
<1> QED
  BY <1>1, <1>2, <1>3, <1>4, <1>5, <1>6, <1>7, <1>8, <1>9, <1>10, <1>11, <1>12 DEF Next

-----------------------------------------------------------------------------
(* The application manager: any number of requests, contexts,              *)
(* configurations and applications.                                        *)

AppAssumptions ==
    /\ IsFiniteSet(Threads)
    /\ Null \notin Threads /\ Null \notin Contexts /\ Null \notin Configs /\ Null \notin Apps

AppLabels == {"idle", "config", "store", "name", "find", "lock", "check", "insert",
              "use", "pagelock", "page", "end"}

AppTypes ==
    /\ contexts \subseteq Contexts /\ stored \in [Contexts -> Configs \cup {Null}]
    /\ configs \subseteq Configs /\ named \subseteq Configs /\ lost \subseteq Contexts
    /\ record \in Apps \cup {Null} /\ m_cRefs \in [Apps -> Int]
    /\ m_srwLock \in Threads \cup {Null} /\ pages \in {0, 1}
    /\ apc \in [Threads -> AppLabels]
    /\ context \in [Threads -> Contexts \cup {Null}]
    /\ config \in [Threads -> Configs \cup {Null}] /\ app \in [Threads -> Apps \cup {Null}]

\* The lock and what the thread inside knows: nobody else creates.
AppCreation ==
    \A t \in Threads :
        /\ m_srwLock = t <=> apc[t] \in {"check", "insert", "page"}
        /\ apc[t] = "insert" => record = Null /\ app[t] # Null
        /\ app[t] # Null => apc[t] \in {"insert", "use", "pagelock", "page", "end"}

AppHolders(a) == {t \in Threads : app[t] = a}

AppRefsExact ==
    \A a \in Apps : m_cRefs[a] = Cardinality(AppHolders(a)) + (IF record = a THEN 1 ELSE 0)

\* Where a request is, which context it came in and which configuration it has.
AppPlaces ==
    \A t \in Threads :
        /\ apc[t] = "idle" <=> context[t] = Null
        /\ apc[t] \in {"idle", "config"} => config[t] = Null
        /\ apc[t] \in {"store", "name"} => config[t] # Null

\* A configuration that is not installed belongs to the request that made it,
\* an installed one to one context, and one request at most names it.
AppInstalled ==
    /\ \A c \in lost : stored[c] # Null
    /\ \A c \in Contexts \ lost : stored[c] # Null =>
        /\ stored[c] \in configs
        /\ \A d \in Contexts \ lost : stored[d] = stored[c] => d = c
    /\ \A t \in Threads : apc[t] = "store" =>
        /\ config[t] \in configs
        /\ \A c \in Contexts \ lost : stored[c] # config[t]
        /\ \A u \in Threads \ {t} : config[u] = config[t] => context[u] \in lost /\ apc[u] # "store"
    /\ \A t \in Threads : apc[t] = "name" =>
        /\ context[t] \notin lost /\ stored[context[t]] = config[t]
        /\ \A u \in Threads \ {t} : apc[u] = "name" => context[u] # context[t]

\* A request works with the configuration its context holds.
AppConfigExists ==
    \A t \in Threads : config[t] # Null =>
        \/ context[t] \in lost
        \/ config[t] \in configs /\ (apc[t] = "store" \/ stored[context[t]] = config[t])

-----------------------------------------------------------------------------
LEMMA AppInitControl ==
    ASSUME AppAssumptions, App!Init
    PROVE  AppTypes /\ AppCreation /\ AppPlaces /\ AppInstalled /\ AppConfigExists
BY DEF AppAssumptions, App!Init, AppTypes, AppCreation, AppPlaces, AppInstalled, AppConfigExists, AppLabels

\* One step keeps each part of the control state, action by action.
LEMMA AppNextPlaces ==
    ASSUME AppAssumptions, AppTypes, AppPlaces, [App!Next]_appVars
    PROVE  AppPlaces'
<1> USE DEF AppAssumptions, AppTypes, AppPlaces, AppLabels, App!Goto, App!Uses
<1>1. ASSUME NEW t \in Threads, NEW c \in Contexts, App!Arrive(t, c)  PROVE AppPlaces'
  BY <1>1 DEF App!Arrive
<1>2. ASSUME NEW t \in Threads, App!FindConfig(t)  PROVE AppPlaces'
  BY <1>2 DEF App!FindConfig
<1>3. ASSUME NEW t \in Threads, App!Populate(t)  PROVE AppPlaces'
  BY <1>3 DEF App!Populate
<1>4. ASSUME NEW t \in Threads, App!Store(t)  PROVE AppPlaces'
  BY <1>4 DEF App!Store
<1>5. ASSUME NEW t \in Threads, App!StoreLost(t)  PROVE AppPlaces'
  BY <1>5 DEF App!StoreLost
<1>6. ASSUME NEW t \in Threads, App!StoreFails(t)  PROVE AppPlaces'
  BY <1>6 DEF App!StoreFails
<1>7. ASSUME NEW t \in Threads, App!Name(t)  PROVE AppPlaces'
  BY <1>7 DEF App!Name
<1>8. ASSUME NEW t \in Threads, App!FindKey(t)  PROVE AppPlaces'
  BY <1>8 DEF App!FindKey
<1>9. ASSUME NEW t \in Threads, App!Lock(t)  PROVE AppPlaces'
  BY <1>9 DEF App!Lock
<1>10. ASSUME NEW t \in Threads, App!FindAgain(t)  PROVE AppPlaces'
  BY <1>10 DEF App!FindAgain
<1>11. ASSUME NEW t \in Threads, App!Initialize(t)  PROVE AppPlaces'
  BY <1>11 DEF App!Initialize
<1>12. ASSUME NEW t \in Threads, App!InsertRecord(t)  PROVE AppPlaces'
  BY <1>12 DEF App!InsertRecord
<1>13. ASSUME NEW t \in Threads, App!InsertFails(t)  PROVE AppPlaces'
  BY <1>13 DEF App!InsertFails
<1>14. ASSUME NEW t \in Threads, App!Get502ErrorPage(t)  PROVE AppPlaces'
  BY <1>14 DEF App!Get502ErrorPage
<1>15. ASSUME NEW t \in Threads, App!CreatePage(t)  PROVE AppPlaces'
  BY <1>15 DEF App!CreatePage
<1>16. ASSUME NEW t \in Threads, App!End(t)  PROVE AppPlaces'
  BY <1>16 DEF App!End
<1>17. ASSUME NEW c \in Contexts, App!Recycle(c)  PROVE AppPlaces'
  BY <1>17 DEF App!Recycle
<1>18. ASSUME NEW c \in Contexts, App!StartContext(c)  PROVE AppPlaces'
  BY <1>18 DEF App!StartContext
<1>19. CASE UNCHANGED appVars
  BY <1>19 DEF appVars
<1> QED
  BY <1>1, <1>2, <1>3, <1>4, <1>5, <1>6, <1>7, <1>8, <1>9,
     <1>10, <1>11, <1>12, <1>13, <1>14, <1>15, <1>16, <1>17, <1>18, <1>19 DEF App!Next

LEMMA AppNextTypes ==
    ASSUME AppAssumptions, AppTypes, AppPlaces, AppCreation, [App!Next]_appVars
    PROVE  AppTypes'
<1> USE DEF AppAssumptions, AppTypes, AppPlaces, AppCreation, AppLabels, App!Goto, App!Uses, App!Holds
<1>1. ASSUME NEW t \in Threads, NEW c \in Contexts, App!Arrive(t, c)  PROVE AppTypes'
  BY <1>1 DEF App!Arrive
<1>2. ASSUME NEW t \in Threads, App!FindConfig(t)  PROVE AppTypes'
  BY <1>2 DEF App!FindConfig
<1>3. ASSUME NEW t \in Threads, App!Populate(t)  PROVE AppTypes'
  BY <1>3 DEF App!Populate
<1>4. ASSUME NEW t \in Threads, App!Store(t)  PROVE AppTypes'
  BY <1>4 DEF App!Store
<1>5. ASSUME NEW t \in Threads, App!StoreLost(t)  PROVE AppTypes'
  BY <1>5 DEF App!StoreLost
<1>6. ASSUME NEW t \in Threads, App!StoreFails(t)  PROVE AppTypes'
  BY <1>6 DEF App!StoreFails
<1>7. ASSUME NEW t \in Threads, App!Name(t)  PROVE AppTypes'
  BY <1>7 DEF App!Name
<1>8. ASSUME NEW t \in Threads, App!FindKey(t)  PROVE AppTypes'
  BY <1>8 DEF App!FindKey
<1>9. ASSUME NEW t \in Threads, App!Lock(t)  PROVE AppTypes'
  BY <1>9 DEF App!Lock
<1>10. ASSUME NEW t \in Threads, App!FindAgain(t)  PROVE AppTypes'
  BY <1>10 DEF App!FindAgain
<1>11. ASSUME NEW t \in Threads, App!Initialize(t)  PROVE AppTypes'
  BY <1>11 DEF App!Initialize
<1>12. ASSUME NEW t \in Threads, App!InsertRecord(t)  PROVE AppTypes'
  <2>1. app[t] \in Apps
    BY <1>12 DEF App!InsertRecord
  <2> QED  BY <1>12, <2>1 DEF App!InsertRecord
<1>13. ASSUME NEW t \in Threads, App!InsertFails(t)  PROVE AppTypes'
  <2>1. app[t] \in Apps /\ m_cRefs[app[t]] - 1 \in Int
    BY <1>13 DEF App!InsertFails
  <2> QED  BY <1>13, <2>1 DEF App!InsertFails
<1>14. ASSUME NEW t \in Threads, App!Get502ErrorPage(t)  PROVE AppTypes'
  BY <1>14 DEF App!Get502ErrorPage
<1>15. ASSUME NEW t \in Threads, App!CreatePage(t)  PROVE AppTypes'
  BY <1>15 DEF App!CreatePage
<1>16. ASSUME NEW t \in Threads, App!End(t)  PROVE AppTypes'
  BY <1>16 DEF App!End
<1>17. ASSUME NEW c \in Contexts, App!Recycle(c)  PROVE AppTypes'
  BY <1>17 DEF App!Recycle
<1>18. ASSUME NEW c \in Contexts, App!StartContext(c)  PROVE AppTypes'
  BY <1>18 DEF App!StartContext
<1>19. CASE UNCHANGED appVars
  BY <1>19 DEF appVars
<1> QED
  BY <1>1, <1>2, <1>3, <1>4, <1>5, <1>6, <1>7, <1>8, <1>9,
     <1>10, <1>11, <1>12, <1>13, <1>14, <1>15, <1>16, <1>17, <1>18, <1>19 DEF App!Next

LEMMA AppNextCreation ==
    ASSUME AppAssumptions, AppTypes, AppCreation, [App!Next]_appVars
    PROVE  AppCreation'
<1> USE DEF AppAssumptions, AppTypes, AppCreation, AppLabels, App!Goto, App!Holds
<1>1. ASSUME NEW t \in Threads, NEW c \in Contexts, App!Arrive(t, c)  PROVE AppCreation'
  BY <1>1 DEF App!Arrive
<1>2. ASSUME NEW t \in Threads, App!FindConfig(t)  PROVE AppCreation'
  BY <1>2 DEF App!FindConfig
<1>3. ASSUME NEW t \in Threads, App!Populate(t)  PROVE AppCreation'
  BY <1>3 DEF App!Populate
<1>4. ASSUME NEW t \in Threads, App!Store(t)  PROVE AppCreation'
  BY <1>4 DEF App!Store
<1>5. ASSUME NEW t \in Threads, App!StoreLost(t)  PROVE AppCreation'
  BY <1>5 DEF App!StoreLost
<1>6. ASSUME NEW t \in Threads, App!StoreFails(t)  PROVE AppCreation'
  BY <1>6 DEF App!StoreFails
<1>7. ASSUME NEW t \in Threads, App!Name(t)  PROVE AppCreation'
  BY <1>7 DEF App!Name
<1>8. ASSUME NEW t \in Threads, App!FindKey(t)  PROVE AppCreation'
  BY <1>8 DEF App!FindKey
<1>9. ASSUME NEW t \in Threads, App!Lock(t)  PROVE AppCreation'
  BY <1>9 DEF App!Lock
<1>10. ASSUME NEW t \in Threads, App!FindAgain(t)  PROVE AppCreation'
  BY <1>10 DEF App!FindAgain
<1>11. ASSUME NEW t \in Threads, App!Initialize(t)  PROVE AppCreation'
  BY <1>11 DEF App!Initialize
<1>12. ASSUME NEW t \in Threads, App!InsertRecord(t)  PROVE AppCreation'
  BY <1>12 DEF App!InsertRecord
<1>13. ASSUME NEW t \in Threads, App!InsertFails(t)  PROVE AppCreation'
  BY <1>13 DEF App!InsertFails
<1>14. ASSUME NEW t \in Threads, App!Get502ErrorPage(t)  PROVE AppCreation'
  BY <1>14 DEF App!Get502ErrorPage
<1>15. ASSUME NEW t \in Threads, App!CreatePage(t)  PROVE AppCreation'
  BY <1>15 DEF App!CreatePage
<1>16. ASSUME NEW t \in Threads, App!End(t)  PROVE AppCreation'
  BY <1>16 DEF App!End
<1>17. ASSUME NEW c \in Contexts, App!Recycle(c)  PROVE AppCreation'
  BY <1>17 DEF App!Recycle
<1>18. ASSUME NEW c \in Contexts, App!StartContext(c)  PROVE AppCreation'
  BY <1>18 DEF App!StartContext
<1>19. CASE UNCHANGED appVars
  BY <1>19 DEF appVars
<1> QED
  BY <1>1, <1>2, <1>3, <1>4, <1>5, <1>6, <1>7, <1>8, <1>9,
     <1>10, <1>11, <1>12, <1>13, <1>14, <1>15, <1>16, <1>17, <1>18, <1>19 DEF App!Next

LEMMA AppNextInstalled ==
    ASSUME AppAssumptions, AppTypes, AppPlaces, AppInstalled, AppConfigExists, [App!Next]_appVars
    PROVE  AppInstalled'
<1> USE DEF AppAssumptions, AppTypes, AppPlaces, AppInstalled, AppConfigExists, AppLabels, App!Goto, App!Uses
<1>1. ASSUME NEW t \in Threads, NEW c \in Contexts, App!Arrive(t, c)  PROVE AppInstalled'
  BY <1>1 DEF App!Arrive
<1>2. ASSUME NEW t \in Threads, App!FindConfig(t)  PROVE AppInstalled'
  BY <1>2 DEF App!FindConfig
<1>3. ASSUME NEW t \in Threads, App!Populate(t)  PROVE AppInstalled'
  BY <1>3 DEF App!Populate
<1>4. ASSUME NEW t \in Threads, App!Store(t)  PROVE AppInstalled'
  BY <1>4 DEF App!Store
<1>5. ASSUME NEW t \in Threads, App!StoreLost(t)  PROVE AppInstalled'
  BY <1>5 DEF App!StoreLost
<1>6. ASSUME NEW t \in Threads, App!StoreFails(t)  PROVE AppInstalled'
  BY <1>6 DEF App!StoreFails
<1>7. ASSUME NEW t \in Threads, App!Name(t)  PROVE AppInstalled'
  BY <1>7 DEF App!Name
<1>8. ASSUME NEW t \in Threads, App!FindKey(t)  PROVE AppInstalled'
  BY <1>8 DEF App!FindKey
<1>9. ASSUME NEW t \in Threads, App!Lock(t)  PROVE AppInstalled'
  BY <1>9 DEF App!Lock
<1>10. ASSUME NEW t \in Threads, App!FindAgain(t)  PROVE AppInstalled'
  BY <1>10 DEF App!FindAgain
<1>11. ASSUME NEW t \in Threads, App!Initialize(t)  PROVE AppInstalled'
  BY <1>11 DEF App!Initialize
<1>12. ASSUME NEW t \in Threads, App!InsertRecord(t)  PROVE AppInstalled'
  BY <1>12 DEF App!InsertRecord
<1>13. ASSUME NEW t \in Threads, App!InsertFails(t)  PROVE AppInstalled'
  BY <1>13 DEF App!InsertFails
<1>14. ASSUME NEW t \in Threads, App!Get502ErrorPage(t)  PROVE AppInstalled'
  BY <1>14 DEF App!Get502ErrorPage
<1>15. ASSUME NEW t \in Threads, App!CreatePage(t)  PROVE AppInstalled'
  BY <1>15 DEF App!CreatePage
<1>16. ASSUME NEW t \in Threads, App!End(t)  PROVE AppInstalled'
  BY <1>16 DEF App!End
<1>17. ASSUME NEW c \in Contexts, App!Recycle(c)  PROVE AppInstalled'
  BY <1>17 DEF App!Recycle
<1>18. ASSUME NEW c \in Contexts, App!StartContext(c)  PROVE AppInstalled'
  BY <1>18 DEF App!StartContext
<1>19. CASE UNCHANGED appVars
  BY <1>19 DEF appVars
<1> QED
  BY <1>1, <1>2, <1>3, <1>4, <1>5, <1>6, <1>7, <1>8, <1>9,
     <1>10, <1>11, <1>12, <1>13, <1>14, <1>15, <1>16, <1>17, <1>18, <1>19 DEF App!Next

LEMMA AppNextConfigExists ==
    ASSUME AppAssumptions, AppTypes, AppPlaces, AppInstalled, AppConfigExists, [App!Next]_appVars
    PROVE  AppConfigExists'
<1> USE DEF AppAssumptions, AppTypes, AppPlaces, AppInstalled, AppConfigExists, AppLabels, App!Goto, App!Uses
<1>1. ASSUME NEW t \in Threads, NEW c \in Contexts, App!Arrive(t, c)  PROVE AppConfigExists'
  BY <1>1 DEF App!Arrive
<1>2. ASSUME NEW t \in Threads, App!FindConfig(t)  PROVE AppConfigExists'
  BY <1>2 DEF App!FindConfig
<1>3. ASSUME NEW t \in Threads, App!Populate(t)  PROVE AppConfigExists'
  BY <1>3 DEF App!Populate
<1>4. ASSUME NEW t \in Threads, App!Store(t)  PROVE AppConfigExists'
  BY <1>4 DEF App!Store
<1>5. ASSUME NEW t \in Threads, App!StoreLost(t)  PROVE AppConfigExists'
  BY <1>5 DEF App!StoreLost
<1>6. ASSUME NEW t \in Threads, App!StoreFails(t)  PROVE AppConfigExists'
  BY <1>6 DEF App!StoreFails
<1>7. ASSUME NEW t \in Threads, App!Name(t)  PROVE AppConfigExists'
  BY <1>7 DEF App!Name
<1>8. ASSUME NEW t \in Threads, App!FindKey(t)  PROVE AppConfigExists'
  BY <1>8 DEF App!FindKey
<1>9. ASSUME NEW t \in Threads, App!Lock(t)  PROVE AppConfigExists'
  BY <1>9 DEF App!Lock
<1>10. ASSUME NEW t \in Threads, App!FindAgain(t)  PROVE AppConfigExists'
  BY <1>10 DEF App!FindAgain
<1>11. ASSUME NEW t \in Threads, App!Initialize(t)  PROVE AppConfigExists'
  BY <1>11 DEF App!Initialize
<1>12. ASSUME NEW t \in Threads, App!InsertRecord(t)  PROVE AppConfigExists'
  BY <1>12 DEF App!InsertRecord
<1>13. ASSUME NEW t \in Threads, App!InsertFails(t)  PROVE AppConfigExists'
  BY <1>13 DEF App!InsertFails
<1>14. ASSUME NEW t \in Threads, App!Get502ErrorPage(t)  PROVE AppConfigExists'
  BY <1>14 DEF App!Get502ErrorPage
<1>15. ASSUME NEW t \in Threads, App!CreatePage(t)  PROVE AppConfigExists'
  BY <1>15 DEF App!CreatePage
<1>16. ASSUME NEW t \in Threads, App!End(t)  PROVE AppConfigExists'
  BY <1>16 DEF App!End
<1>17. ASSUME NEW c \in Contexts, App!Recycle(c)  PROVE AppConfigExists'
  BY <1>17 DEF App!Recycle
<1>18. ASSUME NEW c \in Contexts, App!StartContext(c)  PROVE AppConfigExists'
  BY <1>18 DEF App!StartContext
<1>19. CASE UNCHANGED appVars
  BY <1>19 DEF appVars
<1> QED
  BY <1>1, <1>2, <1>3, <1>4, <1>5, <1>6, <1>7, <1>8, <1>9,
     <1>10, <1>11, <1>12, <1>13, <1>14, <1>15, <1>16, <1>17, <1>18, <1>19 DEF App!Next

-----------------------------------------------------------------------------
(* Counting references                                                     *)

LEMMA AppHoldersFinite ==
    ASSUME AppAssumptions, NEW a
    PROVE  IsFiniteSet(AppHolders(a)) /\ Cardinality(AppHolders(a)) \in Nat
<1>1. AppHolders(a) \in SUBSET Threads
  BY DEF AppHolders
<1>2. IsFiniteSet(AppHolders(a))
  BY <1>1, FS_Subset DEF AppAssumptions
<1> QED
  BY <1>2, FS_CardinalityType

\* One request takes or drops an application.
LEMMA AppHoldersChange ==
    ASSUME AppAssumptions, AppTypes, NEW t \in Threads, NEW x, App!Holds(t, x), NEW a \in Apps
    PROVE  Cardinality(AppHolders(a)') = Cardinality(AppHolders(a)) + (IF x = a THEN 1 ELSE 0)
                                                              - (IF app[t] = a THEN 1 ELSE 0)
<1>1. /\ IsFiniteSet(AppHolders(a)) /\ Cardinality(AppHolders(a)) \in Nat
      /\ t \in AppHolders(a) <=> app[t] = a
  BY AppHoldersFinite DEF AppHolders
<1>2. CASE x = a /\ app[t] # a
  <2>1. AppHolders(a)' = AppHolders(a) \cup {t}
    <3>1. app'[t] = a /\ \A u \in Threads \ {t} : app'[u] = app[u]
      BY <1>2 DEF App!Holds, AppTypes
    <3> QED
      BY <3>1 DEF AppHolders
  <2> QED
    BY <1>1, <1>2, <2>1, FS_AddElement
<1>3. CASE x # a /\ app[t] = a
  <2>1. AppHolders(a)' = AppHolders(a) \ {t}
    BY <1>3 DEF AppHolders, App!Holds, AppTypes
  <2>2. Cardinality(AppHolders(a) \ {t}) = Cardinality(AppHolders(a)) - 1
    BY <1>1, <1>3, FS_RemoveElement
  <2> QED
    BY <1>1, <1>3, <2>1, <2>2
<1>4. CASE (x = a) = (app[t] = a)
  <2>1. AppHolders(a)' = AppHolders(a)
    BY <1>4 DEF AppHolders, App!Holds, AppTypes
  <2> QED
    BY <1>1, <1>4, <2>1
<1> QED
  BY <1>2, <1>3, <1>4

\* One step changes a count with the set of its holders.
LEMMA AppNextRefsExact ==
    ASSUME AppAssumptions, AppTypes, AppCreation, AppRefsExact, [App!Next]_appVars
    PROVE  AppRefsExact'
<1> USE DEF AppAssumptions, AppRefsExact
<1>1. \A a \in Apps : Cardinality(AppHolders(a)) \in Nat
  BY AppHoldersFinite
<1>2. ASSUME UNCHANGED <<app, record, m_cRefs>>  PROVE AppRefsExact'
  BY <1>2 DEF AppHolders
<1>3. ASSUME NEW t \in Threads, App!FindKey(t)  PROVE AppRefsExact'
  <2>1. CASE record = Null
    BY <1>2, <1>3, <2>1 DEF App!FindKey
  <2>2. CASE record # Null
    <3>1. app[t] = Null /\ App!Holds(t, record) /\ record \in Apps
      BY <1>3, <2>2 DEF App!FindKey, AppCreation, AppTypes
    <3>2. m_cRefs' = [m_cRefs EXCEPT ![record] = @ + 1] /\ record' = record
      BY <1>3, <2>2 DEF App!FindKey
    <3> QED
      BY <1>1, <3>1, <3>2, AppHoldersChange DEF AppTypes
  <2> QED
    BY <2>1, <2>2
<1>4. ASSUME NEW t \in Threads, App!FindAgain(t)  PROVE AppRefsExact'
  <2>1. /\ app[t] = Null /\ App!Holds(t, record) /\ record \in Apps
        /\ m_cRefs' = [m_cRefs EXCEPT ![record] = @ + 1] /\ record' = record
    BY <1>4 DEF App!FindAgain, AppCreation, AppTypes
  <2> QED
    BY <1>1, <2>1, AppHoldersChange DEF AppTypes
<1>5. ASSUME NEW t \in Threads, App!Initialize(t)  PROVE AppRefsExact'
  <2>1. ASSUME NEW a \in Apps, m_cRefs[a] = 0, App!Holds(t, a), m_cRefs' = [m_cRefs EXCEPT ![a] = 1]
        PROVE  AppRefsExact'
    <3>1. app[t] = Null /\ record' = record /\ record # a
      BY <1>1, <1>5, <2>1 DEF App!Initialize, AppCreation, AppTypes
    <3> QED
      BY <1>1, <2>1, <3>1, AppHoldersChange DEF AppTypes
  <2> QED
    BY <1>2, <1>5, <2>1 DEF App!Initialize
<1>6. ASSUME NEW t \in Threads, App!InsertRecord(t)  PROVE AppRefsExact'
  <2>1. /\ app[t] \in Apps /\ record = Null /\ record' = app[t] /\ UNCHANGED app
        /\ m_cRefs' = [m_cRefs EXCEPT ![app[t]] = @ + 1]
    BY <1>6 DEF App!InsertRecord, AppCreation, AppTypes
  <2>2. \A a \in Apps : AppHolders(a)' = AppHolders(a)
    BY <2>1 DEF AppHolders
  <2> QED
    BY <1>1, <2>1, <2>2 DEF AppTypes
<1>7. ASSUME NEW t \in Threads, App!InsertFails(t)  PROVE AppRefsExact'
  <2>1. /\ app[t] \in Apps /\ App!Holds(t, Null) /\ record' = record
        /\ m_cRefs' = [m_cRefs EXCEPT ![app[t]] = @ - 1]
    BY <1>7 DEF App!InsertFails, AppCreation, AppTypes
  <2> QED
    BY <1>1, <2>1, AppHoldersChange DEF AppTypes
<1>8. ASSUME NEW t \in Threads, App!End(t)  PROVE AppRefsExact'
  <2>1. /\ App!Holds(t, Null) /\ record' = record
        /\ m_cRefs' = [a \in Apps |-> IF a = app[t] THEN m_cRefs[a] - 1 ELSE m_cRefs[a]]
    BY <1>8 DEF App!End
  <2> QED
    BY <1>1, <2>1, AppHoldersChange DEF AppTypes
<1>9. ASSUME NEW c \in Contexts, App!Recycle(c)  PROVE AppRefsExact'
  <2>1. ASSUME record' = Null,
               m_cRefs' = [a \in Apps |-> IF a = record THEN m_cRefs[a] - 1 ELSE m_cRefs[a]]
        PROVE  AppRefsExact'
    <3>1. \A a \in Apps : AppHolders(a)' = AppHolders(a)
      BY <1>9 DEF App!Recycle, AppHolders
    <3> QED
      BY <1>1, <2>1, <3>1 DEF AppTypes
  <2> QED
    BY <1>2, <1>9, <2>1 DEF App!Recycle
<1>10. ASSUME NEW t \in Threads,
              \/ \E c \in Contexts : App!Arrive(t, c)
              \/ App!FindConfig(t) \/ App!Populate(t) \/ App!Store(t) \/ App!StoreLost(t) \/ App!StoreFails(t)
              \/ App!Name(t) \/ App!Lock(t) \/ App!Get502ErrorPage(t) \/ App!CreatePage(t)
       PROVE  AppRefsExact'
  BY <1>2, <1>10 DEF App!Arrive, App!FindConfig, App!Populate, App!Store, App!StoreLost,
     App!StoreFails, App!Name, App!Lock, App!Get502ErrorPage, App!CreatePage
<1>11. ASSUME NEW c \in Contexts, App!StartContext(c)  PROVE AppRefsExact'
  BY <1>2, <1>11 DEF App!StartContext
<1>12. CASE UNCHANGED appVars
  BY <1>2, <1>12 DEF appVars
<1> QED
  BY <1>3, <1>4, <1>5, <1>6, <1>7, <1>8, <1>9, <1>10, <1>11, <1>12 DEF App!Next

-----------------------------------------------------------------------------
AppInv == AppTypes /\ AppCreation /\ AppPlaces /\ AppInstalled /\ AppConfigExists /\ AppRefsExact

LEMMA AppInitInv == ASSUME AppAssumptions, App!Init PROVE AppInv
<1>1. \A a \in Apps : AppHolders(a) = {}
  BY DEF App!Init, AppHolders, AppAssumptions
<1>2. AppRefsExact
  BY <1>1, FS_EmptySet DEF App!Init, AppRefsExact, AppAssumptions
<1> QED
  BY <1>2, AppInitControl DEF AppInv

LEMMA AppNextInv == ASSUME AppAssumptions, AppInv, [App!Next]_appVars PROVE AppInv'
BY AppNextTypes, AppNextCreation, AppNextPlaces, AppNextInstalled, AppNextConfigExists,
   AppNextRefsExact DEF AppInv

LEMMA AppInductive == Spec => []AppInv
<1>1. AppAssumptions
  BY UnitsAssumption DEF AppAssumptions
<1>2. Init => AppInv
  BY <1>1, AppInitInv DEF Init
<1>3. AppInv /\ [Next]_vars => AppInv'
  BY <1>1, Alone, AppNextInv
<1> QED
  BY <1>2, <1>3, PTL DEF Spec, vars

\* For any number of requests and contexts: every reference is a request's or
\* the table's, every request works with a configuration that exists, and the
\* page is created once.
THEOREM ApplicationsAreSharedTheorem == Spec => []ApplicationsAreShared
<1>1. \A S : App!Cardinality(S) = Cardinality(S)
  BY DEF App!Cardinality, Cardinality
<1>2. AppInv => ApplicationsAreShared
  BY <1>1 DEF AppInv, ApplicationsAreShared, App!ApplicationsAreShared, AppRefsExact, AppHolders,
     AppConfigExists, AppTypes
<1> QED
  BY <1>2, AppInductive, PTL

\* An application leaves the table only with the context whose named
\* configuration is destroyed.
THEOREM RecycledByItsContextTheorem == Spec => RecycledByItsContext
<1> DEFINE Taken ==
        record # Null /\ record' # record =>
            \E c \in Contexts : c \in contexts /\ c \notin contexts' /\ stored[c] \in named
<1>1. ASSUME AppInv, [App!Next]_appVars  PROVE Taken
  <2>1. CASE record # Null /\ record' # record
    <3>1. PICK c \in Contexts : App!Recycle(c)
      BY <1>1, <2>1 DEF AppInv, AppCreation, App!Next, appVars, App!Arrive, App!FindConfig,
         App!Populate, App!Store, App!StoreLost, App!StoreFails, App!Name, App!FindKey, App!Lock,
         App!FindAgain, App!Initialize, App!InsertRecord, App!InsertFails, App!Get502ErrorPage,
         App!CreatePage, App!End, App!StartContext
    <3> QED
      BY <2>1, <3>1 DEF App!Recycle
  <2> QED
    BY <2>1
<1>2. AppInv /\ [Next]_vars => [Taken]_(App!vars)
  BY <1>1, Alone
<1> QED
  BY <1>2, AppInductive, PTL DEF Spec, vars, RecycledByItsContext, App!RecycledByItsContext

-----------------------------------------------------------------------------
(* The life of the module.                                                 *)

\* The step of the static initialisation that sets a pointer.
Place(g) ==
    CASE g = "g_pResponseHeaderHash" -> 1
      [] g = "sm_hHeap" -> 3
      [] g = "sm_pAlloc" -> 4
      [] g = "sm_hSession" -> 6
      [] g = "sm_pApplicationManager" -> 9
      [] g = "m_pApplicationHash" -> 10
      [] g = "m_pFileWatcher" -> 12
      [] g \in {"m_hCompletionPort", "m_hChangeNotificationThread"} -> 13
      [] g = "sm_strErrorFormat" -> 14
      [] g = "sm_hEventLog" -> 16
      [] g = "g_dwTlsIndex" -> 17
      [] g = "sm_pTraceLog" -> 18
      [] g = "websocket.sm_pTraceLog" -> 19

LEMMA PlaceRange == \A g \in Module!Globals : Place(g) \in 1 .. 19
BY DEF Place, Module!Globals

LEMMA StepsLength == Len(Module!Steps) = 19
BY DEF Module!Steps, Module!RegisterSteps, Module!StaticInitializeSteps, Module!WebSocketSteps

LEMMA StepsInOrder ==
    ASSUME NEW i \in 1 .. 19
    PROVE  Module!Steps[i].gets = {g \in Module!Globals : Place(g) = i}
<1> DEFINE gets(k) == Module!Steps[k].gets
<1>1. /\ gets(1) = {"g_pResponseHeaderHash"} /\ gets(2) = {} /\ gets(3) = {"sm_hHeap"}
      /\ gets(4) = {"sm_pAlloc"} /\ gets(5) = {} /\ gets(6) = {"sm_hSession"}
      /\ gets(7) = {} /\ gets(8) = {} /\ gets(9) = {"sm_pApplicationManager"}
      /\ gets(10) = {"m_pApplicationHash"} /\ gets(11) = {} /\ gets(12) = {"m_pFileWatcher"}
      /\ gets(13) = {"m_hCompletionPort", "m_hChangeNotificationThread"}
      /\ gets(14) = {"sm_strErrorFormat"} /\ gets(15) = {} /\ gets(16) = {"sm_hEventLog"}
      /\ gets(17) = {"g_dwTlsIndex"} /\ gets(18) = {"sm_pTraceLog"}
      /\ gets(19) = {"websocket.sm_pTraceLog"}
  BY DEF Module!Steps, Module!RegisterSteps, Module!StaticInitializeSteps,
     Module!WebSocketSteps, Module!Step
<1>2. i \in {1, 2, 3, 4, 5, 6, 7, 8, 9, 10, 11, 12, 13, 14, 15, 16, 17, 18, 19}
  OBVIOUS
<1> QED
  BY <1>1, <1>2 DEF Place, Module!Globals

\* What may be skipped, or fail unnoticed, is optional.
LEMMA StepsIgnored ==
    ASSUME NEW i \in 1 .. 19,
           Module!Skipped(Module!Steps[i]) \/ Module!Ignored(Module!Steps[i])
    PROVE  i \in {13, 16, 18, 19}
<1> DEFINE what(k) == Module!Steps[k].what
<1>1. i \in {1, 2, 3, 4, 5, 6, 7, 8, 9, 10, 11, 12, 14, 15, 17} \cup {13, 16, 18, 19}
  OBVIOUS
<1>2. \A k \in {1, 2, 3, 4, 5, 6, 7, 8, 9, 10, 11, 12, 14, 15, 17} :
          what(k) \notin {"FILE_WATCHER::Create", "RegisterEventSource", "CreateRefTraceLog",
                          "WEBSOCKET_HANDLER::StaticInitialize"}
  BY DEF Module!Steps, Module!RegisterSteps, Module!StaticInitializeSteps,
     Module!WebSocketSteps, Module!Step
<1> QED
  BY <1>1, <1>2 DEF Module!Skipped, Module!Ignored

LEMMA StepsSkipped ==
    ASSUME ~Module!Skipped(Module!Steps[19])
    PROVE  g_fWebSocketSupported
<1>1. Module!Steps[19].what = "WEBSOCKET_HANDLER::StaticInitialize"
  BY DEF Module!Steps, Module!RegisterSteps, Module!StaticInitializeSteps,
     Module!WebSocketSteps, Module!Step
<1> QED
  BY <1>1 DEF Module!Skipped

ModuleLabels == {"load", "resolve", "factory", "notify", "static", "failure", "failureWait",
                 "returned", "terminate", "wait", "rest", "unloaded"}
ModuleTypes ==
    /\ mpc \in ModuleLabels
    /\ factory \in {"nobody", "RegisterModule", "IIS"} /\ hr \in {"S_OK", "failed"}

Pointers == global \in [Module!Globals -> BOOLEAN] /\ exists \in [Module!Globals -> Int]

\* What APPLICATION_MANAGER::Cleanup clears.
Cleaned == {"sm_pApplicationManager", "m_pApplicationHash", "m_pFileWatcher",
            "m_hCompletionPort", "m_hChangeNotificationThread"}
NoneIsSet == \A g \in Module!Globals : ~global[g]

\* What is set goes with the place of the registration, or of the undoing.
Stages ==
    /\ mpc \in {"load", "resolve", "factory"} => factory = "nobody" /\ NoneIsSet
    /\ mpc = "notify" => factory = "RegisterModule" /\ NoneIsSet
    /\ mpc = "static" => /\ factory = "IIS" /\ step \in 1 .. 19
                         /\ \A g \in Module!Globals :
                             /\ Place(g) >= step => ~global[g]
                             /\ Place(g) < step /\ g \notin Module!Optional => global[g]
    /\ mpc \in {"failure", "failureWait"} => factory = "IIS" /\ hr = "failed"
    /\ mpc = "returned" => /\ factory = "IIS" \/ (factory = "nobody" /\ NoneIsSet /\ hr = "failed")
                           /\ hr = "S_OK" => \A g \in Module!Globals \ Module!Optional : global[g]
    /\ mpc \in {"terminate", "wait", "rest"} =>
           factory = "IIS" \/ (factory = "RegisterModule" /\ hr = "failed")
    /\ mpc \in {"wait", "failureWait", "rest"} => \A g \in Cleaned : ~global[g]
    /\ mpc = "rest" => \A g \in Module!Statics : ~global[g]
    /\ mpc = "unloaded" => factory = "nobody" /\ NoneIsSet

\* The websockets' trace log is only made when they are supported; the heap of
\* the allocator is made before and released after the cache that uses it.
Dependent ==
    /\ global["websocket.sm_pTraceLog"] => g_fWebSocketSupported
    /\ global["sm_pAlloc"] => global["sm_hHeap"]

\* Nothing is acquired twice, nor released twice.
Once == \A g \in Module!Globals \ {"m_hCompletionPort"} : exists[g] = IF global[g] THEN 1 ELSE 0

\* The functions looked up so far have their pointers set.
Resolved ==
    /\ mpc = "load" => hr = "S_OK"
    /\ mpc = "resolve" => /\ hr = "S_OK" /\ step \in Nat \ {0}
                          /\ g_fWebSocketSupported =>
                                \A i \in DOMAIN Functions : i < step => Functions[i] \in resolved
    /\ mpc \notin {"load", "resolve"} /\ hr = "S_OK" /\ g_fWebSocketSupported =>
           \A i \in DOMAIN Functions : Functions[i] \in resolved

ModuleInv == ModuleTypes /\ Pointers /\ Stages /\ Dependent /\ Once /\ Resolved

LEMMA ModuleInit == Module!Init => ModuleInv
<1> SUFFICES ASSUME Module!Init  PROVE ModuleInv
  OBVIOUS
<1>1. ModuleTypes /\ Pointers
  <2>1. ModuleTypes
    BY DEF Module!Init, ModuleTypes, ModuleLabels
  <2>2. Pointers
    BY DEF Module!Init, Pointers
  <2> QED
    BY <2>1, <2>2
<1>2. Stages /\ Resolved
  BY DEF Module!Init, Stages, NoneIsSet, Resolved
<1>3. Dependent /\ Once
  BY DEF Module!Init, Dependent, Once, Module!Globals
<1> QED
  BY <1>1, <1>2, <1>3 DEF ModuleInv

LEMMA ModuleCleans == ModuleInv => Module!CleansWhatItSet
BY DEF ModuleInv, ModuleTypes, ModuleLabels, Stages, NoneIsSet, Dependent, Once, Resolved,
   Module!CleansWhatItSet

\* Every step but those of the static initialisation and of its undoing leaves
\* what is set alone.
LEMMA ModuleKeeps ==
    ASSUME ModuleInv, UNCHANGED <<global, exists>>,
           \/ Module!LoadGlobalConfiguration \/ Module!GetProcAddress
           \/ Module!GetProcAddressFails \/ Module!NewFactory
           \/ Module!SetRequestNotifications \/ Module!StaticFails \/ Module!ProcessStarts
           \/ Module!ProcessEnds \/ Module!Unload \/ Module!Sleep
    PROVE  ModuleInv'
<1> USE DEF ModuleInv, ModuleTypes, ModuleLabels, Stages, NoneIsSet, Dependent, Once, Resolved,
        Module!owned, Module!flags, Module!Goto
<1>0. Pointers'
  BY DEF Pointers
<1>1. CASE Module!LoadGlobalConfiguration
  <2>1. ModuleTypes' /\ Once'
    BY <1>1, <1>0 DEF Module!LoadGlobalConfiguration
  <2>2. Stages' /\ Dependent'
    BY <1>1, <1>0 DEF Module!LoadGlobalConfiguration, Module!Globals
  <2>3. Resolved'
    BY <1>1, <1>0, UnitsAssumption DEF Module!LoadGlobalConfiguration
  <2> QED
    BY <1>0, <2>1, <2>2, <2>3
<1>2. CASE Module!GetProcAddress
  BY <1>2, <1>0, UnitsAssumption DEF Module!GetProcAddress
<1>3. CASE Module!GetProcAddressFails
  <2>1. ModuleTypes' /\ Once'
    BY <1>3, <1>0 DEF Module!GetProcAddressFails
  <2>2. Stages' /\ Dependent'
    BY <1>3, <1>0 DEF Module!GetProcAddressFails, Module!Globals
  <2>3. Resolved'
    BY <1>3, <1>0, UnitsAssumption DEF Module!GetProcAddressFails
  <2> QED
    BY <1>0, <2>1, <2>2, <2>3
<1>4. CASE Module!NewFactory
  BY <1>4, <1>0 DEF Module!NewFactory
<1>5. CASE Module!SetRequestNotifications
  BY <1>5, <1>0, PlaceRange DEF Module!SetRequestNotifications
<1>6. CASE Module!StaticFails
  BY <1>6, <1>0 DEF Module!StaticFails
<1>7. CASE Module!ProcessStarts \/ Module!ProcessEnds
  BY <1>7, <1>0 DEF Module!ProcessStarts, Module!ProcessEnds
<1>8. CASE Module!Unload
  BY <1>8, <1>0 DEF Module!Unload
<1>9. CASE Module!Sleep
  BY <1>9, <1>0 DEF Module!Sleep
<1> QED
  BY <1>0, <1>1, <1>2, <1>3, <1>4, <1>5, <1>6, <1>7, <1>8, <1>9

\* A step of the initialisation sets what was not set, or is optional.
LEMMA ModuleSets ==
    ASSUME ModuleInv, Module!StaticStep
    PROVE  ModuleInv'
<1> DEFINE s == Module!Steps[step]
<1>1. mpc = "static" /\ step \in 1 .. 19 /\ factory = "IIS"
  BY DEF ModuleInv, Stages, Module!StaticStep
<1>2. s.gets = {g \in Module!Globals : Place(g) = step}
  BY <1>1, StepsInOrder
<1>3. /\ factory' = factory /\ hr' = hr /\ g_fWebSocketSupported' = g_fWebSocketSupported
      /\ resolved' = resolved
      /\ IF step = 19 THEN mpc' = "returned" ELSE mpc' = "static" /\ step' = step + 1
  BY <1>1, StepsLength DEF Module!StaticStep, Module!Goto, Module!flags
<1>4. \/ /\ ~Module!Skipped(s)
         /\ \A g \in Module!Globals : global'[g] <=> global[g] \/ Place(g) = step
         /\ \A g \in Module!Globals : exists'[g] = exists[g] + IF Place(g) = step THEN 1 ELSE 0
         /\ Pointers'
      \/ (Module!Skipped(s) \/ Module!Ignored(s)) /\ UNCHANGED <<global, exists>>
  <2>1. CASE ~Module!Skipped(s) /\ Module!Acquired(s.gets)
    <3>1. global' = [g \in Module!Globals |-> global[g] \/ g \in s.gets]
      BY <2>1 DEF Module!Acquired
    <3>2. exists' = [g \in Module!Globals |-> exists[g] + IF g \in s.gets THEN 1 ELSE 0]
      BY <2>1 DEF Module!Acquired
    <3>3. global' \in [Module!Globals -> BOOLEAN]
      BY <3>1
    <3>4. exists' \in [Module!Globals -> Int]
      <4> SUFFICES ASSUME NEW g \in Module!Globals
                   PROVE  exists[g] + (IF g \in s.gets THEN 1 ELSE 0) \in Int
        BY <3>2
      <4>1. exists[g] \in Int
        BY DEF ModuleInv, Pointers
      <4>2. (IF g \in s.gets THEN 1 ELSE 0) \in Int
        OBVIOUS
      <4> QED
        BY <4>1, <4>2
    <3> HIDE DEF s
    <3>5. \A g \in Module!Globals : g \in s.gets <=> Place(g) = step
      BY <1>2
    <3> QED
      BY <2>1, <3>1, <3>2, <3>3, <3>4, <3>5 DEF Pointers
  <2>2. CASE (Module!Skipped(s) \/ Module!Ignored(s)) /\ UNCHANGED Module!owned
    BY <2>2 DEF Module!owned
  <2> QED
    BY <2>1, <2>2 DEF Module!StaticStep
<1>5. Pointers'
  BY <1>4 DEF ModuleInv, Pointers
<1>6. /\ \A g \in Module!Globals : global[g] => global'[g]
      /\ \A g \in Module!Globals : Place(g) # step => (global'[g] <=> global[g])
      /\ \A g \in Module!Globals : Place(g) = step /\ g \notin Module!Optional => global'[g]
  <2>1. CASE ~Module!Skipped(s) /\ \A g \in Module!Globals : global'[g] <=> global[g] \/ Place(g) = step
    BY <2>1
  <2>2. CASE (Module!Skipped(s) \/ Module!Ignored(s)) /\ UNCHANGED <<global, exists>>
    <3>1. step \in {13, 16, 18, 19}
      BY <2>2, <1>1, StepsIgnored
    <3>2. \A g \in Module!Globals : Place(g) = step => g \in Module!Optional
      BY <3>1 DEF Place, Module!Globals, Module!Optional
    <3> QED
      BY <2>2, <3>2
  <2> QED
    BY <1>4, <2>1, <2>2
<1>7. global'["websocket.sm_pTraceLog"] => g_fWebSocketSupported
  <2>1. Place("websocket.sm_pTraceLog") = 19 /\ "websocket.sm_pTraceLog" \in Module!Globals
    BY DEF Place, Module!Globals
  <2>2. CASE step = 19 /\ ~Module!Skipped(s)
    BY <2>2, StepsSkipped
  <2>3. CASE step # 19 \/ UNCHANGED <<global, exists>>
    BY <1>6, <2>1, <2>3 DEF ModuleInv, Dependent
  <2> QED
    BY <1>4, <2>2, <2>3
<1>8. Once'
  <2> SUFFICES ASSUME NEW g \in Module!Globals, g # "m_hCompletionPort"
               PROVE  exists'[g] = IF global'[g] THEN 1 ELSE 0
    BY DEF Once
  <2>1. exists[g] = IF global[g] THEN 1 ELSE 0
    BY DEF ModuleInv, Once
  <2>2. Place(g) = step => ~global[g]
    BY <1>1, PlaceRange DEF ModuleInv, Stages
  <2>3. CASE Place(g) = step
    BY <1>4, <2>1, <2>2, <2>3
  <2>4. CASE Place(g) # step
    BY <1>4, <2>1, <2>4 DEF ModuleInv, Pointers
  <2> QED
    BY <2>3, <2>4
<1>9. Dependent'
  <2>1. /\ Place("sm_pAlloc") = 4 /\ "sm_pAlloc" \in Module!Globals
        /\ Place("sm_hHeap") = 3 /\ "sm_hHeap" \in Module!Globals
        /\ "sm_hHeap" \notin Module!Optional
    BY DEF Place, Module!Globals, Module!Optional
  <2>2. global'["sm_pAlloc"] => global'["sm_hHeap"]
    BY <1>1, <1>6, <2>1 DEF ModuleInv, Dependent, Stages
  <2> QED
    BY <1>3, <1>7, <2>2 DEF Dependent
<1>10. Stages'
  BY <1>1, <1>3, <1>6, PlaceRange DEF ModuleInv, Stages, NoneIsSet
<1>11. ModuleTypes' /\ Resolved'
  BY <1>1, <1>3 DEF ModuleInv, ModuleTypes, ModuleLabels, Resolved
<1> QED
  BY <1>5, <1>8, <1>9, <1>10, <1>11 DEF ModuleInv

\* The undoing clears what it releases.
LEMMA ModuleReleases ==
    ASSUME ModuleInv, NEW S \in SUBSET Module!Globals,
           \A g \in Module!Globals : global'[g] <=> global[g] /\ g \notin S,
           \A g \in Module!Globals \ {"m_hCompletionPort"} :
               exists'[g] = exists[g] - IF g \in S /\ global[g] THEN 1 ELSE 0
    PROVE  Once'
<1> SUFFICES ASSUME NEW g \in Module!Globals \ {"m_hCompletionPort"}
             PROVE  exists'[g] = IF global'[g] THEN 1 ELSE 0
  BY DEF Once
<1>1. exists[g] = IF global[g] THEN 1 ELSE 0
  BY DEF ModuleInv, Once
<1>2. CASE global[g]
  BY <1>1, <1>2
<1>3. CASE ~global[g]
  BY <1>1, <1>3
<1> QED
  BY <1>2, <1>3

LEMMA ModuleClears ==
    ASSUME ModuleInv, Module!Cleanup \/ Module!StaticTerminate \/ Module!Terminate
    PROVE  ModuleInv'
<1>1. CASE Module!Cleanup
  <2> USE <1>1 DEF Module!Cleanup
  <2>1. Pointers'
    BY DEF ModuleInv, Pointers
  <2>2. \A g \in Module!Globals : global'[g] <=> global[g] /\ g \notin Cleaned
    BY DEF Cleaned
  <2>3. Once'
    BY <2>2, ModuleReleases DEF Cleaned, Module!Globals
  <2>4. ModuleTypes' /\ Resolved'
    BY DEF ModuleInv, ModuleTypes, ModuleLabels, Resolved, Module!flags
  <2>5. Stages'
    BY <2>2 DEF ModuleInv, Stages, NoneIsSet, Cleaned, Module!Globals
  <2>6. Dependent'
    BY <2>2 DEF ModuleInv, Dependent, Cleaned, Module!Globals, Module!flags
  <2> QED
    BY <2>1, <2>3, <2>4, <2>5, <2>6 DEF ModuleInv
<1>2. CASE Module!StaticTerminate
  <2> USE <1>2 DEF Module!StaticTerminate, Module!Released, Module!Goto
  <2>1. Pointers'
    BY DEF ModuleInv, Pointers
  <2>2. \A g \in Module!Globals : global'[g] <=> global[g] /\ g \notin Module!Statics
    OBVIOUS
  <2>3. Once'
    BY <2>2, ModuleReleases DEF Module!Statics, Module!Globals
  <2>4. ModuleTypes' /\ Resolved'
    BY DEF ModuleInv, ModuleTypes, ModuleLabels, Resolved, Module!flags
  <2>5. Stages'
    BY <2>2 DEF ModuleInv, Stages, NoneIsSet, Cleaned, Module!Statics, Module!Globals
  <2>6. Dependent'
    BY <2>2 DEF ModuleInv, Dependent, Module!Statics, Module!Globals, Module!flags
  <2> QED
    BY <2>1, <2>3, <2>4, <2>5, <2>6 DEF ModuleInv
<1>3. CASE Module!Terminate
  <2> USE <1>3 DEF Module!Terminate, Module!Released, Module!Goto
  <2> DEFINE Rest == {"g_pResponseHeaderHash", "sm_hHeap"} \cup
                     IF g_fWebSocketSupported THEN {"websocket.sm_pTraceLog"} ELSE {}
  <2>1. Pointers'
    BY DEF ModuleInv, Pointers
  <2>2. \A g \in Module!Globals : global'[g] <=> global[g] /\ g \notin Rest
    OBVIOUS
  <2>3. Once'
    BY <2>2, ModuleReleases DEF Module!Globals
  <2>4. NoneIsSet'
    BY <2>2 DEF ModuleInv, Stages, Dependent, NoneIsSet, Cleaned, Module!Statics, Module!Globals
  <2>5. ModuleTypes' /\ Resolved'
    BY DEF ModuleInv, ModuleTypes, ModuleLabels, Resolved, Stages, Module!flags
  <2>6. Stages'
    BY <2>4 DEF ModuleInv, Stages, NoneIsSet
  <2>7. Dependent'
    BY <2>4 DEF Dependent, NoneIsSet, Module!Globals
  <2> QED
    BY <2>1, <2>3, <2>5, <2>6, <2>7 DEF ModuleInv
<1> QED
  BY <1>1, <1>2, <1>3

-----------------------------------------------------------------------------
(* The stdout log of a server process.                                     *)

StdoutLabels == {"setup", "start", "ready", "failed", "failedCancel", "failedWait", "stopped",
                 "destructor", "cancel", "wait", "delete", "deleted"}
StdoutTypes ==
    /\ spc \in StdoutLabels /\ m_fStdoutLogEnabled \in BOOLEAN
    /\ timer \in {"NULL", "set", "forgotten"} /\ queued \in Nat
    /\ callback \in [Threads -> {"idle", "open", "close"}] /\ logged \in {"live", "deleted"}

\* Only a timer that is set ticks or has callbacks, and not once it was
\* cancelled; the destructor and a failed start go on when it is set no more.
TimerRuns ==
    /\ timer # "set" => ~ticking /\ queued = 0 /\ \A c \in Threads : callback[c] = "idle"
    /\ timer = "set" => m_fStdoutLogEnabled /\ spc \notin {"setup", "stopped", "delete", "deleted"}
    /\ spc \in {"wait", "failedWait"} => ~ticking
    /\ fInCanel <=> spc \in {"wait", "failedWait"}

\* The handle is open from the set-up to the first clean-up.
HandleIsOpen ==
    /\ handles = IF m_hStdoutHandle THEN 1 ELSE 0
    /\ spc = "setup" \/ (spc \in {"start", "ready"} /\ hStdOutput # "log") => ~m_hStdoutHandle
    /\ spc \in {"start", "ready"} /\ hStdOutput = "log" => m_hStdoutHandle
    /\ spc \in {"cancel", "wait", "delete", "deleted"} => ~m_hStdoutHandle
    /\ logged = "deleted" <=> spc = "deleted"

StdoutInv == StdoutTypes /\ TimerRuns /\ HandleIsOpen

LEMMA StdoutInit == Stdout!Init => StdoutInv
BY DEF Stdout!Init, StdoutInv, StdoutTypes, StdoutLabels, TimerRuns, HandleIsOpen

LEMMA StdoutNext ==
    ASSUME StdoutInv, [Stdout!Next]_stdoutVars
    PROVE  StdoutInv'
<1> USE DEF StdoutInv, StdoutTypes, StdoutLabels, TimerRuns, HandleIsOpen,
        Stdout!logVars, Stdout!timerVars, Stdout!poolVars
<1>1. CASE Stdout!SetupStdHandles
  BY <1>1 DEF Stdout!SetupStdHandles, Stdout!InitializeTimer
<1>2. CASE Stdout!StartEnds
  BY <1>2 DEF Stdout!StartEnds
<1>3. CASE Stdout!StartFails
  <2>1. CASE Stdout!CloseStdoutHandle("failed", "failedCancel")
    BY <2>1 DEF Stdout!CloseStdoutHandle
  <2>2. CASE Stdout!CancelTimer("failedCancel", "failedWait", "stopped")
    BY <2>2 DEF Stdout!CancelTimer
  <2>3. CASE Stdout!WaitForThreadpoolTimerCallbacks("failedWait", "stopped")
    BY <2>3 DEF Stdout!WaitForThreadpoolTimerCallbacks
  <2> QED
    BY <1>3, <2>1, <2>2, <2>3 DEF Stdout!StartFails
<1>4. CASE Stdout!LastDereference
  BY <1>4 DEF Stdout!LastDereference
<1>5. CASE Stdout!Destructor
  <2>1. CASE Stdout!CloseStdoutHandle("destructor", "cancel")
    BY <2>1 DEF Stdout!CloseStdoutHandle
  <2>2. CASE Stdout!CancelTimer("cancel", "wait", "delete")
    BY <2>2 DEF Stdout!CancelTimer
  <2>3. CASE Stdout!WaitForThreadpoolTimerCallbacks("wait", "delete")
    BY <2>3 DEF Stdout!WaitForThreadpoolTimerCallbacks
  <2>4. CASE Stdout!Delete
    BY <2>4 DEF Stdout!Delete
  <2> QED
    BY <1>5, <2>1, <2>2, <2>3, <2>4 DEF Stdout!Destructor
<1>6. CASE Stdout!TimerIsDue
  BY <1>6 DEF Stdout!TimerIsDue
<1>7. ASSUME NEW c \in Threads, Stdout!TimerCallback(c)  PROVE StdoutInv'
  BY <1>7 DEF Stdout!TimerCallback, Stdout!CallbackBegins, Stdout!CallbackOpens,
     Stdout!CallbackCloses
<1>8. CASE UNCHANGED stdoutVars
  BY <1>8 DEF stdoutVars
<1> QED
  BY <1>1, <1>2, <1>3, <1>4, <1>5, <1>6, <1>7, <1>8 DEF Stdout!Next

LEMMA StdoutCleans == StdoutInv => Stdout!CleansWhatItSet
BY DEF StdoutInv, StdoutTypes, StdoutLabels, TimerRuns, HandleIsOpen, Stdout!CleansWhatItSet

\* Whatever fails and in whatever order callbacks and clean-ups come: the
\* module and a process with a stdout log undo what they set up, once.
THEOREM CleansWhatItSetTheorem == Spec => []CleansWhatItSet
<1>1. Init => ModuleInv /\ StdoutInv
  BY ModuleInit, StdoutInit DEF Init
<1>2. ModuleInv /\ [Module!Next]_moduleVars => ModuleInv'
  <2>1. ASSUME ModuleInv, Module!Next  PROVE ModuleInv'
    BY <2>1, ModuleKeeps, ModuleSets, ModuleClears DEF Module!Next, Module!owned,
       Module!LoadGlobalConfiguration, Module!GetProcAddress, Module!GetProcAddressFails,
       Module!NewFactory, Module!SetRequestNotifications, Module!StaticFails,
       Module!ProcessStarts, Module!ProcessEnds, Module!Unload, Module!Sleep
  <2>2. ASSUME ModuleInv, UNCHANGED moduleVars  PROVE ModuleInv'
    BY <2>2 DEF moduleVars, ModuleInv, ModuleTypes, ModuleLabels, Pointers, Stages, NoneIsSet,
       Dependent, Once, Resolved
  <2> QED
    BY <2>1, <2>2
<1>3. ModuleInv /\ StdoutInv /\ [Next]_vars => (ModuleInv /\ StdoutInv)'
  BY <1>2, StdoutNext, Alone
<1>4. ModuleInv /\ StdoutInv => CleansWhatItSet
  BY ModuleCleans, StdoutCleans DEF CleansWhatItSet
<1> QED
  BY <1>1, <1>3, <1>4, PTL DEF Spec, vars

-----------------------------------------------------------------------------
(* The allocation cache: any number of threads, processors and blocks, as  *)
(* long as the threads are too few to push a list's depth past what        *)
(* QueryDepthSList can return.                                             *)

CacheAssumptions ==
    /\ IsFiniteSet(Threads) /\ Null \notin Blocks
    /\ nThreshold \in Nat /\ MaxDepth \in Nat
    /\ nThreshold + Cardinality(Threads) - 1 <= MaxDepth

CacheLabels == {"idle", "pop", "heap", "clear", "depth", "heapfree", "push"}

CacheTypes ==
    /\ m_nThreshold \in 0 .. nThreshold
    /\ lists \in [Cpus -> Seq(Blocks)]
    /\ heap \subseteq Blocks /\ signed \subseteq Blocks /\ users \subseteq Blocks
    /\ cpc \in [Threads -> CacheLabels]
    /\ block \in [Threads -> Blocks \cup {Null}] /\ list \in [Threads -> Cpus \cup {Null}]

\* Which calls have a block, which of them have signed it, and which have
\* chosen a list.
CacheCalls ==
    \A t \in Threads :
        /\ cpc[t] \in {"idle", "pop", "heap"} <=> block[t] = Null
        /\ cpc[t] \in {"depth", "heapfree", "push"} => block[t] \in signed
        /\ cpc[t] \in {"pop", "depth", "heapfree", "push"} => list[t] \in Cpus

\* SignatureTells and InOnePlace, entry by entry.
CachePlaced ==
    /\ \A c, d \in Cpus : \A i \in 1 .. Len(lists[c]), j \in 1 .. Len(lists[d]) :
        lists[c][i] = lists[d][j] => c = d /\ i = j
    /\ \A c \in Cpus : \A i \in 1 .. Len(lists[c]) :
        /\ lists[c][i] \in signed \ (users \cup heap)
        /\ \A t \in Threads : block[t] # lists[c][i]
    /\ users \cap heap = {} /\ users \cap signed = {}
    /\ \A t \in Threads : block[t] # Null =>
        /\ block[t] \notin users \cup heap
        /\ \A u \in Threads : block[u] = block[t] => u = t

\* The calls about to push on a list.
CachePushers(c) == {t \in Threads : cpc[t] = "push" /\ list[t] = c}

\* The lists.

LEMMA CachePopped ==
    ASSUME NEW l \in Seq(Blocks), l # <<>>
    PROVE  /\ Head(l) = l[1] /\ l[1] \in Blocks /\ Len(l) \in Nat \ {0}
           /\ Tail(l) \in Seq(Blocks) /\ Len(Tail(l)) = Len(l) - 1
           /\ \A i \in 1 .. Len(l) - 1 : Tail(l)[i] = l[i + 1]
OBVIOUS

LEMMA CachePushed ==
    ASSUME NEW l \in Seq(Blocks), NEW b \in Blocks
    PROVE  /\ <<b>> \o l \in Seq(Blocks) /\ Len(<<b>> \o l) = Len(l) + 1
           /\ (<<b>> \o l)[1] = b
           /\ \A i \in 1 .. Len(l) : (<<b>> \o l)[i + 1] = l[i]
OBVIOUS

LEMMA CacheEntries ==
    ASSUME NEW l \in Seq(Blocks)
    PROVE  Len(l) \in Nat /\ \A i \in 1 .. Len(l) : l[i] \in Blocks
OBVIOUS

\* One step keeps the types, action by action.
LEMMA CacheNextTypes ==
    ASSUME CacheAssumptions, CacheTypes, CacheCalls, [Cache!Next]_cacheVars
    PROVE  CacheTypes'
<1> USE DEF CacheAssumptions, CacheTypes, CacheCalls, CacheLabels, Cache!Goto, Cache!Holds,
            Cache!GetLocal
<1>1. ASSUME NEW t \in Threads, Cache!Alloc(t)  PROVE CacheTypes'
  <2>1. list' \in [Threads -> Cpus \cup {Null}]
    BY <1>1 DEF Cache!Alloc
  <2>2. cpc' \in [Threads -> CacheLabels]
    BY <1>1 DEF Cache!Alloc
  <2> QED
    BY <1>1, <2>1, <2>2 DEF Cache!Alloc
<1>2. ASSUME NEW t \in Threads, Cache!Pop(t)  PROVE CacheTypes'
  <2>1. CASE lists[list[t]] # <<>>
    <3>1. lists[list[t]] \in Seq(Blocks)
      BY <1>2 DEF Cache!Pop
    <3>2. Head(lists[list[t]]) \in Blocks /\ Tail(lists[list[t]]) \in Seq(Blocks)
      BY <2>1, <3>1, CachePopped
    <3>3. /\ lists' = [lists EXCEPT ![list[t]] = Tail(lists[list[t]])]
          /\ block' = [block EXCEPT ![t] = Head(lists[list[t]])]
      BY <1>2, <2>1 DEF Cache!Pop
    <3>4. block' \in [Threads -> Blocks \cup {Null}]
      BY <3>2, <3>3
    <3>5. lists' \in [Cpus -> Seq(Blocks)]
      BY <3>2, <3>3
    <3> QED  BY <1>2, <2>1, <3>4, <3>5 DEF Cache!Pop
  <2> QED  BY <1>2, <2>1 DEF Cache!Pop
<1>3. ASSUME NEW t \in Threads, Cache!HeapAlloc(t)  PROVE CacheTypes'
  BY <1>3 DEF Cache!HeapAlloc
<1>4. ASSUME NEW t \in Threads, Cache!ClearSignature(t)  PROVE CacheTypes'
  BY <1>4 DEF Cache!ClearSignature
<1>5. ASSUME NEW t \in Threads, Cache!QueryDepth(t)  PROVE CacheTypes'
  BY <1>5 DEF Cache!QueryDepth
<1>6. ASSUME NEW t \in Threads, Cache!HeapFree(t)  PROVE CacheTypes'
  BY <1>6 DEF Cache!HeapFree
<1>7. ASSUME NEW t \in Threads, Cache!Push(t)  PROVE CacheTypes'
  <2>1. block[t] \in Blocks
    BY <1>7 DEF Cache!Push
  <2> QED  BY <1>7, <2>1, CachePushed DEF Cache!Push
<1>8. ASSUME NEW t \in Threads, NEW b \in Blocks, Cache!Free(t, b)  PROVE CacheTypes'
  BY <1>8 DEF Cache!Free
<1>9. CASE Cache!CleanupLookaside
  <2>1. \A c \in Cpus : \A i \in 1 .. Len(lists[c]) : lists[c][i] \in Blocks
    BY CacheEntries
  <2>2. heap' \subseteq Blocks
    BY <1>9, <2>1 DEF Cache!CleanupLookaside
  <2>3. <<>> \in Seq(Blocks)
    OBVIOUS
  <2> QED  BY <1>9, <2>2, <2>3 DEF Cache!CleanupLookaside
<1>10. CASE UNCHANGED cacheVars
  BY <1>10 DEF cacheVars
<1> QED
  BY <1>1, <1>2, <1>3, <1>4, <1>5, <1>6, <1>7, <1>8, <1>9, <1>10 DEF Cache!Next

LEMMA CacheNextCalls ==
    ASSUME CacheAssumptions, CacheTypes, CacheCalls, CachePlaced, [Cache!Next]_cacheVars
    PROVE  CacheCalls'
<1> USE DEF CacheAssumptions, CacheTypes, CacheCalls, CacheLabels, Cache!Goto, Cache!Holds,
            Cache!GetLocal
<1>1. ASSUME NEW t \in Threads, Cache!Alloc(t)  PROVE CacheCalls'
  BY <1>1 DEF Cache!Alloc
<1>2. ASSUME NEW t \in Threads, Cache!Pop(t)  PROVE CacheCalls'
  <2>1. CASE lists[list[t]] # <<>>
    <3>1. lists[list[t]] \in Seq(Blocks)
      BY <1>2 DEF Cache!Pop
    <3>2. Head(lists[list[t]]) \in Blocks
      BY <2>1, <3>1, CachePopped
    <3> QED  BY <1>2, <2>1, <3>2 DEF Cache!Pop
  <2> QED  BY <1>2, <2>1 DEF Cache!Pop
<1>3. ASSUME NEW t \in Threads, Cache!HeapAlloc(t)  PROVE CacheCalls'
  BY <1>3 DEF Cache!HeapAlloc
<1>4. ASSUME NEW t \in Threads, Cache!ClearSignature(t)  PROVE CacheCalls'
  BY <1>4 DEF Cache!ClearSignature, CachePlaced
<1>5. ASSUME NEW t \in Threads, Cache!QueryDepth(t)  PROVE CacheCalls'
  BY <1>5 DEF Cache!QueryDepth
<1>6. ASSUME NEW t \in Threads, Cache!HeapFree(t)  PROVE CacheCalls'
  BY <1>6 DEF Cache!HeapFree
<1>7. ASSUME NEW t \in Threads, Cache!Push(t)  PROVE CacheCalls'
  BY <1>7 DEF Cache!Push
<1>8. ASSUME NEW t \in Threads, NEW b \in Blocks, Cache!Free(t, b)  PROVE CacheCalls'
  BY <1>8 DEF Cache!Free
<1>9. CASE Cache!CleanupLookaside
  BY <1>9 DEF Cache!CleanupLookaside
<1>10. CASE UNCHANGED cacheVars
  BY <1>10 DEF cacheVars
<1> QED
  BY <1>1, <1>2, <1>3, <1>4, <1>5, <1>6, <1>7, <1>8, <1>9, <1>10 DEF Cache!Next

\* One step keeps every block in one place: a pop shortens a list by its first
\* entry, a push adds one that was nowhere else.
LEMMA CacheNextPlaced ==
    ASSUME CacheAssumptions, CacheTypes, CacheCalls, CachePlaced, [Cache!Next]_cacheVars
    PROVE  CachePlaced'
<1> USE DEF CacheAssumptions, CacheTypes, CacheCalls, CachePlaced, CacheLabels, Cache!Goto,
            Cache!Holds
<1>1. ASSUME NEW t \in Threads, Cache!Alloc(t)  PROVE CachePlaced'
  BY <1>1 DEF Cache!Alloc
<1>2. ASSUME NEW t \in Threads, Cache!Pop(t)  PROVE CachePlaced'
  <2> DEFINE c == list[t]  l == lists[c]
  <2>1. CASE l # <<>>
    <3>1. /\ c \in Cpus /\ l \in Seq(Blocks) /\ block[t] = Null
          /\ lists' = [lists EXCEPT ![c] = Tail(l)]
          /\ block' = [block EXCEPT ![t] = Head(l)]
          /\ UNCHANGED <<heap, signed, users>>
      BY <1>2, <2>1 DEF Cache!Pop
    <3>2. /\ Head(l) = l[1] /\ l[1] \in Blocks /\ 1 \in 1 .. Len(l)
          /\ Len(Tail(l)) = Len(l) - 1 /\ Len(l) \in Nat
          /\ \A i \in 1 .. Len(l) - 1 : Tail(l)[i] = l[i + 1]
      BY <2>1, <3>1, CachePopped
    <3>3. /\ \A d \in Cpus \ {c} : lists'[d] = lists[d]
          /\ lists'[c] = Tail(l)
      BY <3>1
    <3>4. \A d \in Cpus : \A i \in 1 .. Len(lists'[d]) :
            \E j \in 1 .. Len(lists[d]) : /\ lists'[d][i] = lists[d][j]
                                          /\ d = c => j = i + 1
                                          /\ d # c => j = i
      <4>1. ASSUME NEW i \in 1 .. Len(lists'[c])
            PROVE  i + 1 \in 1 .. Len(l) /\ lists'[c][i] = l[i + 1]
        BY <3>2, <3>3
      <4> QED
        BY <3>3, <4>1
    <3>5. \A d \in Cpus : \A i \in 1 .. Len(lists'[d]) : lists'[d][i] # l[1]
      BY <3>1, <3>2, <3>4
    <3>6. ASSUME NEW d \in Cpus, NEW e \in Cpus, NEW i \in 1 .. Len(lists'[d]),
                 NEW j \in 1 .. Len(lists'[e]), lists'[d][i] = lists'[e][j]
          PROVE  d = e /\ i = j
      <4> HIDE DEF CacheAssumptions, CacheTypes, CacheCalls, CachePlaced, CacheLabels, Cache!Goto, Cache!Holds
      <4>1. PICK m \in 1 .. Len(lists[d]) :
              lists'[d][i] = lists[d][m] /\ (d = c => m = i + 1) /\ (d # c => m = i)
        BY <3>4
      <4>2. PICK n \in 1 .. Len(lists[e]) :
              lists'[e][j] = lists[e][n] /\ (e = c => n = j + 1) /\ (e # c => n = j)
        BY <3>4
      <4>3. lists[d][m] = lists[e][n]
        BY <3>6, <4>1, <4>2
      <4>4. d = e /\ m = n
        BY <4>3 DEF CachePlaced
      <4>5. i \in Int /\ j \in Int
        BY <3>1, <3>3
      <4> QED
        BY <4>1, <4>2, <4>4, <4>5
    <3>7. \A d \in Cpus : \A i \in 1 .. Len(lists'[d]) :
            /\ lists'[d][i] \in signed' \ (users' \cup heap')
            /\ \A u \in Threads : block'[u] # lists'[d][i]
      BY <3>1, <3>2, <3>4, <3>5
    <3>8. \A u \in Threads : block'[u] # Null =>
            /\ block'[u] \notin users' \cup heap'
            /\ \A v \in Threads : block'[v] = block'[u] => v = u
      BY <3>1, <3>2
    <3> QED
      BY <3>1, <3>6, <3>7, <3>8
  <2> QED  BY <1>2, <2>1 DEF Cache!Pop
<1>3. ASSUME NEW t \in Threads, Cache!HeapAlloc(t)  PROVE CachePlaced'
  BY <1>3 DEF Cache!HeapAlloc
<1>4. ASSUME NEW t \in Threads, Cache!ClearSignature(t)  PROVE CachePlaced'
  BY <1>4 DEF Cache!ClearSignature
<1>5. ASSUME NEW t \in Threads, Cache!QueryDepth(t)  PROVE CachePlaced'
  BY <1>5 DEF Cache!QueryDepth
<1>6. ASSUME NEW t \in Threads, Cache!HeapFree(t)  PROVE CachePlaced'
  BY <1>6 DEF Cache!HeapFree
<1>7. ASSUME NEW t \in Threads, Cache!Push(t)  PROVE CachePlaced'
  <2> DEFINE c == list[t]  l == lists[c]  b == block[t]
  <2>1. /\ c \in Cpus /\ l \in Seq(Blocks) /\ b \in Blocks /\ b \in signed
        /\ lists' = [lists EXCEPT ![c] = <<b>> \o l]
        /\ block' = [block EXCEPT ![t] = Null]
        /\ UNCHANGED <<heap, signed, users>>
    BY <1>7 DEF Cache!Push
  <2>2. /\ Len(<<b>> \o l) = Len(l) + 1 /\ Len(l) \in Nat
        /\ (<<b>> \o l)[1] = b
        /\ \A i \in 1 .. Len(l) : (<<b>> \o l)[i + 1] = l[i]
    BY <2>1, CachePushed, CacheEntries
  <2>3. /\ \A d \in Cpus \ {c} : lists'[d] = lists[d]
        /\ lists'[c] = <<b>> \o l
    BY <2>1
  <2>4. \A d \in Cpus : \A i \in 1 .. Len(lists'[d]) :
          \/ d = c /\ i = 1 /\ lists'[d][i] = b
          \/ \E j \in 1 .. Len(lists[d]) : /\ lists'[d][i] = lists[d][j]
                                           /\ i = IF d = c THEN j + 1 ELSE j
    <3>1. ASSUME NEW i \in 1 .. Len(lists'[c]), i # 1
          PROVE  i - 1 \in 1 .. Len(l) /\ lists'[c][i] = l[i - 1] /\ i = (i - 1) + 1
      <4>1. i - 1 \in 1 .. Len(l) /\ i = (i - 1) + 1
        BY <2>2, <2>3, <3>1
      <4> QED
        BY <2>2, <2>3, <4>1
    <3>2. ASSUME NEW d \in Cpus, d # c, NEW i \in 1 .. Len(lists'[d])
          PROVE  i \in 1 .. Len(lists[d]) /\ lists'[d][i] = lists[d][i]
      BY <2>3, <3>2
    <3>3. \A i \in 1 .. Len(lists'[c]) :
            \/ i = 1 /\ lists'[c][i] = b
            \/ \E j \in 1 .. Len(l) : lists'[c][i] = l[j] /\ i = j + 1
      BY <2>2, <2>3, <3>1
    <3> QED
      BY <3>2, <3>3
  <2>5. \A d \in Cpus : \A j \in 1 .. Len(lists[d]) : lists[d][j] # b
    BY DEF CachePlaced
  <2>6. ASSUME NEW d \in Cpus, NEW e \in Cpus, NEW i \in 1 .. Len(lists'[d]),
               NEW j \in 1 .. Len(lists'[e]), lists'[d][i] = lists'[e][j]
        PROVE  d = e /\ i = j
    <3> HIDE DEF CacheAssumptions, CacheTypes, CacheCalls, CachePlaced, CacheLabels, Cache!Goto, Cache!Holds
    <3>1. CASE lists'[d][i] = b
      <4>1. d = c /\ i = 1
        BY <2>4, <2>5, <3>1
      <4>2. lists'[e][j] = b
        BY <2>6, <3>1
      <4>3. ASSUME ~(e = c /\ j = 1)  PROVE FALSE
        <5>1. \E n \in 1 .. Len(lists[e]) : lists'[e][j] = lists[e][n]
          <6>1. \/ e = c /\ j = 1 /\ lists'[e][j] = b
                \/ \E n \in 1 .. Len(lists[e]) : /\ lists'[e][j] = lists[e][n]
                                                 /\ j = IF e = c THEN n + 1 ELSE n
            BY <2>4
          <6> QED
            BY <4>3, <6>1
        <5> QED
          BY <2>5, <4>2, <5>1
      <4> QED
        BY <4>1, <4>3
    <3>2. CASE lists'[d][i] # b
      <4>1. PICK m \in 1 .. Len(lists[d]) :
              lists'[d][i] = lists[d][m] /\ i = IF d = c THEN m + 1 ELSE m
        BY <2>4, <3>2
      <4>2. PICK n \in 1 .. Len(lists[e]) :
              lists'[e][j] = lists[e][n] /\ j = IF e = c THEN n + 1 ELSE n
        BY <2>4, <2>6, <3>2
      <4>3. lists[d][m] = lists[e][n]
        BY <2>6, <4>1, <4>2
      <4>4. d = e /\ m = n
        BY <4>3 DEF CachePlaced
      <4> QED
        BY <4>1, <4>2, <4>4
    <3> QED
      BY <3>1, <3>2
  <2>7. b \notin users \cup heap /\ \A u \in Threads \ {t} : block[u] # b
    BY <2>1
  <2>8. \A d \in Cpus : \A i \in 1 .. Len(lists'[d]) :
          /\ lists'[d][i] \in signed' \ (users' \cup heap')
          /\ \A u \in Threads : block'[u] # lists'[d][i]
    BY <2>1, <2>4, <2>7
  <2> QED
    BY <2>1, <2>6, <2>8
<1>8. ASSUME NEW t \in Threads, NEW b \in Blocks, Cache!Free(t, b)  PROVE CachePlaced'
  BY <1>8 DEF Cache!Free
<1>9. CASE Cache!CleanupLookaside
  <2>1. \A c \in Cpus : lists'[c] = <<>> /\ Len(lists'[c]) = 0
    BY <1>9 DEF Cache!CleanupLookaside
  <2>2. \A b \in heap' \ heap : \E c \in Cpus : \E i \in 1 .. Len(lists[c]) : b = lists[c][i]
    BY <1>9 DEF Cache!CleanupLookaside
  <2> QED  BY <1>9, <2>1, <2>2 DEF Cache!CleanupLookaside
<1>10. CASE UNCHANGED cacheVars
  BY <1>10 DEF cacheVars
<1> QED
  BY <1>1, <1>2, <1>3, <1>4, <1>5, <1>6, <1>7, <1>8, <1>9, <1>10 DEF Cache!Next

\* The depth of a list.

\* At most all threads are about to push.
LEMMA CacheCachePushersFinite ==
    ASSUME CacheAssumptions, NEW c
    PROVE  /\ IsFiniteSet(CachePushers(c)) /\ Cardinality(CachePushers(c)) \in Nat
           /\ Cardinality(CachePushers(c)) <= Cardinality(Threads) /\ Cardinality(Threads) \in Nat
<1>1. CachePushers(c) \in SUBSET Threads
  BY DEF CachePushers
<1>2. /\ IsFiniteSet(CachePushers(c)) /\ Cardinality(CachePushers(c)) <= Cardinality(Threads)
  BY <1>1, FS_Subset DEF CacheAssumptions
<1> QED
  BY <1>2, FS_CardinalityType DEF CacheAssumptions

\* QueryDepthSList is exact as long as the depth fits.
LEMMA CacheSmallRemainder == \A n, m \in Nat : n <= m => n % (m + 1) = n
BY SMT

\* DepthBound in terms of CachePushers.
LEMMA CacheDepthIs ==
    Cache!DepthBound = \A c \in Cpus :
        m_nThreshold > 0 =>
            Len(lists[c]) + Cardinality(CachePushers(c)) <= m_nThreshold + Cardinality(Threads) - 1
BY DEF Cache!DepthBound, Cache!Cardinality, Cardinality, CachePushers

\* No push begins or ends and no list grows.
LEMMA CacheSameDepth ==
    ASSUME CacheAssumptions, CacheTypes, Cache!DepthBound, UNCHANGED m_nThreshold,
           \A c \in Cpus : /\ Len(lists'[c]) <= Len(lists[c]) /\ Len(lists'[c]) \in Nat
                           /\ CachePushers(c)' = CachePushers(c)
    PROVE  Cache!DepthBound'
<1>1. ASSUME NEW c \in Cpus, m_nThreshold > 0
      PROVE  Len(lists'[c]) + Cardinality(CachePushers(c)') <= m_nThreshold + Cardinality(Threads) - 1
  <2>1. Len(lists[c]) + Cardinality(CachePushers(c)) <= m_nThreshold + Cardinality(Threads) - 1
    BY <1>1, CacheDepthIs
  <2>2. Cardinality(CachePushers(c)') \in Nat /\ Cardinality(CachePushers(c)) = Cardinality(CachePushers(c)')
    BY CacheCachePushersFinite
  <2>3. Len(lists[c]) \in Nat /\ m_nThreshold \in Int /\ Cardinality(Threads) \in Nat
    BY CacheEntries, CacheCachePushersFinite DEF CacheTypes, CacheAssumptions
  <2> QED
    BY <2>1, <2>2, <2>3
<1>2. (\A c \in Cpus :
        m_nThreshold' > 0 =>
            Len(lists'[c]) + Cardinality(CachePushers(c)') <= m_nThreshold' + Cardinality(Threads) - 1)
  BY <1>1
<1> QED
  BY <1>2 DEF Cache!DepthBound, Cache!Cardinality, Cardinality, CachePushers

\* One step keeps the bound: whoever decides to push has seen a depth below the
\* threshold, and the others that may push as well are at most all threads.
LEMMA CacheNextDepthBound ==
    ASSUME CacheAssumptions, CacheTypes, CacheCalls, Cache!DepthBound, [Cache!Next]_cacheVars
    PROVE  Cache!DepthBound'
<1>1. \A c \in Cpus : Len(lists[c]) \in Nat
  BY CacheEntries DEF CacheTypes
<1>2. m_nThreshold \in Nat /\ Cardinality(Threads) \in Nat
  BY FS_CardinalityType DEF CacheTypes, CacheAssumptions
<1>3. ASSUME NEW t \in Threads,
             Cache!Alloc(t) \/ Cache!HeapAlloc(t) \/ Cache!ClearSignature(t) \/ Cache!HeapFree(t)
                \/ \E b \in Blocks : Cache!Free(t, b)
      PROVE  Cache!DepthBound'
  <2>1. UNCHANGED <<m_nThreshold, lists>> /\ cpc[t] # "push"
    BY <1>3 DEF Cache!Alloc, Cache!HeapAlloc, Cache!ClearSignature, Cache!HeapFree, Cache!Free
  <2>2. /\ \A u \in Threads \ {t} : cpc'[u] = cpc[u] /\ list'[u] = list[u]
        /\ cpc'[t] # "push"
    BY <1>3 DEF Cache!Alloc, Cache!HeapAlloc, Cache!ClearSignature, Cache!HeapFree, Cache!Free, Cache!Goto,
       Cache!GetLocal, CacheTypes
  <2>3. \A c \in Cpus : CachePushers(c)' = CachePushers(c)
    BY <2>1, <2>2 DEF CachePushers
  <2> QED
    BY <1>1, <2>1, <2>3, CacheSameDepth
<1>4. ASSUME NEW t \in Threads, Cache!Pop(t)  PROVE Cache!DepthBound'
  <2>1. UNCHANGED <<m_nThreshold, list>> /\ cpc[t] = "pop" /\ list[t] \in Cpus
    BY <1>4 DEF Cache!Pop, CacheCalls
  <2>2. \A u \in Threads : cpc'[u] = "push" <=> cpc[u] = "push"
    BY <1>4, <2>1 DEF Cache!Pop, Cache!Goto, CacheTypes
  <2>3. \A c \in Cpus : CachePushers(c)' = CachePushers(c)
    BY <2>1, <2>2 DEF CachePushers
  <2>4. CASE lists[list[t]] = <<>>
    <3>1. lists' = lists
      BY <1>4, <2>4 DEF Cache!Pop
    <3> QED
      BY <1>1, <2>1, <2>3, <3>1, CacheSameDepth
  <2>5. CASE lists[list[t]] # <<>>
    <3>1. lists' = [lists EXCEPT ![list[t]] = Tail(lists[list[t]])]
      BY <1>4, <2>5 DEF Cache!Pop
    <3>2. lists[list[t]] \in Seq(Blocks)
      BY <2>1 DEF CacheTypes
    <3>3. Len(Tail(lists[list[t]])) = Len(lists[list[t]]) - 1 /\ Len(lists[list[t]]) \in Nat \ {0}
      BY <2>5, <3>2, CachePopped
    <3>4. \A c \in Cpus : Len(lists'[c]) <= Len(lists[c]) /\ Len(lists'[c]) \in Nat
      BY <1>1, <3>1, <3>3 DEF CacheTypes
    <3> QED
      BY <2>1, <2>3, <3>4, CacheSameDepth
  <2> QED
    BY <2>4, <2>5
<1>5. ASSUME NEW t \in Threads, Cache!QueryDepth(t)  PROVE Cache!DepthBound'
  <2> DEFINE c == list[t]
  <2>1. UNCHANGED <<m_nThreshold, lists, list>> /\ cpc[t] = "depth" /\ c \in Cpus
    BY <1>5 DEF Cache!QueryDepth, CacheCalls
  <2>2. CASE ~(Cache!Depth(c) >= m_nThreshold)
    <3>1. cpc' = [cpc EXCEPT ![t] = "push"]
      BY <1>5, <2>2 DEF Cache!QueryDepth, Cache!Goto
    <3>2. \A d \in Cpus \ {c} : CachePushers(d)' = CachePushers(d)
      BY <2>1, <3>1 DEF CachePushers, CacheTypes
    <3>3. ASSUME m_nThreshold > 0
          PROVE  Len(lists'[c]) + Cardinality(CachePushers(c)') <= m_nThreshold + Cardinality(Threads) - 1
      <4>1. Len(lists[c]) + Cardinality(CachePushers(c)) <= m_nThreshold + Cardinality(Threads) - 1
        BY <2>1, <3>3, CacheDepthIs
      <4>2. Cardinality(CachePushers(c)) \in Nat /\ m_nThreshold <= nThreshold
        BY CacheCachePushersFinite DEF CacheTypes, CacheAssumptions
      <4>3. Len(lists[c]) <= MaxDepth /\ MaxDepth \in Nat /\ nThreshold \in Nat
        BY <1>1, <1>2, <2>1, <4>1, <4>2 DEF CacheAssumptions
      <4>4. Cache!Depth(c) = Len(lists[c])
        BY <1>1, <2>1, <4>3, CacheSmallRemainder DEF Cache!Depth
      <4>5. Cardinality(CachePushers(c)') <= Cardinality(Threads) /\ Cardinality(CachePushers(c)') \in Nat
        <5>1. CachePushers(c)' \in SUBSET Threads
          BY DEF CachePushers
        <5>2. IsFiniteSet(CachePushers(c)') /\ Cardinality(CachePushers(c)') <= Cardinality(Threads)
          BY <5>1, FS_Subset DEF CacheAssumptions
        <5> QED
          BY <5>2, FS_CardinalityType
      <4> QED
        BY <1>1, <1>2, <2>1, <2>2, <4>4, <4>5
    <3>4. ASSUME NEW d \in Cpus, m_nThreshold' > 0
          PROVE  Len(lists'[d]) + Cardinality(CachePushers(d)')
                    <= m_nThreshold' + Cardinality(Threads) - 1
      BY <2>1, <3>2, <3>3, <3>4, CacheDepthIs
    <3> QED
      BY <3>4 DEF Cache!DepthBound, Cache!Cardinality, Cardinality, CachePushers
  <2>3. CASE Cache!Depth(c) >= m_nThreshold
    <3>1. cpc' = [cpc EXCEPT ![t] = "heapfree"]
      BY <1>5, <2>3 DEF Cache!QueryDepth, Cache!Goto
    <3>2. \A d \in Cpus : CachePushers(d)' = CachePushers(d)
      BY <2>1, <3>1 DEF CachePushers, CacheTypes
    <3> QED
      BY <1>1, <2>1, <3>2, CacheSameDepth
  <2> QED
    BY <2>2, <2>3
<1>6. ASSUME NEW t \in Threads, Cache!Push(t)  PROVE Cache!DepthBound'
  <2> DEFINE c == list[t]  l == lists[c]
  <2>1. /\ UNCHANGED <<m_nThreshold, list>> /\ c \in Cpus /\ l \in Seq(Blocks)
        /\ cpc[t] = "push" /\ cpc' = [cpc EXCEPT ![t] = "idle"] /\ block[t] \in Blocks
        /\ lists' = [lists EXCEPT ![c] = <<block[t]>> \o l]
    BY <1>6 DEF Cache!Push, CacheCalls, CacheTypes, Cache!Goto
  <2>2. Len(lists'[c]) = Len(l) + 1
    BY <2>1, CachePushed DEF CacheTypes
  <2>3. t \in CachePushers(c) /\ CachePushers(c)' = CachePushers(c) \ {t}
    BY <2>1 DEF CachePushers, CacheTypes
  <2>4. Cardinality(CachePushers(c)') = Cardinality(CachePushers(c)) - 1 /\ Cardinality(CachePushers(c)) \in Nat
    BY <2>3, CacheCachePushersFinite, FS_RemoveElement
  <2>5. \A d \in Cpus \ {c} : CachePushers(d)' = CachePushers(d) /\ lists'[d] = lists[d]
    BY <2>1 DEF CachePushers, CacheTypes
  <2>6. ASSUME NEW d \in Cpus, m_nThreshold' > 0
        PROVE  Len(lists'[d]) + Cardinality(CachePushers(d)')
                  <= m_nThreshold' + Cardinality(Threads) - 1
    <3>1. Len(lists[d]) + Cardinality(CachePushers(d)) <= m_nThreshold + Cardinality(Threads) - 1
      BY <2>1, <2>6, CacheDepthIs
    <3>2. CASE d = c
      BY <1>1, <1>2, <2>1, <2>2, <2>4, <3>1, <3>2
    <3>3. CASE d # c
      BY <2>1, <2>5, <3>1, <3>3
    <3> QED
      BY <3>2, <3>3
  <2> QED
    BY <2>6 DEF Cache!DepthBound, Cache!Cardinality, Cardinality, CachePushers
<1>7. CASE Cache!CleanupLookaside
  <2>1. \A c \in Cpus : CachePushers(c)' = {} /\ lists'[c] = <<>> /\ Len(lists'[c]) = 0
    BY <1>7 DEF Cache!CleanupLookaside, CachePushers
  <2>2. m_nThreshold' = m_nThreshold /\ Cardinality({}) = 0
    BY <1>7, FS_EmptySet DEF Cache!CleanupLookaside
  <2>3. ASSUME NEW c \in Cpus, m_nThreshold' > 0
        PROVE  Len(lists'[c]) + Cardinality(CachePushers(c)')
                  <= m_nThreshold' + Cardinality(Threads) - 1
    <3>1. Cardinality(CachePushers(c)') = 0
      BY <2>1, <2>2
    <3>2. m_nThreshold' >= 1 /\ m_nThreshold' \in Nat
      BY <1>2, <2>2, <2>3
    <3> QED
      BY <1>2, <2>1, <3>1, <3>2
  <2> QED
    BY <2>3 DEF Cache!DepthBound, Cache!Cardinality, Cardinality, CachePushers
<1>8. CASE UNCHANGED cacheVars
  BY <1>8 DEF cacheVars, Cache!DepthBound
<1> QED
  BY <1>3, <1>4, <1>5, <1>6, <1>7, <1>8 DEF Cache!Next

CacheInv == CacheTypes /\ CacheCalls /\ CachePlaced /\ Cache!DepthBound

LEMMA CacheInitInv == ASSUME CacheAssumptions, Cache!Init PROVE CacheInv
<1>1. CacheTypes
  <2>1. m_nThreshold \in 0 .. nThreshold
    BY DEF CacheAssumptions, Cache!Init
  <2>2. <<>> \in Seq(Blocks)
    OBVIOUS
  <2> QED
    BY <2>1, <2>2 DEF Cache!Init, CacheTypes, CacheLabels
<1>2. \A c \in Cpus : Len(lists[c]) = 0
  BY DEF Cache!Init
<1>3. CacheCalls /\ CachePlaced
  BY <1>2 DEF Cache!Init, CacheCalls, CachePlaced, CacheAssumptions
<1>4. \A c \in Cpus : CachePushers(c) = {}
  BY DEF Cache!Init, CachePushers
<1>5. m_nThreshold \in Nat /\ Cardinality(Threads) \in Nat /\ Cardinality({}) = 0
  BY <1>1, FS_CardinalityType, FS_EmptySet DEF CacheTypes, CacheAssumptions
<1>6. Cache!DepthBound
  <2>1. \A c \in Cpus : Cardinality(CachePushers(c)) = 0
    BY <1>4, <1>5
  <2>2. \A c \in Cpus :
          m_nThreshold > 0 =>
            Len(lists[c]) + Cardinality(CachePushers(c)) <= m_nThreshold + Cardinality(Threads) - 1
    BY <1>2, <1>5, <2>1
  <2> QED
    BY <2>2, CacheDepthIs
<1> QED
  BY <1>1, <1>3, <1>6 DEF CacheInv

LEMMA CacheNextInv == ASSUME CacheAssumptions, CacheInv, [Cache!Next]_cacheVars PROVE CacheInv'
BY CacheNextTypes, CacheNextCalls, CacheNextPlaced, CacheNextDepthBound DEF CacheInv

\* For any number of threads, processors and blocks: a block is in one place,
\* the signature tells whether it is in use, and no list gets longer than the
\* threshold and what the other threads add to it (acache.cxx).
THEOREM CacheIsSoundTheorem == Spec => []CacheIsSound
<1>1. CacheAssumptions
  BY UnitsAssumption DEF CacheAssumptions
<1>2. Init => CacheInv
  BY <1>1, CacheInitInv DEF Init
<1>3. CacheInv /\ [Next]_vars => CacheInv'
  BY <1>1, Alone, CacheNextInv
<1>4. CacheInv => CacheIsSound
  BY DEF CacheInv, CacheIsSound, Cache!CacheIsSound, CachePlaced, Cache!SignatureTells,
     Cache!InOnePlace, Cache!Waiting
<1> QED
  BY <1>2, <1>3, <1>4, PTL DEF Spec, vars

-----------------------------------------------------------------------------
(* The trace log.                                                          *)

\* Products of sizes.
LEMMA MulAtLeast == ASSUME NEW x \in Nat \ {0}, NEW y \in Nat PROVE x * y \in Nat /\ x * y >= y
<1>1. x * y = y + (x - 1) * y
  OBVIOUS
<1>2. (x - 1) * y >= 0 /\ x * y \in Int
  OBVIOUS
<1> QED
  BY <1>1, <1>2

\* A slot of the ring lies behind its predecessors and in the ring.
LEMMA SlotFits ==
    ASSUME NEW L \in Nat, NEW E \in Nat \ {0}, NEW i \in Nat, i < L
    PROVE  i * E >= 0 /\ i * E + E <= L * E
<1>1. L * E = i * E + (L - i) * E
  OBVIOUS
<1>2. (L - i) * E >= E
  BY MulAtLeast
<1> QED
  BY <1>1, <1>2

LEMMA ByteFits ==
    ASSUME NEW B \in Nat, NEW L \in Nat, NEW E \in Nat \ {0}, NEW i \in 0 .. L - 1, NEW k \in 0 .. E - 1
    PROVE  B + i * E + k \in 0 .. B + L * E - 1
<1>1. i * E >= 0 /\ i * E + E <= L * E /\ i * E \in Int /\ L * E \in Int
  BY SlotFits
<1> QED
  BY <1>1

\* What comes to one slot is a lap apart.
LEMMA ALapApart ==
    ASSUME NEW L \in Nat \ {0}, NEW a \in Nat, NEW b \in Nat, a % L = b % L, a < b
    PROVE  b - a >= L
<1>1. a % L = a - L * (a \div L) /\ b % L = b - L * (b \div L)
  OBVIOUS
<1>2. b - a = L * ((b \div L) - (a \div L))
  BY <1>1
<1>3. (b \div L) - (a \div L) \in Nat \ {0}
  BY <1>2
<1> QED
  BY <1>2, <1>3, MulAtLeast
LEMMA ModSmall == ASSUME NEW L \in Nat \ {0}, NEW a \in Nat PROVE a % L \in 0 .. L - 1 /\ (a < L => a % L = a) /\ L % L = 0
OBVIOUS

\* The byte k of the slot i.
Byte(i, k) == log.LogBuffer + i * log.EntrySize + k

Logs == [LogSize : Nat \ {0}, EntrySize : Nat \ {0}, LogBuffer : Nat]

LogTypes ==
    /\ log = Null \/ log \in Logs
    /\ writes \in 0 .. MaxWrites /\ NextEntry = IF writes = 0 THEN Log!ULongRange - 1 ELSE writes - 1
    /\ lpc \in [Threads -> {"idle", "copy"}]
    /\ index \in [Threads -> Nat] /\ number \in [Threads -> Nat] /\ copied \in [Threads -> Nat]

\* A write under way fills the slot of its number, and has that number alone.
Copiers ==
    \A t \in Threads : lpc[t] = "copy" =>
        /\ log # Null /\ number[t] \in 1 .. writes
        /\ index[t] = (number[t] - 1) % log.LogSize /\ copied[t] \in 0 .. log.EntrySize - 1
        /\ \A u \in Threads \ {t} : lpc[u] = "copy" => number[u] # number[t]

Ring ==
    log # Null =>
        /\ DOMAIN memory = 0 .. log.LogBuffer + log.LogSize * log.EntrySize - 1
        /\ \A a \in DOMAIN memory : memory[a] \in 0 .. writes

\* A byte comes from a write to its slot, and is only missing from a write of
\* the first lap while that is under way.
Bytes ==
    log # Null => \A i \in 0 .. log.LogSize - 1, k \in 0 .. log.EntrySize - 1 :
        /\ memory[Byte(i, k)] # 0 => (memory[Byte(i, k)] - 1) % log.LogSize = i
        /\ memory[Byte(i, k)] = 0 /\ i < writes =>
              \E t \in Threads : lpc[t] = "copy" /\ number[t] = i + 1 /\ copied[t] <= k

LogInv == LogTypes /\ Copiers /\ Ring /\ Bytes

LEMMA LogInit == Log!Init => LogInv
BY UnitsAssumption DEF Log!Init, LogInv, LogTypes, Copiers, Ring, Bytes

LEMMA LogCreates ==
    ASSUME LogInv, NEW s \in Sizes, Log!CreateTraceLog(s[1], s[2], s[3])
    PROVE  LogInv'
<1> DEFINE total == HeaderSize + s[2] + s[1] * s[3]
<1>1. s[1] \in Nat \ {0} /\ s[2] \in Nat /\ s[3] \in Nat \ {0} /\ HeaderSize \in Nat
  BY UnitsAssumption
<1>2. s[1] * s[3] \in Nat
  BY <1>1, MulAtLeast
<1>3. Log!ULongAdd(Log!ULongAdd(HeaderSize, s[2]), Log!ULongMult(s[1], s[3])) = total
  BY <1>1, <1>2, UnitsAssumption DEF Log!CreateTraceLog, Log!ULongAdd, Log!ULongMult, Log!Fits
<1>4. /\ log' = [LogSize |-> s[1], EntrySize |-> s[3], LogBuffer |-> HeaderSize + s[2]]
      /\ memory' = [i \in 0 .. total - 1 |-> 0] /\ NextEntry' = Log!ULongRange - 1 /\ writes' = 0
      /\ UNCHANGED <<lpc, index, number, copied>> /\ log = Null
  BY <1>3 DEF Log!CreateTraceLog
<1>5. LogTypes'
  <2>1. log' \in Logs
    BY <1>1, <1>4 DEF Logs
  <2>2. writes' \in 0 .. MaxWrites /\ NextEntry' = IF writes' = 0 THEN Log!ULongRange - 1 ELSE writes' - 1
    BY <1>4, UnitsAssumption
  <2> QED
    BY <1>4, <2>1, <2>2 DEF LogInv, LogTypes
<1> HIDE DEF total
<1>6. Copiers'
  BY <1>4 DEF LogInv, Copiers
<1>7. Ring'
  BY <1>1, <1>2, <1>4 DEF Ring, total
<1>8. Bytes'
  <2>0. log'.LogSize = s[1] /\ log'.EntrySize = s[3] /\ log'.LogBuffer = HeaderSize + s[2] /\ writes' = 0
    BY <1>4
  <2> SUFFICES ASSUME NEW i \in 0 .. s[1] - 1, NEW k \in 0 .. s[3] - 1
               PROVE  memory'[Byte(i, k)'] = 0
    BY <2>0 DEF Bytes
  <2>1. i * s[3] >= 0 /\ i * s[3] + s[3] <= s[1] * s[3] /\ i * s[3] \in Int
    BY <1>1, SlotFits
  <2>2. Byte(i, k)' = HeaderSize + s[2] + i * s[3] + k
    BY <2>0 DEF Byte
  <2>3. Byte(i, k)' \in 0 .. total - 1
    BY <1>1, <1>2, <2>1, <2>2 DEF total
  <2> QED
    BY <1>4, <2>3
<1> QED
  BY <1>5, <1>6, <1>7, <1>8 DEF LogInv

LEMMA LogDestroys == LogInv /\ Log!DestroyTraceLog => LogInv'
BY DEF LogInv, LogTypes, Copiers, Ring, Bytes, Log!DestroyTraceLog, Log!Quiet

LEMMA LogWrites ==
    ASSUME LogInv, NEW t \in Threads, Log!WriteTraceLog(t)
    PROVE  LogInv'
<1> USE DEF LogInv
<1>1. /\ log # Null /\ log \in Logs /\ lpc[t] = "idle" /\ writes \in Nat /\ writes < MaxWrites
      /\ MaxWrites \in Nat /\ Log!ULongRange \in Nat /\ MaxWrites <= Log!ULongRange
  BY UnitsAssumption DEF LogTypes, Log!WriteTraceLog, Log!ULongRange
<1>2. NextEntry' = writes /\ writes' = writes + 1
  <2>1. NextEntry' = (NextEntry + 1) % Log!ULongRange /\ writes' = writes + 1
    BY DEF Log!WriteTraceLog
  <2>2. NextEntry + 1 = IF writes = 0 THEN Log!ULongRange ELSE writes
    BY <1>1 DEF LogTypes
  <2>3. Log!ULongRange \in Nat \ {0} /\ writes < Log!ULongRange
    BY <1>1
  <2> HIDE DEF LogInv
  <2>4. writes % Log!ULongRange = writes /\ Log!ULongRange % Log!ULongRange = 0
    BY <1>1, <2>3, ModSmall
  <2> QED
    BY <2>1, <2>2, <2>4
<1>3. writes % log.LogSize \in Nat
  BY <1>1, ModSmall DEF Logs
<1>4. LogTypes'
  BY <1>1, <1>2, <1>3 DEF LogTypes, Log!WriteTraceLog
<1>5. Copiers'
  BY <1>1, <1>2 DEF LogTypes, Copiers, Log!WriteTraceLog, Logs
<1>6. Ring'
  BY <1>1, <1>2 DEF Ring, Log!WriteTraceLog
<1>7. Bytes'
  <2> SUFFICES ASSUME NEW i \in 0 .. log.LogSize - 1, NEW k \in 0 .. log.EntrySize - 1
               PROVE  /\ memory[Byte(i, k)] # 0 => (memory[Byte(i, k)] - 1) % log.LogSize = i
                      /\ memory[Byte(i, k)] = 0 /\ i < writes' =>
                            \E u \in Threads : lpc'[u] = "copy" /\ number'[u] = i + 1 /\ copied'[u] <= k
    BY <1>1 DEF Bytes, Byte, Log!WriteTraceLog
  <2>1. CASE i < writes
    BY <1>1, <2>1 DEF Bytes, LogTypes, Log!WriteTraceLog
  <2>2. CASE i = writes
    BY <1>1, <1>2, <2>2 DEF Bytes, LogTypes, Log!WriteTraceLog
  <2>3. CASE i > writes
    BY <1>1, <1>2, <2>3 DEF Bytes
  <2> QED
    BY <1>1, <2>1, <2>2, <2>3 DEF Logs
<1> QED
  BY <1>4, <1>5, <1>6, <1>7

LEMMA LogCopies ==
    ASSUME LogInv, NEW t \in Threads, Log!CopyByte(t)
    PROVE  LogInv'
<1> USE DEF LogInv
<1> DEFINE a == Byte(index[t], copied[t])
<1>1. /\ lpc[t] = "copy" /\ log # Null /\ log \in Logs
      /\ number[t] \in 1 .. writes /\ index[t] = (number[t] - 1) % log.LogSize
      /\ copied[t] \in 0 .. log.EntrySize - 1 /\ writes \in Nat
  BY UnitsAssumption DEF LogTypes, Copiers, Log!CopyByte
<1>2. index[t] \in 0 .. log.LogSize - 1
  <2>1. log.LogSize \in Nat \ {0} /\ number[t] - 1 \in Nat
    BY <1>1 DEF Logs
  <2> QED
    BY <1>1, <2>1, ModSmall
<1>3. /\ memory' = [i \in DOMAIN memory |-> IF i = a THEN number[t] ELSE memory[i]]
      /\ UNCHANGED <<log, NextEntry, writes, index, number>>
  BY DEF Log!CopyByte, Log!Target, Byte
<1>4. /\ copied' = [copied EXCEPT ![t] = copied[t] + 1]
      /\ lpc' = [lpc EXCEPT ![t] = IF copied[t] + 1 = log.EntrySize THEN "idle" ELSE "copy"]
  BY DEF Log!CopyByte, LogTypes
<1>5. LogTypes'
  BY <1>1, <1>3, <1>4 DEF LogTypes
<1>6. Copiers'
  BY <1>1, <1>3, <1>4 DEF LogTypes, Copiers, Logs
<1>7. Ring'
  BY <1>1, <1>3 DEF Ring
<1>8. Bytes'
  <2> SUFFICES ASSUME NEW i \in 0 .. log.LogSize - 1, NEW k \in 0 .. log.EntrySize - 1
               PROVE  /\ memory'[Byte(i, k)] # 0 => (memory'[Byte(i, k)] - 1) % log.LogSize = i
                      /\ memory'[Byte(i, k)] = 0 /\ i < writes =>
                            \E u \in Threads : lpc'[u] = "copy" /\ number[u] = i + 1 /\ copied'[u] <= k
    BY <1>1, <1>3 DEF Bytes, Byte
  <2>1. Byte(i, k) \in DOMAIN memory
    <3>1. log.LogBuffer \in Nat /\ log.LogSize \in Nat /\ log.EntrySize \in Nat \ {0}
      BY <1>1 DEF Logs
    <3>2. DOMAIN memory = 0 .. log.LogBuffer + log.LogSize * log.EntrySize - 1
      BY <1>1 DEF Ring
    <3> HIDE DEF LogInv
    <3> QED
      BY <3>1, <3>2, ByteFits DEF Byte
  <2>2. CASE i = index[t] /\ k = copied[t]
    BY <1>1, <1>3, <2>1, <2>2
  <2>3. CASE ~(i = index[t] /\ k = copied[t])
    <3>1. Byte(i, k) # a
      <4>1. /\ log.EntrySize \in Nat \ {0} /\ i \in Nat /\ index[t] \in Nat /\ log.LogBuffer \in Nat
            /\ copied[t] \in 0 .. log.EntrySize - 1
        BY <1>1, <1>2 DEF Logs
      <4> SUFFICES ASSUME Byte(i, k) = a  PROVE FALSE
        OBVIOUS
      <4> HIDE DEF LogInv, a
      <4>2. a = log.LogBuffer + index[t] * log.EntrySize + copied[t]
        BY DEF a, Byte
      <4>3. log.LogBuffer + i * log.EntrySize + k = log.LogBuffer + index[t] * log.EntrySize + copied[t]
        BY <4>2 DEF Byte
      <4>4. i * log.EntrySize \in Int /\ index[t] * log.EntrySize \in Int
        BY <4>1
      <4>5. CASE i < index[t]
        <5>1. i * log.EntrySize + log.EntrySize <= index[t] * log.EntrySize
          BY <4>1, <4>5, SlotFits
        <5> QED
          BY <4>1, <4>3, <4>4, <5>1
      <4>6. CASE index[t] < i
        <5>1. index[t] * log.EntrySize + log.EntrySize <= i * log.EntrySize
          BY <4>1, <4>6, SlotFits
        <5> QED
          BY <4>1, <4>3, <4>4, <5>1
      <4>7. CASE i = index[t]
        BY <2>3, <4>1, <4>3, <4>4, <4>7
      <4> QED
        BY <4>1, <4>5, <4>6, <4>7
    <3>2. memory'[Byte(i, k)] = memory[Byte(i, k)]
      BY <1>3, <2>1, <3>1
    <3>3. memory[Byte(i, k)] # 0 => (memory[Byte(i, k)] - 1) % log.LogSize = i
      BY <1>1 DEF Bytes
    <3>4. ASSUME memory[Byte(i, k)] = 0, i < writes
          PROVE  \E u \in Threads : lpc'[u] = "copy" /\ number[u] = i + 1 /\ copied'[u] <= k
      <4>1. PICK u \in Threads : lpc[u] = "copy" /\ number[u] = i + 1 /\ copied[u] <= k
        BY <1>1, <3>4 DEF Bytes
      <4>2. CASE u # t
        BY <1>4, <4>1, <4>2 DEF LogTypes
      <4>3. CASE u = t
        <5>1. index[t] = i
          <6>1. log.LogSize \in Nat \ {0} /\ i \in Nat /\ i < log.LogSize /\ number[t] - 1 = i
            BY <1>1, <4>1, <4>3 DEF Logs
          <6> QED
            BY <1>1, <6>1, ModSmall
        <5>2. copied[t] < k
          BY <1>1, <2>3, <4>1, <4>3, <5>1
        <5> QED
          BY <1>1, <1>4, <4>1, <4>3, <5>2 DEF LogTypes, Logs
      <4> QED
        BY <4>2, <4>3
    <3> QED
      BY <3>2, <3>3, <3>4
  <2> QED
    BY <2>2, <2>3
<1> QED
  BY <1>5, <1>6, <1>7, <1>8

LEMMA LogNext == LogInv /\ [Log!Next]_logVars => LogInv'
<1> SUFFICES ASSUME LogInv, [Log!Next]_logVars  PROVE LogInv'
  OBVIOUS
<1>1. CASE UNCHANGED logVars
  BY <1>1 DEF logVars, LogInv, LogTypes, Copiers, Ring, Bytes, Byte
<1> QED
  BY <1>1, LogCreates, LogDestroys, LogWrites, LogCopies DEF Log!Next

LEMMA LogApart == LogInv => Log!EntriesStayApart
<1> SUFFICES ASSUME LogInv, log # Null  PROVE Log!EntriesStayApart
  BY DEF Log!EntriesStayApart
<1>0. log.LogSize \in Nat \ {0} /\ log.EntrySize \in Nat \ {0} /\ log.LogBuffer \in Nat /\ writes \in Nat
  BY UnitsAssumption DEF LogInv, LogTypes, Logs
<1>1. DOMAIN memory = 0 .. log.LogBuffer + log.LogSize * log.EntrySize - 1
  BY DEF LogInv, Ring
<1>2. \A i \in 0 .. log.LogSize - 1 :
          \A a \in Log!Slot(i) : \E k \in 0 .. log.EntrySize - 1 : a = Byte(i, k)
  <2> SUFFICES ASSUME NEW i \in 0 .. log.LogSize - 1, NEW a \in Log!Slot(i)
               PROVE  \E k \in 0 .. log.EntrySize - 1 : a = Byte(i, k)
    OBVIOUS
  <2>1. i * log.EntrySize \in Int /\ (i + 1) * log.EntrySize = i * log.EntrySize + log.EntrySize
    BY <1>0
  <2>2. a \in log.LogBuffer + i * log.EntrySize .. log.LogBuffer + i * log.EntrySize + log.EntrySize - 1
    BY <1>0, <2>1 DEF Log!Slot
  <2>3. a - (log.LogBuffer + i * log.EntrySize) \in 0 .. log.EntrySize - 1
    BY <1>0, <2>1, <2>2
  <2> QED
    BY <1>0, <2>1, <2>2, <2>3 DEF Byte
<1>3. ASSUME NEW t \in Threads, lpc[t] = "copy"
      PROVE  /\ index[t] < log.LogSize /\ Log!Slot(index[t]) \subseteq DOMAIN memory
             /\ \A u \in Threads \ {t} : lpc[u] = "copy" /\ index[u] = index[t] =>
                    \/ number[t] - number[u] >= log.LogSize
                    \/ number[u] - number[t] >= log.LogSize
  <2>1. number[t] - 1 \in Nat /\ index[t] = (number[t] - 1) % log.LogSize
    BY <1>0, <1>3 DEF LogInv, Copiers
  <2>2. index[t] \in 0 .. log.LogSize - 1
    BY <1>0, <2>1, ModSmall
  <2>3. Log!Slot(index[t]) \subseteq DOMAIN memory
    <3> SUFFICES ASSUME NEW a \in Log!Slot(index[t])  PROVE a \in DOMAIN memory
      OBVIOUS
    <3>1. PICK k \in 0 .. log.EntrySize - 1 : a = Byte(index[t], k)
      BY <1>2, <2>2
    <3> QED
      BY <1>0, <1>1, <2>2, <3>1, ByteFits DEF Byte
  <2>4. ASSUME NEW u \in Threads \ {t}, lpc[u] = "copy", index[u] = index[t]
        PROVE  \/ number[t] - number[u] >= log.LogSize
               \/ number[u] - number[t] >= log.LogSize
    <3>1. number[u] - 1 \in Nat /\ index[u] = (number[u] - 1) % log.LogSize /\ number[u] # number[t]
      BY <1>0, <1>3, <2>4 DEF LogInv, Copiers
    <3>2. CASE number[u] - 1 < number[t] - 1
      <4>1. (number[t] - 1) - (number[u] - 1) >= log.LogSize
        BY <1>0, <2>1, <2>4, <3>1, <3>2, ALapApart
      <4> QED
        BY <1>0, <2>1, <3>1, <4>1 DEF LogInv, LogTypes
    <3>3. CASE number[t] - 1 < number[u] - 1
      <4>1. (number[u] - 1) - (number[t] - 1) >= log.LogSize
        BY <1>0, <2>1, <2>4, <3>1, <3>3, ALapApart
      <4> QED
        BY <1>0, <2>1, <3>1, <4>1 DEF LogInv, LogTypes
    <3> QED
      BY <2>1, <3>1, <3>2, <3>3 DEF LogInv, LogTypes
  <2> QED
    BY <1>0, <2>2, <2>3, <2>4
<1>4. ASSUME NEW i \in 0 .. log.LogSize - 1, NEW a \in Log!Slot(i) \cap DOMAIN memory,
             NEW b \in Log!Slot(i) \cap DOMAIN memory, memory[a] > memory[b],
             \A t \in Threads : ~(lpc[t] = "copy" /\ index[t] = i)
      PROVE  memory[a] - memory[b] >= log.LogSize
  <2>1. PICK k \in 0 .. log.EntrySize - 1 : a = Byte(i, k)
    BY <1>2
  <2>2. PICK l \in 0 .. log.EntrySize - 1 : b = Byte(i, l)
    BY <1>2
  <2>3. memory[a] \in 0 .. writes /\ memory[b] \in 0 .. writes
    BY DEF LogInv, Ring
  <2>4. memory[a] - 1 \in Nat /\ (memory[a] - 1) % log.LogSize = i
    BY <1>0, <1>4, <2>1, <2>3 DEF LogInv, Bytes
  <2>5. CASE memory[b] # 0
    <3>1. memory[b] - 1 \in Nat /\ (memory[b] - 1) % log.LogSize = i
      BY <1>0, <2>2, <2>3, <2>5 DEF LogInv, Bytes
    <3>2. (memory[a] - 1) - (memory[b] - 1) >= log.LogSize
      <4>1. memory[b] - 1 < memory[a] - 1
        BY <1>0, <1>4, <2>3
      <4> QED
        BY <1>0, <2>4, <3>1, <4>1, ALapApart
    <3> QED
      BY <1>0, <2>3, <3>2
  <2>6. CASE memory[b] = 0
    <3>1. ~ (i < writes)
      <4> SUFFICES ASSUME i < writes  PROVE FALSE
        OBVIOUS
      <4>1. PICK t \in Threads : lpc[t] = "copy" /\ number[t] = i + 1
        BY <2>2, <2>6 DEF LogInv, Bytes
      <4>2. index[t] = i % log.LogSize
        BY <4>1 DEF LogInv, Copiers
      <4>3. i \in Nat /\ i < log.LogSize
        BY <1>0
      <4> QED
        BY <1>0, <1>4, <4>1, <4>2, <4>3, ModSmall
    <3>2. memory[a] - 1 < log.LogSize \/ memory[a] - 1 >= log.LogSize
      BY <1>0, <2>3
    <3>3. CASE memory[a] - 1 < log.LogSize
      <4>1. memory[a] - 1 = i
        BY <1>0, <2>4, <3>3, ModSmall
      <4> QED
        BY <1>0, <2>3, <3>1, <4>1
    <3>4. CASE memory[a] - 1 >= log.LogSize
      BY <1>0, <2>3, <2>6, <3>4
    <3> QED
      BY <3>2, <3>3, <3>4
  <2> QED
    BY <2>5, <2>6
<1> QED
  BY <1>3, <1>4 DEF Log!EntriesStayApart

\* For any number of writers and any sizes of the log: a write touches only
\* its slot of the ring, and what meets in a slot is a lap apart, for as many
\* writes as the counter has values.
THEOREM EntriesStayApartTheorem == Spec => []EntriesStayApart
<1>1. Init => LogInv
  BY LogInit DEF Init
<1>2. LogInv /\ [Next]_vars => LogInv'
  BY Alone, LogNext
<1>3. LogInv => EntriesStayApart
  BY LogApart DEF EntriesStayApart
<1> QED
  BY <1>1, <1>2, <1>3, PTL DEF Spec, vars

-----------------------------------------------------------------------------
\* The table's proofs, and their lemmas about sequences of named lines.
TableProofs == INSTANCE HashTable_proofs

-----------------------------------------------------------------------------
(* The response: what the client has of the lines read so far.             *)
\* The headers of which IIS keeps one value.
Single == RESPONSE_HEADERS \ {"Set-Cookie", "WWW-Authenticate"}
Lines == [name : STRING, value : STRING]

\* The lines read so far, and those of them with a name that were not left out.
Seen == SubSeq(response.lines, 1, line - 1)
Kept(h) == {i \in 1 .. line - 1 : ~Response!IsOwn(response.lines[i]) /\ response.lines[i].name = h}

ResponseTypes ==
    /\ response.lines \in Seq({Malformed} \cup Lines) /\ line \in 1 .. Len(response.lines) + 1
    /\ \A i \in 1 .. line - 1 : response.lines[i] \in Lines /\ response.lines[i] # Malformed
    /\ unknown \in Seq(Lines) /\ DOMAIN known = RESPONSE_HEADERS

ResponseLabels ==
    /\ m_fResponseHeadersReceivedAndSet => hpc = "done"
    /\ hpc = "status" => line = 1 /\ status = 200
    /\ hpc = "done" => line = Len(response.lines) + 1
    /\ hpc \in {"lines", "done"} => status = response.status /\ (upgraded => status = 101)

\* What the IIS response has after the lines read so far.
Unknowns == \A n \in STRING : n \notin Single => Response!Named(unknown, {n}) = Response!Named(Seen, {n})

Knowns ==
    \A h \in Single :
        /\ Kept(h) = {} => known[h] = IF h = "Server" /\ hpc # "done" THEN "IIS" ELSE Null
        /\ Kept(h) # {} => \E m \in Kept(h) : /\ \A i \in Kept(h) : i <= m
                                              /\ known[h] = response.lines[m].value

ServerSeen == "Server" \in Single => (fServerHeaderPresent <=> Kept("Server") # {})

Length ==
    LET lengths == Response!Named(Seen, {"Content-Length"}) IN
    m_cContentLength = IF verb = "HEAD" \/ lengths = <<>> THEN "0" ELSE lengths[Len(lengths)].value

ResponseInv == ResponseTypes /\ ResponseLabels
               /\ (hpc # "failed" => Unknowns /\ Knowns /\ ServerSeen /\ Length)

\* The lemmas of HashTable_proofs about lists, for this instance.
LEMMA ResponseNamedAppend ==
    ASSUME NEW n, NEW s \in Seq(Lines), NEW x \in Lines
    PROVE  Response!Named(Append(s, x), {n}) =
               IF x.name = n THEN Append(Response!Named(s, {n}), x) ELSE Response!Named(s, {n})
<1>1. \A r : Response!Named(r, {n}) = TableProofs!Named(r, {n})
  BY DEF Response!Named, TableProofs!Named, Response!Filter, TableProofs!Filter,
         Response!Range, TableProofs!Range
<1>2. TableProofs!Named(Append(s, x), {n}) =
          IF x.name \in {n} THEN Append(TableProofs!Named(s, {n}), x) ELSE TableProofs!Named(s, {n})
  BY TableProofs!NamedAppend
<1> QED
  BY <1>1, <1>2

LEMMA ResponseNamedEmpty == \A n : Response!Named(<<>>, {n}) = <<>>
<1> SUFFICES ASSUME NEW n  PROVE Response!Named(<<>>, {n}) = <<>>
  OBVIOUS
<1>1. Response!Named(<<>>, {n}) = TableProofs!Named(<<>>, {n})
  BY DEF Response!Named, TableProofs!Named, Response!Filter, TableProofs!Filter,
         Response!Range, TableProofs!Range
<1> QED
  BY <1>1, TableProofs!NamedEmpty

LEMMA ResponseNamedList ==
    ASSUME NEW n, NEW s \in Seq(Lines)
    PROVE  Response!Named(s, {n}) \in Seq(Lines)
<1>1. Response!Named(s, {n}) = TableProofs!Named(s, {n})
  BY DEF Response!Named, TableProofs!Named, Response!Filter, TableProofs!Filter,
         Response!Range, TableProofs!Range
<1>2. TableProofs!Named(s, {n}) \in Seq(Lines)
  <2> DEFINE S == {y \in TableProofs!Range(s) : y.name \in {n}}
  <2>1. TableProofs!Filter(s, S) \in Seq(Lines)
    <3> HIDE DEF S
    <3> QED
      BY TableProofs!FilterRange
  <2> QED
    BY <2>1 DEF TableProofs!Named
<1> QED
  BY <1>1, <1>2

\* Nothing is read at first.
LEMMA ResponseInit == Response!Init => ResponseInv
<1> SUFFICES ASSUME Response!Init  PROVE ResponseInv
  OBVIOUS
<1>1. ResponseTypes /\ ResponseLabels
  BY UnitsAssumption DEF Response!Init, ResponseTypes, ResponseLabels, Lines
<1>2. Seen = <<>> /\ \A h : Kept(h) = {}
  <2>1. line = 1 /\ response.lines \in Seq({Malformed} \cup Lines)
    BY <1>1 DEF ResponseTypes, Response!Init
  <2> QED
    BY <2>1 DEF Seen, Kept
<1>3. Unknowns /\ Length
  BY <1>2, ResponseNamedEmpty DEF Unknowns, Length, Response!Init
<1>4. Knowns /\ ServerSeen
  BY <1>2 DEF Knowns, ServerSeen, Single, Response!Init
<1> QED
  BY <1>1, <1>3, <1>4 DEF ResponseInv

\* One more line is read.
LEMMA LineRead ==
    ASSUME ResponseTypes, Response!AtLine, line' = line + 1, response' = response
    PROVE  LET l == response.lines[line] IN
           /\ l \in Lines /\ l # Malformed /\ line \in 1 .. Len(response.lines)
           /\ Seen \in Seq(Lines) /\ Seen' = Append(Seen, l)
           /\ \A h : Kept(h)' = Kept(h) \cup {i \in {line} : ~Response!IsOwn(l) /\ l.name = h}
<1> DEFINE l == response.lines[line]
<1>1. l \in Lines /\ l # Malformed /\ line \in 1 .. Len(response.lines)
  BY DEF ResponseTypes, Response!AtLine, Response!Line
<1>2. Seen \in Seq(Lines)
  BY DEF Seen, ResponseTypes
<1>3. Seen' = Append(Seen, l)
  BY <1>1 DEF Seen, ResponseTypes
<1>4. ASSUME NEW h  PROVE Kept(h)' = Kept(h) \cup {i \in {line} : ~Response!IsOwn(l) /\ l.name = h}
  <2>1. 1 .. line' - 1 = (1 .. line - 1) \cup {line}
    BY <1>1
  <2> QED
    BY <2>1 DEF Kept, Response!IsOwn, Response!IsChunked
<1> QED
  BY <1>1, <1>2, <1>3, <1>4

\* What a line adds to the IIS response is what it adds to the lines read.
LEMMA ResponseReads ==
    ASSUME ResponseInv, Response!AddUnknown \/ Response!Skip \/ Response!SetKnown
    PROVE  ResponseInv'
<1> DEFINE l == response.lines[line]
<1>1. /\ Response!AtLine /\ line' = line + 1 /\ hpc = "lines"
      /\ UNCHANGED <<response, verb, upgraded, status, hpc, m_fResponseHeadersReceivedAndSet>>
  BY DEF Response!AddUnknown, Response!Skip, Response!SetKnown, Response!NextLine, Response!AtLine,
         Response!response
<1>2. ResponseTypes /\ ResponseLabels /\ Unknowns /\ Knowns /\ ServerSeen /\ Length
  BY <1>1 DEF ResponseInv
<1>3. /\ l \in Lines /\ l # Malformed /\ line \in 1 .. Len(response.lines)
      /\ Seen \in Seq(Lines) /\ Seen' = Append(Seen, l)
      /\ \A h : Kept(h)' = Kept(h) \cup {i \in {line} : ~Response!IsOwn(l) /\ l.name = h}
  BY <1>1, <1>2, LineRead
<1>4. Response!Line = l /\ l.name \in STRING
  BY <1>3 DEF Response!Line, Lines
<1> HIDE DEF l
<1>5. Response!GetIndex(l.name) # Null <=> l.name \in Single
  BY UnitsAssumption DEF Response!GetIndex, Single
<1>6. /\ l.name \notin Single => unknown' = Append(unknown, l) /\ known' = known
      /\ l.name \in Single => unknown' = unknown
      /\ l.name \in Single /\ Response!IsOwn(l) => known' = known
      /\ l.name \in Single /\ ~Response!IsOwn(l) => known' = [known EXCEPT ![l.name] = l.value]
  BY <1>4, <1>5 DEF Response!AddUnknown, Response!Skip, Response!SetKnown, Response!response
<1>7. /\ fServerHeaderPresent' <=> (fServerHeaderPresent \/ (l.name = "Server" /\ l.name \in Single))
      /\ m_cContentLength' = IF l.name = "Content-Length" /\ verb # "HEAD" THEN l.value
                             ELSE m_cContentLength
  <2>1. "Content-Length" \in Single /\ (Response!IsOwn(l) => l.name \notin {"Content-Length", "Server"})
    BY UnitsAssumption DEF Single, Response!IsOwn, Response!IsChunked
  <2>2. CASE Response!AddUnknown
    BY <1>4, <1>5, <2>1, <2>2 DEF Response!AddUnknown
  <2>3. CASE Response!Skip
    BY <1>4, <1>5, <2>1, <2>3 DEF Response!Skip
  <2>4. CASE Response!SetKnown
    BY <1>4, <1>5, <2>1, <2>4 DEF Response!SetKnown
  <2> QED
    BY <2>2, <2>3, <2>4
<1>8. ResponseTypes'
  <2>1. \A i \in 1 .. line' - 1 : response.lines[i] \in Lines /\ response.lines[i] # Malformed
    BY <1>1, <1>2, <1>3 DEF ResponseTypes, l
  <2>2. unknown' \in Seq(Lines) /\ DOMAIN known' = RESPONSE_HEADERS
    <3>1. unknown \in Seq(Lines) /\ DOMAIN known = RESPONSE_HEADERS
      BY <1>2 DEF ResponseTypes
    <3>2. Append(unknown, l) \in Seq(Lines) /\ DOMAIN [known EXCEPT ![l.name] = l.value] = RESPONSE_HEADERS
      BY <1>3, <3>1
    <3> QED
      BY <1>6, <3>1, <3>2
  <2>3. line' \in 1 .. Len(response.lines) + 1 /\ response.lines \in Seq({Malformed} \cup Lines)
    BY <1>1, <1>2, <1>3 DEF ResponseTypes
  <2> QED
    BY <1>1, <2>1, <2>2, <2>3 DEF ResponseTypes
<1>9. ResponseLabels'
  BY <1>1, <1>2 DEF ResponseLabels
<1>10. Unknowns'
  <2> SUFFICES ASSUME NEW n \in STRING, n \notin Single
               PROVE  Response!Named(unknown', {n}) = Response!Named(Seen', {n})
    BY DEF Unknowns
  <2>1. Response!Named(unknown, {n}) = Response!Named(Seen, {n}) /\ unknown \in Seq(Lines)
    BY <1>2 DEF Unknowns, ResponseTypes
  <2>2. Response!Named(Append(Seen, l), {n}) =
            IF l.name = n THEN Append(Response!Named(Seen, {n}), l) ELSE Response!Named(Seen, {n})
    BY <1>3, ResponseNamedAppend
  <2>3. Response!Named(Append(unknown, l), {n}) =
            IF l.name = n THEN Append(Response!Named(unknown, {n}), l) ELSE Response!Named(unknown, {n})
    BY <1>3, <2>1, ResponseNamedAppend
  <2> QED
    BY <1>3, <1>6, <2>1, <2>2, <2>3
<1>11. Knowns' /\ ServerSeen'
  <2>1. ASSUME NEW h \in Single
        PROVE  /\ Kept(h)' = {} => known'[h] = IF h = "Server" THEN "IIS" ELSE Null
               /\ Kept(h)' # {} => \E m \in Kept(h)' : /\ \A i \in Kept(h)' : i <= m
                                                       /\ known'[h] = response.lines[m].value
    <3>1. CASE ~Response!IsOwn(l) /\ l.name = h
      <4>1. line \in Kept(h)' /\ \A i \in Kept(h)' : i <= line
        BY <1>1, <1>3, <3>1 DEF Kept
      <4>2. known'[h] = l.value
        BY <1>2, <1>6, <2>1, <3>1 DEF ResponseTypes, Single
      <4> QED
        BY <4>1, <4>2 DEF l
    <3>2. CASE ~(~Response!IsOwn(l) /\ l.name = h)
      <4>1. Kept(h)' = Kept(h)
        BY <1>3, <3>2
      <4>2. known'[h] = known[h]
        BY <1>2, <1>6, <2>1, <3>2 DEF ResponseTypes, Single
      <4> QED
        BY <1>1, <1>2, <2>1, <4>1, <4>2 DEF Knowns
    <3> QED
      BY <3>1, <3>2
  <2>2. Knowns'
    BY <1>1, <2>1 DEF Knowns
  <2>3. ServerSeen'
    <3> SUFFICES ASSUME "Server" \in Single
                 PROVE  fServerHeaderPresent' <=> Kept("Server")' # {}
      BY DEF ServerSeen
    <3>1. fServerHeaderPresent <=> Kept("Server") # {}
      BY <1>2 DEF ServerSeen
    <3>2. l.name = "Server" => ~Response!IsOwn(l)
      BY DEF Response!IsOwn, Response!IsChunked
    <3> QED
      BY <1>3, <1>7, <3>1, <3>2
  <2> QED
    BY <2>2, <2>3
<1>12. Length'
  <2> DEFINE old == Response!Named(Seen, {"Content-Length"})
             new == Response!Named(Seen', {"Content-Length"})
  <2>1. new = IF l.name = "Content-Length" THEN Append(old, l) ELSE old
    BY <1>3, ResponseNamedAppend
  <2>2. m_cContentLength = IF verb = "HEAD" \/ old = <<>> THEN "0" ELSE old[Len(old)].value
    BY <1>2 DEF Length
  <2>3. old \in Seq(Lines)
    BY <1>3, ResponseNamedList
  <2> SUFFICES m_cContentLength' = IF verb = "HEAD" \/ new = <<>> THEN "0" ELSE new[Len(new)].value
    BY <1>1 DEF Length
  <2> HIDE DEF old, new
  <2>4. CASE l.name = "Content-Length"
    <3>1. new = Append(old, l) /\ Len(Append(old, l)) = Len(old) + 1 /\ Len(old) \in Nat
      BY <1>3, <2>1, <2>3, <2>4
    <3>2. Append(old, l)[Len(old) + 1] = l
      BY <1>3, <2>3
    <3>3. new # <<>> /\ new[Len(new)] = l
      BY <3>1, <3>2
    <3> QED
      BY <1>7, <2>2, <2>4, <3>3
  <2>5. CASE l.name # "Content-Length"
    BY <1>7, <2>1, <2>2, <2>5
  <2> QED
    BY <2>4, <2>5
<1> QED
  BY <1>8, <1>9, <1>10, <1>11, <1>12 DEF ResponseInv

\* The status line, a failure and the end of the headers.
LEMMA ResponseNext == ResponseInv /\ [Response!Next]_responseVars => ResponseInv'
<1> SUFFICES ASSUME ResponseInv, [Response!Next]_responseVars  PROVE ResponseInv'
  OBVIOUS
<1> USE DEF ResponseInv
<1>1. CASE Response!StatusLine
  <2>1. UNCHANGED <<response, verb, line, unknown, known, m_cContentLength, fServerHeaderPresent,
                    m_fResponseHeadersReceivedAndSet>> /\ hpc = "status" /\ hpc' = "lines"
    BY <1>1 DEF Response!StatusLine, Response!Leave
  <2>2. ResponseTypes' /\ Unknowns' /\ Knowns' /\ ServerSeen' /\ Length'
    BY <2>1 DEF ResponseTypes, Unknowns, Knowns, ServerSeen, Length, Seen, Kept, Response!IsOwn,
                Response!IsChunked
  <2>3. ResponseLabels'
    <3>1. status = 200 /\ status' = (IF response.status # 200 THEN response.status ELSE status)
          /\ (upgraded' <=> upgraded /\ response.status = 101)
      BY <1>1, <2>1 DEF Response!StatusLine, ResponseLabels
    <3>2. status' = response.status /\ (upgraded' => status' = 101)
      BY <3>1
    <3> QED
      BY <2>1, <3>2 DEF ResponseLabels
  <2> QED
    BY <2>2, <2>3
<1>2. CASE Response!AddUnknown \/ Response!Skip \/ Response!SetKnown
  BY <1>2, ResponseReads
<1>3. CASE Response!Fail
  BY <1>3 DEF Response!Fail, Response!Leave, Response!response, ResponseTypes, ResponseLabels
<1>4. CASE Response!Finish
  <2>1. /\ UNCHANGED <<response, verb, line, unknown, m_cContentLength, fServerHeaderPresent>>
        /\ hpc = "lines" /\ hpc' = "done" /\ line = Len(response.lines) + 1
        /\ known' = IF fServerHeaderPresent THEN known ELSE [known EXCEPT !["Server"] = Null]
        /\ UNCHANGED <<status, upgraded>>
    BY <1>4 DEF Response!Finish, Response!Leave, ResponseTypes
  <2>2. ResponseTypes' /\ Unknowns' /\ ServerSeen' /\ Length'
    BY <2>1 DEF ResponseTypes, Unknowns, ServerSeen, Length, Seen, Kept, Response!IsOwn,
                Response!IsChunked
  <2>3. ResponseLabels'
    BY <2>1 DEF ResponseLabels
  <2>4. Knowns'
    <3> SUFFICES ASSUME NEW h \in Single
                 PROVE  /\ Kept(h) = {} => known'[h] = Null
                        /\ Kept(h) # {} => \E m \in Kept(h) : /\ \A i \in Kept(h) : i <= m
                                                              /\ known'[h] = response.lines[m].value
      BY <2>1 DEF Knowns, Kept, Response!IsOwn, Response!IsChunked
    <3>1. h \in DOMAIN known
      BY DEF ResponseTypes, Single
    <3>2. CASE h = "Server"
      BY <2>1, <3>1, <3>2 DEF Knowns, ServerSeen
    <3>3. CASE h # "Server"
      BY <2>1, <3>1, <3>3 DEF Knowns
    <3> QED
      BY <3>2, <3>3
  <2> QED
    BY <2>2, <2>3, <2>4
<1>5. CASE UNCHANGED responseVars
  BY <1>5 DEF responseVars, ResponseTypes, ResponseLabels, Unknowns, Knowns, ServerSeen, Length,
              Seen, Kept, Response!IsOwn, Response!IsChunked
<1> QED
  BY <1>1, <1>2, <1>3, <1>4, <1>5 DEF Response!Next

\* At the end the lines read are all of them.
LEMMA ResponseSees == ResponseInv => Response!ClientSees
<1> SUFFICES ASSUME ResponseInv, m_fResponseHeadersReceivedAndSet  PROVE Response!ClientSees
  BY DEF Response!ClientSees
<1> DEFINE lines == response.lines
           All == {i \in DOMAIN lines : ~Response!IsOwn(lines[i])}
<1>1. /\ hpc = "done" /\ line = Len(lines) + 1 /\ status = response.status /\ (upgraded => status = 101)
      /\ ResponseTypes /\ Unknowns /\ Knowns /\ Length
  BY DEF ResponseInv, ResponseLabels
<1>2. DOMAIN lines = 1 .. line - 1 /\ line - 1 = Len(lines)
  BY <1>1 DEF ResponseTypes
<1>3. Seen = lines
  BY <1>1, <1>2 DEF Seen, ResponseTypes
<1>4. \A i \in DOMAIN lines : lines[i] # Malformed /\ lines[i].name \in STRING
  BY <1>1, <1>2 DEF ResponseTypes, Lines
<1>5. \A i \in All : lines[i].name \notin Single =>
          Response!Named(unknown, {lines[i].name}) = Response!Named(lines, {lines[i].name})
  BY <1>1, <1>3, <1>4 DEF Unknowns
<1>6. ASSUME NEW h \in Single
      PROVE  LET sent == {i \in All : lines[i].name = h}
             IN  known[h] = IF sent = {} THEN Null ELSE lines[Response!Max(sent)].value
  <2>1. {i \in All : lines[i].name = h} = Kept(h)
    BY <1>2 DEF Kept
  <2>2. CASE Kept(h) = {}
    BY <1>1, <2>1, <2>2 DEF Knowns
  <2>3. CASE Kept(h) # {}
    <3>1. PICK m \in Kept(h) : (\A i \in Kept(h) : i <= m) /\ known[h] = lines[m].value
      BY <1>1, <2>3 DEF Knowns
    <3>2. Response!Max(Kept(h)) = m
      <4>1. \A i \in Kept(h) : i \in Int
        BY <1>1 DEF Kept, ResponseTypes
      <4> QED
        BY <3>1, <4>1 DEF Response!Max
    <3> QED
      BY <2>1, <2>3, <3>1, <3>2
  <2> QED
    BY <2>2, <2>3
<1>7. LET lengths == Response!Named(lines, {"Content-Length"})
      IN  m_cContentLength = IF verb = "HEAD" \/ lengths = <<>> THEN "0"
                             ELSE lengths[Len(lengths)].value
  BY <1>1, <1>3 DEF Length
<1> QED
  BY <1>1, <1>4, <1>5, <1>6, <1>7 DEF Response!ClientSees, Single

\* Whatever header lines the backend sends, the client gets their values.
THEOREM ClientSeesTheorem == Spec => []ClientSees
<1>1. Init => ResponseInv
  BY ResponseInit DEF Init
<1>2. ResponseInv /\ [Next]_vars => ResponseInv'
  BY Alone, ResponseNext
<1>3. ResponseInv => ClientSees
  BY ResponseSees DEF ClientSees
<1> QED
  BY <1>1, <1>2, <1>3, PTL DEF Spec, vars

-----------------------------------------------------------------------------
(* The request: what has been edited of the headers by now.                *)
Token == "MS-ASPNETCORE-TOKEN"
WinAuthToken == "MS-ASPNETCORE-WINAUTHTOKEN"
ClientCert == "MS-ASPNETCORE-CLIENTCERT"
For == "X-Forwarded-For"
Proto == "X-Forwarded-Proto"
Edited == Reserved \cup {For, Proto, "Connection"}

Own == {Token, WinAuthToken, ClientCert, For, Proto, "Connection"}
Items == STRING \cup {"guid", "0", "client", "http", "https"} \cup {u.token : u \in Users} \cup Certs
Headers == [name : STRING \cup Own, value : Seq(Items)]

\* The values a list of headers has for a name.
Values(s, n) == {x.value : x \in {y \in Request!Range(s) : y.name = n}}

Hopped(n, value) == IF Values(client, n) = {} THEN {<<value>>}
                    ELSE {Append(v, value) : v \in Values(client, n)}
OneOf(value) == IF value = Null THEN {} ELSE {<<value>>}

RequestTypes ==
    /\ client \in Requests /\ headers \in Seq(Headers) /\ user \in Users
    /\ pClientCertInfo \in Certs \cup {Null}
    /\ mszMsAspNetCoreHeaders \in Seq(Reserved) /\ header \in Nat \ {0}

\* The reserved names collected so far.
Collected ==
    /\ qpc \in {"open", "collect", "strip"} => headers = client
    /\ qpc = "collect" => \A i \in DOMAIN client : i < header /\ client[i].name \in Reserved =>
                              client[i].name \in Request!Range(mszMsAspNetCoreHeaders) \cup kept
    /\ qpc = "strip" => \A i \in DOMAIN client : client[i].name \in Reserved =>
                              client[i].name \in Request!Range(mszMsAspNetCoreHeaders) \cup kept

\* What has been edited by now, and what has not.
Edits ==
    /\ Request!Unnamed(headers, Edited) = Request!Unnamed(client, Edited)
    /\ qpc \in {"winauth", "for", "proto", "cert", "connection", "done"} => Values(headers, Token) = {<<"guid">>}
    /\ qpc \in {"token", "winauth"} /\ WinAuthToken \notin kept => Values(headers, WinAuthToken) = {}
    /\ qpc \in {"for", "proto", "cert", "connection", "done"} /\ WinAuthToken \notin kept =>
           Values(headers, WinAuthToken) =
               OneOf(IF Request!Forwarded THEN IF listening THEN user.token ELSE "0" ELSE Null)
    /\ qpc \in {"connection", "done"} => Values(headers, ClientCert) = OneOf(pClientCertInfo)
    /\ Values(headers, For) = IF qpc \in {"proto", "cert", "connection", "done"} THEN Hopped(For, "client")
                              ELSE Values(client, For)
    /\ Values(headers, Proto) =
           IF qpc \in {"cert", "connection", "done"} THEN Hopped(Proto, IF pSslInfo THEN "https" ELSE "http")
           ELSE Values(client, Proto)
    /\ Values(headers, "Connection") = IF qpc = "done" /\ ~m_fWebSocketEnabled THEN {}
                                       ELSE Values(client, "Connection")

RequestInv ==
    /\ RequestTypes
    /\ qpc \notin {"done", "failed"} => m_pszHeaders = Null /\ Collected /\ Edits
    /\ qpc = "failed" => m_pszHeaders = Null
    /\ qpc = "done" => m_pszHeaders = Null \/ (m_pszHeaders = headers /\ Edits)

\* The lemmas of HashTable_proofs about lists, for this instance.
LEMMA RequestUnnamed ==
    ASSUME NEW X, NEW names, NEW s \in Seq(X)
    PROVE  /\ Request!Unnamed(s, names) \in Seq(X)
           /\ Request!Range(Request!Unnamed(s, names)) = {y \in Request!Range(s) : y.name \notin names}
           /\ \A more : Request!Unnamed(Request!Unnamed(s, names), more) = Request!Unnamed(s, names \cup more)
<1>1. \A r, S : Request!Unnamed(r, S) = TableProofs!Unnamed(r, S)
  BY DEF Request!Unnamed, TableProofs!Unnamed, Request!Filter, TableProofs!Filter,
         Request!Range, TableProofs!Range
<1>2. \A r : Request!Range(r) = TableProofs!Range(r)
  BY DEF Request!Range, TableProofs!Range
<1>3. /\ TableProofs!Unnamed(s, names) \in Seq(X)
      /\ TableProofs!Range(TableProofs!Unnamed(s, names)) = {y \in TableProofs!Range(s) : y.name \notin names}
  BY TableProofs!UnnamedRange
<1>4. \A more : TableProofs!Unnamed(TableProofs!Unnamed(s, names), more)
                 = TableProofs!Unnamed(s, names \cup more)
  BY TableProofs!UnnamedTwice
<1> QED
  BY <1>1, <1>2, <1>3, <1>4

LEMMA RequestAppend ==
    ASSUME NEW X, NEW s \in Seq(X), NEW x \in X
    PROVE  /\ Request!Range(Append(s, x)) = Request!Range(s) \cup {x}
           /\ \A S : x.name \in S => Request!Unnamed(Append(s, x), S) = Request!Unnamed(s, S)
<1>1. Request!Range(Append(s, x)) = Request!Range(s) \cup {x}
  <2>1. \A r : Request!Range(r) = TableProofs!Range(r)
    BY DEF Request!Range, TableProofs!Range
  <2> QED
    BY <2>1, TableProofs!AppendRange
<1>2. ASSUME NEW S, x.name \in S  PROVE Request!Unnamed(Append(s, x), S) = Request!Unnamed(s, S)
  <2>1. \A r : Request!Unnamed(r, S) = TableProofs!Unnamed(r, S)
    BY DEF Request!Unnamed, TableProofs!Unnamed, Request!Filter, TableProofs!Filter,
           Request!Range, TableProofs!Range
  <2>2. TableProofs!Unnamed(Append(s, x), S) = TableProofs!Unnamed(s, S)
    BY <1>2, TableProofs!NamedAppend
  <2> QED
    BY <2>1, <2>2
<1> QED
  BY <1>1, <1>2

\* What deleting some edited headers leaves.
LEMMA DeletedHeaders ==
    ASSUME NEW s \in Seq(Headers), NEW names, names \subseteq Edited
    PROVE  LET r == Request!Unnamed(s, names) IN
           /\ r \in Seq(Headers)
           /\ \A n : Values(r, n) = IF n \in names THEN {} ELSE Values(s, n)
           /\ Request!Unnamed(r, Edited) = Request!Unnamed(s, Edited)
<1> DEFINE r == Request!Unnamed(s, names)
<1>1. r \in Seq(Headers) /\ Request!Range(r) = {y \in Request!Range(s) : y.name \notin names}
  BY RequestUnnamed
<1>2. names \cup Edited = Edited
  OBVIOUS
<1>3. Request!Unnamed(r, Edited) = Request!Unnamed(s, names \cup Edited)
  BY RequestUnnamed
<1> HIDE DEF r
<1>4. \A n : Values(r, n) = IF n \in names THEN {} ELSE Values(s, n)
  BY <1>1 DEF Values
<1> QED
  BY <1>1, <1>2, <1>3, <1>4 DEF r

\* r is s with one of them edited.
Edit(r, s, n, vs) ==
    /\ r \in Seq(Headers)
    /\ \A m : Values(r, m) = IF m = n THEN vs ELSE Values(s, m)
    /\ Request!Unnamed(r, Edited) = Request!Unnamed(s, Edited)

LEMMA DeleteHeader ==
    ASSUME NEW s \in Seq(Headers), NEW n \in Edited
    PROVE  Edit(Request!Unnamed(s, {n}), s, n, {})
<1>1. \A m : m \in {n} <=> m = n
  OBVIOUS
<1> QED
  BY <1>1, DeletedHeaders DEF Edit

\* What setting one of them makes of the headers.
LEMMA SetHeader ==
    ASSUME NEW s \in Seq(Headers), NEW n \in Edited \cap Own, NEW v \in Seq(Items)
    PROVE  Edit(Append(Request!Unnamed(s, {n}), [name |-> n, value |-> v]), s, n, {v})
<1> DEFINE q == Request!Unnamed(s, {n})
           x == [name |-> n, value |-> v]
           r == Append(q, x)
<1>1. /\ q \in Seq(Headers) /\ \A m : Values(q, m) = IF m \in {n} THEN {} ELSE Values(s, m)
      /\ Request!Unnamed(q, Edited) = Request!Unnamed(s, Edited)
  BY DeletedHeaders
<1>2. x \in Headers /\ x.name = n /\ x.value = v
  BY DEF Headers
<1> HIDE DEF q, x
<1>3. r \in Seq(Headers) /\ Request!Range(r) = Request!Range(q) \cup {x}
      /\ Request!Unnamed(r, Edited) = Request!Unnamed(q, Edited)
  BY <1>1, <1>2, RequestAppend
<1> HIDE DEF r
<1>4. ASSUME NEW m  PROVE Values(r, m) = IF m = n THEN {v} ELSE Values(s, m)
  <2>1. Values(r, m) = IF m = n THEN Values(q, m) \cup {v} ELSE Values(q, m)
    BY <1>2, <1>3 DEF Values
  <2> QED
    BY <1>1, <2>1
<1> QED
  BY <1>1, <1>3, <1>4 DEF r, q, x, Edit

\* The value a hop is appended to.
LEMMA CurrentValue ==
    ASSUME NEW n \in {For, Proto}, client \in Requests, headers \in Seq(Headers),
           Values(headers, n) = Values(client, n), NEW value \in Items
    PROVE  LET v == Append(Request!Current(n), value)
           IN  v \in Seq(Items) /\ Hopped(n, value) = {v}
<1> DEFINE found == {i \in DOMAIN headers : headers[i].name = n}
           cur == Request!Current(n)
<1>1. cur = IF found = {} THEN <<>> ELSE headers[CHOOSE i \in found : \A j \in found : i <= j].value
  BY DEF Request!Current
<1>2. Values(headers, n) = {headers[i].value : i \in found}
  BY DEF Values, Request!Range
<1>3. CASE found = {}
  <2>1. cur = <<>> /\ Values(client, n) = {}
    BY <1>1, <1>2, <1>3
  <2>2. Append(<<>>, value) = <<value>> /\ <<value>> \in Seq(Items)
    OBVIOUS
  <2> QED
    BY <2>1, <2>2 DEF Hopped
<1>4. CASE found # {}
  <2>1. \E i \in found : \A j \in found : i <= j
    <3>1. found \subseteq Nat
      OBVIOUS
    <3> HIDE DEF found
    <3> QED
      BY <1>4, <3>1, TableProofs!NatMin
  <2>2. PICK k \in found : cur = headers[k].value
    BY <1>1, <1>4, <2>1
  <2>3. cur \in Seq(Items) /\ cur \in Values(client, n)
    <3>1. headers[k] \in Headers
      BY <2>2
    <3> QED
      BY <1>2, <2>2, <3>1 DEF Headers
  <2>4. ASSUME NEW a \in Values(client, n), NEW b \in Values(client, n)  PROVE a = b
    <3>1. PICK i \in DOMAIN client : client[i].name = n /\ client[i].value = a
      BY DEF Values, Request!Range
    <3>2. PICK j \in DOMAIN client : client[j].name = n /\ client[j].value = b
      BY DEF Values, Request!Range
    <3>3. i = j
      BY <3>1, <3>2, UnitsAssumption DEF For, Proto
    <3> QED
      BY <3>1, <3>2, <3>3
  <2>5. Values(client, n) = {cur}
    BY <2>3, <2>4
  <2> HIDE DEF cur
  <2>6. Append(cur, value) \in Seq(Items)
    BY <2>3
  <2>7. Hopped(n, value) = {Append(cur, value)}
    BY <2>5 DEF Hopped
  <2> QED
    BY <2>6, <2>7 DEF cur
<1> QED
  BY <1>3, <1>4

\* The module's own names, and what the code counts as reserved.
LEMMA RequestNames ==
    /\ {Token, WinAuthToken, ClientCert} \subseteq Reserved
    /\ For \notin Reserved /\ Proto \notin Reserved /\ "Connection" \notin Reserved
    /\ Own \subseteq Edited
    /\ Reserved \subseteq Edited
    /\ Token # WinAuthToken /\ Token # ClientCert /\ WinAuthToken # ClientCert /\ For # Proto
    /\ For # "Connection" /\ Proto # "Connection"
BY UnitsAssumption DEF Token, WinAuthToken, ClientCert, For, Proto, Own, Edited

\* The headers are the client's at first.
LEMMA RequestInit == Request!Init => RequestInv
<1> SUFFICES ASSUME Request!Init  PROVE RequestInv
  OBVIOUS
<1> USE DEF Request!Init
<1>1. client \in Seq(Headers)
  <2> DEFINE A == [name : STRING, value : Seq(STRING)]
  <2>1. client \in Seq(A)
    BY UnitsAssumption
  <2>2. A \subseteq Headers
    <3>1. Seq(STRING) \subseteq Seq(Items)
      BY DEF Items
    <3> QED
      BY <3>1 DEF Headers
  <2> HIDE DEF A
  <2> QED
    BY <2>1, <2>2
<1>2. RequestTypes
  <2>1. pClientCertInfo \in Certs \cup {Null}
    BY Zenon
  <2> QED
    BY <1>1, <2>1 DEF RequestTypes
<1>3. Collected
  BY <1>1 DEF Collected
<1>4. Edits
  BY DEF Edits
<1> QED
  BY <1>2, <1>3, <1>4 DEF RequestInv

\* Collecting the names of the reserved headers.
LEMMA RequestCollects ==
    ASSUME RequestInv, Request!Open \/ Request!Collect \/ Request!CollectEnd
    PROVE  RequestInv'
<1>1. RequestTypes /\ qpc \in {"open", "collect"} /\ m_pszHeaders = Null /\ Collected /\ Edits
  BY DEF RequestInv, Request!Open, Request!Collect, Request!CollectEnd
<1>2. /\ UNCHANGED <<headers, client, user, pClientCertInfo, pSslInfo, forwardToken, listening,
                     m_fWebSocketEnabled, m_pszHeaders>>
      /\ qpc' \in {"collect", "strip"}
  BY DEF Request!Open, Request!Collect, Request!CollectEnd, Request!Goto, Request!inputs
<1>3. client \in Seq(Headers) /\ headers = client
  BY <1>1 DEF RequestTypes, Collected
<1>4. Edits'
  BY <1>1, <1>2 DEF Edits, Hopped
<1>5. CASE Request!Open
  <2>1. qpc = "open" /\ qpc' = "collect" /\ header' = 1 /\ UNCHANGED <<mszMsAspNetCoreHeaders, kept>>
    BY <1>5 DEF Request!Open, Request!Goto
  <2>2. RequestTypes'
    BY <1>1, <1>2, <2>1 DEF RequestTypes
  <2>3. Collected'
    BY <1>2, <1>3, <2>1 DEF Collected
  <2> QED
    BY <1>1, <1>2, <1>4, <2>1, <2>2, <2>3 DEF RequestInv
<1>6. CASE Request!Collect
  <2> DEFINE n == client[header].name
  <2>1. /\ qpc = "collect" /\ qpc' = "collect" /\ header <= Len(client) /\ header' = header + 1
        /\ header \in Nat \ {0} /\ mszMsAspNetCoreHeaders \in Seq(Reserved)
    BY <1>1, <1>3, <1>6 DEF Request!Collect, RequestTypes
  <2>2. \/ /\ mszMsAspNetCoreHeaders' = IF n \in Reserved THEN Append(mszMsAspNetCoreHeaders, n)
                                        ELSE mszMsAspNetCoreHeaders
           /\ kept' = kept
        \/ n \in Reserved /\ kept' = kept \cup {n} /\ mszMsAspNetCoreHeaders' = mszMsAspNetCoreHeaders
    BY <1>3, <1>6 DEF Request!Collect
  <2> HIDE DEF n
  <2>3. /\ mszMsAspNetCoreHeaders' \in Seq(Reserved)
        /\ Request!Range(mszMsAspNetCoreHeaders) \cup kept
             \subseteq Request!Range(mszMsAspNetCoreHeaders') \cup kept'
        /\ n \in Reserved => n \in Request!Range(mszMsAspNetCoreHeaders') \cup kept'
    <3>1. n \in Reserved => /\ Append(mszMsAspNetCoreHeaders, n) \in Seq(Reserved)
                            /\ Request!Range(Append(mszMsAspNetCoreHeaders, n))
                                 = Request!Range(mszMsAspNetCoreHeaders) \cup {n}
      BY <2>1, RequestAppend
    <3> QED
      BY <2>1, <2>2, <3>1
  <2>4. RequestTypes'
    BY <1>1, <1>2, <2>1, <2>3 DEF RequestTypes
  <2>5. Collected'
    <3> SUFFICES ASSUME NEW i \in DOMAIN client, i < header + 1, client[i].name \in Reserved
                 PROVE  client[i].name \in Request!Range(mszMsAspNetCoreHeaders') \cup kept'
      BY <1>2, <1>3, <2>1 DEF Collected
    <3>1. i < header \/ i = header
      BY <1>3, <2>1
    <3>2. i < header => client[i].name \in Request!Range(mszMsAspNetCoreHeaders) \cup kept
      BY <1>1, <2>1 DEF Collected
    <3> QED
      BY <2>3, <3>1, <3>2 DEF n
  <2> QED
    BY <1>1, <1>2, <1>4, <2>1, <2>4, <2>5 DEF RequestInv
<1>7. CASE Request!CollectEnd
  <2>1. /\ qpc = "collect" /\ qpc' = "strip" /\ header' = 1 /\ header > Len(client)
        /\ UNCHANGED <<mszMsAspNetCoreHeaders, kept>>
    BY <1>3, <1>7 DEF Request!CollectEnd, Request!Goto
  <2>2. RequestTypes'
    BY <1>1, <1>2, <2>1 DEF RequestTypes
  <2>3. \A i \in DOMAIN client : i < header
    BY <1>1, <1>3, <2>1 DEF RequestTypes
  <2>4. Collected'
    BY <1>1, <1>2, <1>3, <2>1, <2>3 DEF Collected
  <2> QED
    BY <1>1, <1>2, <1>4, <2>1, <2>2, <2>4 DEF RequestInv
<1> QED
  BY <1>5, <1>6, <1>7

\* The reserved headers go.
LEMMA RequestStrips == ASSUME RequestInv, Request!Strip  PROVE RequestInv'
<1> DEFINE names == Request!Range(mszMsAspNetCoreHeaders)
<1>1. RequestTypes /\ qpc = "strip" /\ m_pszHeaders = Null /\ Collected /\ Edits
  BY DEF RequestInv, Request!Strip
<1>2. /\ UNCHANGED <<client, user, pClientCertInfo, pSslInfo, forwardToken, listening, kept,
                     m_fWebSocketEnabled, m_pszHeaders, mszMsAspNetCoreHeaders>>
      /\ qpc' = "token" /\ header' = 1 /\ headers' = Request!Unnamed(headers, names)
  BY DEF Request!Strip, Request!Goto, Request!inputs
<1>3. names \subseteq Reserved /\ headers \in Seq(Headers) /\ headers = client
  BY <1>1 DEF RequestTypes, Request!Range, Collected
<1>4. WinAuthToken \notin kept => WinAuthToken \in names \/ Values(client, WinAuthToken) = {}
  BY <1>1, RequestNames DEF Collected, Values, Request!Range
<1> HIDE DEF names
<1>5. /\ headers' \in Seq(Headers)
      /\ \A n : Values(headers', n) = IF n \in names THEN {} ELSE Values(client, n)
      /\ Request!Unnamed(headers', Edited) = Request!Unnamed(client, Edited)
  BY <1>2, <1>3, DeletedHeaders, RequestNames
<1>6. RequestTypes'
  BY <1>1, <1>2, <1>5 DEF RequestTypes
<1>7. Edits'
  BY <1>2, <1>3, <1>4, <1>5, RequestNames DEF Edits
<1> QED
  BY <1>1, <1>2, <1>6, <1>7 DEF RequestInv, Collected

\* Every edit establishes its conjunct of Edits and keeps the others.
LEMMA RequestEdits ==
    ASSUME RequestInv,
           \/ Request!Token \/ Request!WinAuthToken \/ Request!XForwardedFor
           \/ Request!XForwardedProto \/ Request!ClientCert \/ Request!ReadHeaders
    PROVE  RequestInv'
<1>1. /\ qpc \in {"token", "winauth", "for", "proto", "cert", "connection"}
      /\ RequestTypes /\ m_pszHeaders = Null /\ Collected /\ Edits
  BY DEF RequestInv, Request!Token, Request!WinAuthToken, Request!XForwardedFor,
         Request!XForwardedProto, Request!ClientCert, Request!ReadHeaders
<1>2. /\ UNCHANGED <<client, user, pClientCertInfo, pSslInfo, forwardToken, listening, kept,
                     m_fWebSocketEnabled, mszMsAspNetCoreHeaders>>
      /\ header' = 1 /\ qpc' \in {"winauth", "for", "proto", "cert", "connection", "done"}
  BY DEF Request!Token, Request!WinAuthToken, Request!XForwardedFor, Request!Goto, Request!inputs,
         Request!XForwardedProto, Request!ClientCert, Request!ReadHeaders
<1>3. headers \in Seq(Headers) /\ client \in Requests /\ user \in Users
  BY <1>1 DEF RequestTypes
<1>4. ASSUME headers' \in Seq(Headers), Edits', qpc' # "done" => m_pszHeaders' = Null,
             qpc' = "done" => m_pszHeaders' = headers'
      PROVE  RequestInv'
  <2>1. RequestTypes'
    BY <1>1, <1>2, <1>4 DEF RequestTypes
  <2>2. Collected'
    BY <1>2 DEF Collected
  <2> QED
    BY <1>2, <1>4, <2>1, <2>2 DEF RequestInv
<1>5. \A n, v : Hopped(n, v)' = Hopped(n, v)
  BY <1>2 DEF Hopped
<1>6. Request!Forwarded' <=> Request!Forwarded
  BY <1>2 DEF Request!Forwarded
<1>7. CASE Request!Token
  <2>1. qpc = "token" /\ qpc' = "winauth" /\ m_pszHeaders' = m_pszHeaders
        /\ headers' = Append(Request!Unnamed(headers, {Token}), [name |-> Token, value |-> <<"guid">>])
    BY <1>7 DEF Request!Token, Request!Goto, Request!Set, Request!Without, Token
  <2>2. <<"guid">> \in Seq(Items)
    BY DEF Items
  <2>3. Edit(headers', headers, Token, {<<"guid">>})
    BY <1>3, <2>1, <2>2, SetHeader, RequestNames DEF Own
  <2>4. Edits'
    BY <1>1, <1>2, <2>1, <2>3, RequestNames DEF Edits, Edit
  <2> QED
    BY <1>1, <1>4, <2>1, <2>3, <2>4 DEF Edit
<1>8. CASE Request!WinAuthToken
  <2> DEFINE token == IF listening THEN user.token ELSE "0"
             value == IF Request!Forwarded THEN token ELSE Null
  <2>1. qpc = "winauth" /\ qpc' = "for" /\ m_pszHeaders' = m_pszHeaders
    BY <1>8 DEF Request!WinAuthToken, Request!Goto
  <2>2. OneOf(value) = IF Request!Forwarded THEN {<<token>>} ELSE {}
    BY UnitsAssumption DEF OneOf, Request!Forwarded
  <2>3. CASE Request!Forwarded
    <3>1. headers' = Append(Request!Unnamed(headers, {WinAuthToken}),
                            [name |-> WinAuthToken, value |-> <<token>>])
      BY <1>8, <2>3 DEF Request!WinAuthToken, Request!Set, Request!Without, WinAuthToken
    <3>2. <<token>> \in Seq(Items)
      BY <1>3 DEF Items
    <3> HIDE DEF token
    <3>3. Edit(headers', headers, WinAuthToken, {<<token>>})
      BY <1>3, <3>1, <3>2, SetHeader, RequestNames DEF Own
    <3>4. Values(headers', WinAuthToken) = OneOf(value)
      BY <2>2, <2>3, <3>3 DEF Edit
    <3>5. OneOf(value)' = OneOf(value)
      BY <1>2, <1>6 DEF token, OneOf
    <3>6. Edits'
      BY <1>1, <1>2, <2>1, <3>3, <3>4, <3>5, RequestNames DEF Edits, Edit, token
    <3> QED
      BY <1>1, <1>4, <2>1, <3>3, <3>6 DEF Edit
  <2>4. CASE ~Request!Forwarded
    <3>1. headers' = headers
      BY <1>8, <2>4 DEF Request!WinAuthToken
    <3>2. Edits'
      BY <1>1, <1>2, <1>6, <2>1, <2>4, <3>1 DEF Edits, OneOf
    <3> QED
      BY <1>1, <1>3, <1>4, <2>1, <3>1, <3>2
  <2> QED
    BY <2>3, <2>4
<1>9. CASE Request!XForwardedFor
  <2> DEFINE v == Append(Request!Current(For), "client")
  <2>1. qpc = "for" /\ qpc' = "proto" /\ m_pszHeaders' = m_pszHeaders
        /\ headers' = Append(Request!Unnamed(headers, {For}), [name |-> For, value |-> v])
    BY <1>9 DEF Request!XForwardedFor, Request!Goto, Request!Set, Request!Without, For
  <2>2. Values(headers, For) = Values(client, For) /\ "client" \in Items
    BY <1>1, <2>1 DEF Edits, Items
  <2>3. v \in Seq(Items) /\ Hopped(For, "client") = {v}
    BY <1>3, <2>2, CurrentValue
  <2> HIDE DEF v
  <2>4. Edit(headers', headers, For, Hopped(For, "client"))
    BY <1>3, <2>1, <2>3, SetHeader, RequestNames DEF Own
  <2>5. Edits'
    BY <1>1, <1>2, <1>5, <1>6, <2>1, <2>4, RequestNames DEF Edits, Edit
  <2> QED
    BY <1>1, <1>4, <2>1, <2>4, <2>5 DEF Edit
<1>10. CASE Request!XForwardedProto
  <2> DEFINE scheme == IF pSslInfo THEN "https" ELSE "http"
             v == Append(Request!Current(Proto), scheme)
  <2>1. qpc = "proto" /\ qpc' = "cert" /\ m_pszHeaders' = m_pszHeaders
        /\ headers' = Append(Request!Unnamed(headers, {Proto}), [name |-> Proto, value |-> v])
    BY <1>10 DEF Request!XForwardedProto, Request!Goto, Request!Set, Request!Without, Proto
  <2>2. Values(headers, Proto) = Values(client, Proto) /\ scheme \in Items
    BY <1>1, <2>1 DEF Edits, Items
  <2>3. v \in Seq(Items) /\ Hopped(Proto, scheme) = {v}
    <3> HIDE DEF scheme
    <3> QED
      BY <1>3, <2>2, CurrentValue
  <2> HIDE DEF v
  <2>4. Edit(headers', headers, Proto, Hopped(Proto, scheme))
    BY <1>3, <2>1, <2>3, SetHeader, RequestNames DEF Own
  <2>5. Edits'
    BY <1>1, <1>2, <1>5, <1>6, <2>1, <2>4, RequestNames DEF Edits, Edit
  <2> QED
    BY <1>1, <1>4, <2>1, <2>4, <2>5 DEF Edit
<1>11. CASE Request!ClientCert
  <2>1. qpc = "cert" /\ qpc' = "connection" /\ m_pszHeaders' = m_pszHeaders
    BY <1>11 DEF Request!ClientCert, Request!Goto
  <2>2. Edit(headers', headers, ClientCert, OneOf(pClientCertInfo))
    <3>1. CASE pClientCertInfo = Null
      <4>1. headers' = Request!Unnamed(headers, {ClientCert})
        BY <1>11, <3>1 DEF Request!ClientCert, Request!Delete, Request!Without, ClientCert
      <4> QED
        BY <1>3, <3>1, <4>1, DeleteHeader, RequestNames DEF Own, OneOf
    <3>2. CASE pClientCertInfo # Null
      <4>1. headers' = Append(Request!Unnamed(headers, {ClientCert}),
                              [name |-> ClientCert, value |-> <<pClientCertInfo>>])
        BY <1>11, <3>2 DEF Request!ClientCert, Request!Set, Request!Without, ClientCert
      <4>2. <<pClientCertInfo>> \in Seq(Items)
        BY <1>1, <3>2 DEF RequestTypes, Items
      <4> QED
        BY <1>3, <3>2, <4>1, <4>2, SetHeader, RequestNames DEF Own, OneOf
    <3> QED
      BY <3>1, <3>2
  <2>3. OneOf(pClientCertInfo)' = OneOf(pClientCertInfo)
    BY <1>2 DEF OneOf
  <2>4. Edits'
    BY <1>1, <1>2, <1>5, <1>6, <2>1, <2>2, <2>3, RequestNames DEF Edits, Edit
  <2> QED
    BY <1>1, <1>4, <2>1, <2>2, <2>4 DEF Edit
<1>12. CASE Request!ReadHeaders
  <2>1. qpc = "connection" /\ qpc' = "done" /\ m_pszHeaders' = headers'
    BY <1>12 DEF Request!ReadHeaders, Request!Goto
  <2>2. Values(headers, "Connection") = Values(client, "Connection")
    BY <1>1, <2>1 DEF Edits
  <2>3. Edit(headers', headers, "Connection", IF m_fWebSocketEnabled THEN Values(client, "Connection") ELSE {})
    <3>1. CASE m_fWebSocketEnabled
      BY <1>3, <1>12, <2>2, <3>1 DEF Request!ReadHeaders, Edit
    <3>2. CASE ~m_fWebSocketEnabled
      <4>1. headers' = Request!Unnamed(headers, {"Connection"})
        BY <1>12, <3>2 DEF Request!ReadHeaders, Request!Delete, Request!Without
      <4> QED
        BY <1>3, <3>2, <4>1, DeleteHeader, RequestNames DEF Own
    <3> QED
      BY <3>1, <3>2
  <2>4. Edits'
    BY <1>1, <1>2, <1>5, <1>6, <2>1, <2>3, RequestNames DEF Edits, Edit
  <2> QED
    BY <1>4, <2>1, <2>3, <2>4 DEF Edit
<1> QED
  BY <1>7, <1>8, <1>9, <1>10, <1>11, <1>12

\* The steps that read no headers out.
LEMMA RequestNext == RequestInv /\ [Request!Next]_requestVars => RequestInv'
<1> SUFFICES ASSUME RequestInv, [Request!Next]_requestVars  PROVE RequestInv'
  OBVIOUS
<1>1. CASE Request!XForwardedProtoLost \/ Request!Fail
  <2>1. RequestTypes /\ m_pszHeaders = Null /\ qpc' \in {"done", "failed"} /\ m_pszHeaders' = Null
        /\ RequestTypes'
    BY <1>1 DEF RequestInv, RequestTypes, Request!XForwardedProtoLost, Request!Fail, Request!Goto,
                Request!inputs
  <2> QED
    BY <2>1 DEF RequestInv
<1>2. CASE UNCHANGED requestVars
  <2>1. RequestTypes' <=> RequestTypes
    BY <1>2 DEF RequestTypes, requestVars
  <2>2. Collected' <=> Collected
    BY <1>2 DEF Collected, requestVars
  <2>3. Edits' <=> Edits
    BY <1>2 DEF Edits, Hopped, OneOf, Request!Forwarded, requestVars
  <2> QED
    BY <1>2, <2>1, <2>2, <2>3 DEF RequestInv, requestVars
<1> QED
  BY <1>1, <1>2, RequestCollects, RequestStrips, RequestEdits DEF Request!Next

\* At the end everything is edited.
LEMMA RequestSees == RequestInv => Request!BackendSees
<1> SUFFICES ASSUME RequestInv, m_pszHeaders # Null  PROVE Request!BackendSees
  BY DEF Request!BackendSees
<1>1. qpc = "done" /\ m_pszHeaders = headers /\ Edits
  BY DEF RequestInv
<1>2. \A n : Request!Sent(n) = Values(headers, n) /\ Request!Received(n) = Values(client, n)
  BY <1>1 DEF Request!Sent, Request!Received, Values, Request!Range
<1>3. \A n, v : Request!Hop(n, v) = Hopped(n, v)
  BY <1>2 DEF Request!Hop, Hopped
<1>4. \A n, v : Values(headers, n) = OneOf(v) =>
                    IF v = Null THEN Request!Sent(n) = {} ELSE Request!Sent(n) = {<<v>>}
  BY <1>2 DEF OneOf
<1>5. /\ Request!Sent(Token) = {<<"guid">>}
      /\ WinAuthToken \in kept \/ Values(headers, WinAuthToken) =
               OneOf(IF Request!Forwarded THEN IF listening THEN user.token ELSE "0" ELSE Null)
      /\ Values(headers, ClientCert) = OneOf(pClientCertInfo)
      /\ Request!Sent(For) = Request!Hop(For, "client")
      /\ Request!Sent(Proto) = Request!Hop(Proto, IF pSslInfo THEN "https" ELSE "http")
      /\ Request!Sent("Connection") = IF m_fWebSocketEnabled THEN Request!Received("Connection") ELSE {}
      /\ Request!Unnamed(m_pszHeaders, Edited) = Request!Unnamed(client, Edited)
  BY <1>1, <1>2, <1>3 DEF Edits
<1> QED
  BY <1>4, <1>5 DEF Request!BackendSees, Token, WinAuthToken, ClientCert, For, Proto, Edited

\* Whatever headers the client sends, what the backend reads of the module's
\* own does not depend on them, and the others arrive.
THEOREM BackendSeesTheorem == Spec => []BackendSees
<1>1. Init => RequestInv
  BY RequestInit DEF Init
<1>2. RequestInv /\ [Next]_vars => RequestInv'
  BY Alone, RequestNext
<1>3. RequestInv => BackendSees
  BY RequestSees DEF BackendSees
<1> QED
  BY <1>1, <1>2, <1>3, PTL DEF Spec, vars

-----------------------------------------------------------------------------
(* The process manager and the tables.                                     *)

ManagerProofs == INSTANCE ProcessManager_proofs WITH list <- slots, pc <- ppc, held <- process, Free <- Unlocked

LEMMA ManagerAlone == Spec => Manager!Spec
<1>1. Init => Manager!Init
  BY DEF Init
<1>2. [Next]_vars => [Manager!Next]_(Manager!vars)
  BY Alone DEF managerVars, Manager!vars, Manager!mgrVars, Manager!objVars, Manager!osVars, Manager!thrVars, Manager!recVars
<1> QED
  BY <1>1, <1>2, PTL DEF Spec, Manager!Spec, vars

\* The process manager's proofs speak of another instance of the same module.
LEMMA ManagerSame == Manager!Spec => ManagerProofs!Spec
<1> USE DEF Manager!Cardinality, ManagerProofs!Cardinality
<1>1. Manager!Init => ManagerProofs!Init
  BY DEF
     Manager!Init, ManagerProofs!Init, Manager!Slots, ManagerProofs!Slots, Manager!OsProcs,
     ManagerProofs!OsProcs
<1>2. [Manager!Next]_(Manager!vars) => [ManagerProofs!Next]_(ManagerProofs!vars)
  <2>1. ASSUME NEW t \in Threads, Manager!EnterGetProcess(t)  PROVE ManagerProofs!EnterGetProcess(t)
    BY <2>1 DEF
     Manager!EnterGetProcess, ManagerProofs!EnterGetProcess, Manager!Goto, ManagerProofs!Goto,
     Manager!mgrVars, ManagerProofs!mgrVars, Manager!objVars, ManagerProofs!objVars,
     Manager!osVars, ManagerProofs!osVars, Manager!recVars, ManagerProofs!recVars
  <2>2. ASSUME NEW t \in Threads, Manager!InitList(t)  PROVE ManagerProofs!InitList(t)
    BY <2>2 DEF
     Manager!InitList, ManagerProofs!InitList, Manager!Goto, ManagerProofs!Goto,
     Manager!objVars, ManagerProofs!objVars, Manager!osVars, ManagerProofs!osVars,
     Manager!recVars, ManagerProofs!recVars
  <2>3. ASSUME NEW t \in Threads, Manager!SharedLookup(t)  PROVE ManagerProofs!SharedLookup(t)
    BY <2>3 DEF
     Manager!SharedLookup, ManagerProofs!SharedLookup, Manager!Reference,
     ManagerProofs!Reference, Manager!Return, ManagerProofs!Return, Manager!osVars,
     ManagerProofs!osVars, Manager!recVars, ManagerProofs!recVars
  <2>4. ASSUME NEW t \in Threads, Manager!LockExclusive(t)  PROVE ManagerProofs!LockExclusive(t)
    BY <2>4 DEF
     Manager!LockExclusive, ManagerProofs!LockExclusive, Manager!Reference,
     ManagerProofs!Reference, Manager!Return, ManagerProofs!Return, Manager!mgrVars,
     ManagerProofs!mgrVars, Manager!ShutdownProcessNoLock,
     ManagerProofs!ShutdownProcessNoLock, Manager!StopProcess, ManagerProofs!StopProcess,
     Manager!Dereference, ManagerProofs!Dereference, Manager!Dying, ManagerProofs!Dying,
     Manager!Killed, ManagerProofs!Killed, Manager!OsProcs, ManagerProofs!OsProcs,
     Manager!Terminated, ManagerProofs!Terminated, Manager!Delist, ManagerProofs!Delist,
     Manager!Slots, ManagerProofs!Slots, Manager!SamePort, ManagerProofs!SamePort,
     Manager!Goto, ManagerProofs!Goto, Manager!recVars, ManagerProofs!recVars
  <2>5. ASSUME NEW t \in Threads, Manager!LocalStep(t)  PROVE ManagerProofs!LocalStep(t)
    BY <2>5 DEF
     Manager!LocalStep, ManagerProofs!LocalStep, Manager!RecheckSlot,
     ManagerProofs!RecheckSlot, Manager!mgrVars, ManagerProofs!mgrVars, Manager!objVars,
     ManagerProofs!objVars, Manager!osVars, ManagerProofs!osVars, Manager!recVars,
     ManagerProofs!recVars, Manager!RecheckReady, ManagerProofs!RecheckReady,
     Manager!IsReady, ManagerProofs!IsReady,
     Manager!Continue, ManagerProofs!Continue, Manager!Returned, ManagerProofs!Returned,
     Manager!Return, ManagerProofs!Return, Manager!Goto, ManagerProofs!Goto,
     Manager!RapidFailCheck, ManagerProofs!RapidFailCheck, Manager!AllocationFails,
     ManagerProofs!AllocationFails, Manager!CreateServerProcess,
     ManagerProofs!CreateServerProcess, Manager!InitializeFails,
     ManagerProofs!InitializeFails, Manager!Dereference, ManagerProofs!Dereference,
     Manager!Dying, ManagerProofs!Dying, Manager!Killed, ManagerProofs!Killed,
     Manager!OsProcs, ManagerProofs!OsProcs, Manager!Delist, ManagerProofs!Delist,
     Manager!Slots, ManagerProofs!Slots, Manager!StartProcess, ManagerProofs!StartProcess,
     Manager!LaunchFails, ManagerProofs!LaunchFails, Manager!StartFails,
     ManagerProofs!StartFails, Manager!Unregister, ManagerProofs!Unregister,
     Manager!StopProcess, ManagerProofs!StopProcess, Manager!Registration,
     ManagerProofs!Registration, Manager!PollEnds, ManagerProofs!PollEnds,
     Manager!CheckIfServerIsUp, ManagerProofs!CheckIfServerIsUp, Manager!PortUp,
     ManagerProofs!PortUp, Manager!Listening, ManagerProofs!Listening, Manager!Reference,
     ManagerProofs!Reference, Manager!RegisterChildren, ManagerProofs!RegisterChildren,
     Manager!ChildrenFail, ManagerProofs!ChildrenFail, Manager!MarkReady,
     ManagerProofs!MarkReady, Manager!Verified, ManagerProofs!Verified, Manager!VerifyFails,
     ManagerProofs!VerifyFails, Manager!ReleaseProcess, ManagerProofs!ReleaseProcess,
     Manager!ReturnWithout, ManagerProofs!ReturnWithout
  <2>6. ASSUME NEW p \in Procs, NEW w \in Manager!OsProcs, Manager!CallbackStep(p, w)  PROVE ManagerProofs!CallbackStep(p, w)
    BY <2>6 DEF
     Manager!CallbackStep, ManagerProofs!CallbackStep, Manager!WaitFires,
     ManagerProofs!WaitFires, Manager!Callback, ManagerProofs!Callback, Manager!mgrVars,
     ManagerProofs!mgrVars, Manager!osVars, ManagerProofs!osVars, Manager!thrVars,
     ManagerProofs!thrVars, Manager!recVars, ManagerProofs!recVars, Manager!CheckServer,
     ManagerProofs!CheckServer, Manager!CheckIfServerIsUp, ManagerProofs!CheckIfServerIsUp,
     Manager!PortUp, ManagerProofs!PortUp, Manager!Listening, ManagerProofs!Listening,
     Manager!TestStopping, ManagerProofs!TestStopping, Manager!SetStopping,
     ManagerProofs!SetStopping, Manager!LeaveCallback, ManagerProofs!LeaveCallback,
     Manager!Dereference, ManagerProofs!Dereference, Manager!Dying, ManagerProofs!Dying,
     Manager!Killed, ManagerProofs!Killed, Manager!OsProcs, ManagerProofs!OsProcs
  <2>7. ASSUME NEW p \in Procs, NEW w \in Manager!OsProcs, Manager!ShutdownProcess(p, w)  PROVE ManagerProofs!ShutdownProcess(p, w)
    BY <2>7 DEF
     Manager!ShutdownProcess, ManagerProofs!ShutdownProcess, Manager!Callback,
     ManagerProofs!Callback, Manager!ShutdownProcessNoLock,
     ManagerProofs!ShutdownProcessNoLock, Manager!StopProcess, ManagerProofs!StopProcess,
     Manager!Dereference, ManagerProofs!Dereference, Manager!Dying, ManagerProofs!Dying,
     Manager!Killed, ManagerProofs!Killed, Manager!OsProcs, ManagerProofs!OsProcs,
     Manager!Terminated, ManagerProofs!Terminated, Manager!Delist, ManagerProofs!Delist,
     Manager!Slots, ManagerProofs!Slots, Manager!SamePort, ManagerProofs!SamePort,
     Manager!thrVars, ManagerProofs!thrVars, Manager!recVars, ManagerProofs!recVars
  <2>8. ASSUME NEW p \in Procs, NEW w \in Manager!OsProcs, Manager!SpawnChild(p, w)  PROVE ManagerProofs!SpawnChild(p, w)
    BY <2>8 DEF
     Manager!SpawnChild, ManagerProofs!SpawnChild, Manager!mgrVars, ManagerProofs!mgrVars,
     Manager!objVars, ManagerProofs!objVars, Manager!thrVars, ManagerProofs!thrVars,
     Manager!recVars, ManagerProofs!recVars
  <2>9. ASSUME NEW p \in Procs, NEW w \in Manager!OsProcs, Manager!Listen(p, w)  PROVE ManagerProofs!Listen(p, w)
    BY <2>9 DEF
     Manager!Listen, ManagerProofs!Listen, Manager!PortUp, ManagerProofs!PortUp,
     Manager!Listening, ManagerProofs!Listening, Manager!mgrVars, ManagerProofs!mgrVars,
     Manager!objVars, ManagerProofs!objVars, Manager!thrVars, ManagerProofs!thrVars,
     Manager!recVars, ManagerProofs!recVars
  <2>10. ASSUME NEW p \in Procs, NEW w \in Manager!OsProcs, Manager!ProcessExits(p, w)  PROVE ManagerProofs!ProcessExits(p, w)
    BY <2>10 DEF
     Manager!ProcessExits, ManagerProofs!ProcessExits, Manager!mgrVars, ManagerProofs!mgrVars,
     Manager!objVars, ManagerProofs!objVars, Manager!thrVars, ManagerProofs!thrVars,
     Manager!recVars, ManagerProofs!recVars
  <2>11. ASSUME NEW destroy \in BOOLEAN, Manager!StartSignal(destroy)  PROVE ManagerProofs!StartSignal(destroy)
    BY <2>11 DEF
     Manager!StartSignal, ManagerProofs!StartSignal, Manager!mgrVars, ManagerProofs!mgrVars,
     Manager!objVars, ManagerProofs!objVars, Manager!osVars, ManagerProofs!osVars,
     Manager!thrVars, ManagerProofs!thrVars
  <2>12. ASSUME Manager!RecyclerStep  PROVE ManagerProofs!RecyclerStep
    BY <2>12 DEF
     Manager!RecyclerStep, ManagerProofs!RecyclerStep, Manager!SkipSlot,
     ManagerProofs!SkipSlot, Manager!mgrVars, ManagerProofs!mgrVars, Manager!objVars,
     ManagerProofs!objVars, Manager!osVars, ManagerProofs!osVars, Manager!thrVars,
     ManagerProofs!thrVars, Manager!SignalObeyed, ManagerProofs!SignalObeyed,
     Manager!DropSignalled, ManagerProofs!DropSignalled, Manager!Dereference,
     ManagerProofs!Dereference, Manager!Dying, ManagerProofs!Dying, Manager!Killed,
     ManagerProofs!Killed, Manager!OsProcs, ManagerProofs!OsProcs, Manager!Delist,
     ManagerProofs!Delist, Manager!Slots, ManagerProofs!Slots, Manager!SignalTimesOut,
     ManagerProofs!SignalTimesOut, Manager!Unregister, ManagerProofs!Unregister,
     Manager!EndSignal, ManagerProofs!EndSignal
  <2> QED
    BY <2>1, <2>2, <2>3, <2>4, <2>5, <2>6, <2>7, <2>8, <2>9, <2>10, <2>11, <2>12 DEF
     Manager!Next, ManagerProofs!Next, Manager!LockStep, ManagerProofs!LockStep, Manager!vars,
     ManagerProofs!vars, Manager!mgrVars, ManagerProofs!mgrVars, Manager!objVars,
     ManagerProofs!objVars, Manager!osVars, ManagerProofs!osVars, Manager!thrVars,
     ManagerProofs!thrVars, Manager!recVars, ManagerProofs!recVars, Manager!OsProcs,
     ManagerProofs!OsProcs
<1> QED
  BY <1>1, <1>2, PTL DEF Manager!Spec, ManagerProofs!Spec

\* The reference count of a server process is exact, for any number of slots,
\* threads, processes and children, and without a TCP owner table too.
THEOREM ServerProcessRefsTheorem == Spec => []ServerProcessRefs
<1>1. ManagerProofs!ProcessManagerAssumption
  BY UnitsAssumption DEF ManagerProofs!ProcessManagerAssumption, ManagerProofs!IsFiniteSet, IsFiniteSet
<1>2. ManagerProofs!Spec => []ManagerProofs!ServerProcessRefs
  BY <1>1, ManagerProofs!ServerProcessRefsTheorem
<1>3. ManagerProofs!ServerProcessRefs => ServerProcessRefs
  BY DEF ServerProcessRefs, Manager!Cardinality, ManagerProofs!Cardinality,
     Manager!ServerProcessRefs, ManagerProofs!ServerProcessRefs, Manager!Slots,
     ManagerProofs!Slots, Manager!OsProcs, ManagerProofs!OsProcs, Manager!Counted,
     ManagerProofs!Counted, Manager!WaitPc, ManagerProofs!WaitPc, Manager!Leaked,
     ManagerProofs!Leaked, Manager!CallsBack, ManagerProofs!CallsBack, Manager!Listed,
     ManagerProofs!Listed
<1> QED
  BY <1>2, <1>3, ManagerAlone, ManagerSame, PTL

-----------------------------------------------------------------------------
(* The hash table.                                                         *)

\* What the table's proofs call by another instance's names.
LEMMA TableWords ==
    /\ Table!nBuckets = TableProofs!nBuckets
    /\ Table!Linked = TableProofs!Linked
    /\ Table!Keys = TableProofs!Keys
    /\ \A r : Table!HashOf(r) = TableProofs!HashOf(r)
    /\ \A k : Table!Bucket(k) = TableProofs!Bucket(k)
    /\ \A c, x : Table!Place(c, x) = TableProofs!Place(c, x)
    /\ \A c, x : Table!After(c, x) = TableProofs!After(c, x)
    /\ \A c, i, x : Table!InsertAt(c, i, x) = TableProofs!InsertAt(c, i, x)
    /\ \A c, S : Table!Filter(c, S) = TableProofs!Filter(c, S)
    /\ \A c, r : Table!InOrder(c, r) = TableProofs!InOrder(c, r)
    /\ Table!Nodes = TableProofs!Nodes
    /\ \A n : Table!Rechained(n) = TableProofs!Rechained(n)
    /\ \A S : Table!Cardinality(S) = TableProofs!Cardinality(S)
    /\ Table!TooMany <=> TableProofs!TooMany
<1>1. \A S : Table!Cardinality(S) = TableProofs!Cardinality(S)
  BY DEF Table!Cardinality, TableProofs!Cardinality
<1>2. Table!nBuckets = TableProofs!nBuckets
  BY <1>1 DEF Table!nBuckets, TableProofs!nBuckets
<1>3. Table!Linked = TableProofs!Linked
  BY DEF Table!Linked, TableProofs!Linked, Table!Range, TableProofs!Range
<1>4. Table!Keys = TableProofs!Keys
  BY DEF Table!Keys, TableProofs!Keys
<1>5. \A r : Table!HashOf(r) = TableProofs!HashOf(r)
  BY DEF Table!HashOf, TableProofs!HashOf
<1>6. \A k : Table!Bucket(k) = TableProofs!Bucket(k)
  BY <1>2 DEF Table!Bucket, TableProofs!Bucket
<1>7. \A c, x : Table!Place(c, x) = TableProofs!Place(c, x)
  BY DEF Table!Place, TableProofs!Place
<1>8. \A c, x : Table!After(c, x) = TableProofs!After(c, x)
  BY <1>7 DEF Table!After, TableProofs!After
<1>9. \A c, i, x : Table!InsertAt(c, i, x) = TableProofs!InsertAt(c, i, x)
  BY DEF Table!InsertAt, TableProofs!InsertAt
<1>10. \A c, S : Table!Filter(c, S) = TableProofs!Filter(c, S)
  BY DEF Table!Filter, TableProofs!Filter
<1>11. \A c, r : Table!InOrder(c, r) = TableProofs!InOrder(c, r)
  BY <1>5, <1>9 DEF Table!InOrder, TableProofs!InOrder, Table!Min, TableProofs!Min, Table!HashOf, TableProofs!HashOf
<1>12. Table!Nodes = TableProofs!Nodes
  BY <1>1, <1>2 DEF Table!Nodes, TableProofs!Nodes
<1>13. \A n : Table!Rechained(n) = TableProofs!Rechained(n)
  BY <1>12 DEF Table!Rechained, TableProofs!Rechained, Table!HashOf, TableProofs!HashOf, Table!InOrder, TableProofs!InOrder,
    Table!Min, TableProofs!Min, Table!InsertAt, TableProofs!InsertAt
<1>14. Table!TooMany <=> TableProofs!TooMany
  BY <1>2 DEF Table!TooMany, TableProofs!TooMany
<1> QED
  BY <1>1, <1>2, <1>3, <1>4, <1>5, <1>6, <1>7, <1>8, <1>9, <1>10, <1>11, <1>12, <1>13, <1>14

LEMMA TableSame == Table!Spec => TableProofs!Spec
<1>1. Table!Init => TableProofs!Init
  BY DEF Table!Init, TableProofs!Init
<1>2. [Table!Next]_(Table!vars) => [TableProofs!Next]_(TableProofs!vars)
  <2>1. ASSUME NEW t \in Threads, Table!Acquire(t)  PROVE TableProofs!Acquire(t)
    BY <2>1, TableWords DEF
       Table!Acquire, TableProofs!Acquire, Table!FindNodeInternal,
       TableProofs!FindNodeInternal, Table!Goto, TableProofs!Goto, Table!table,
       TableProofs!table
  <2>2. ASSUME NEW t \in Threads, Table!Advance(t)  PROVE TableProofs!Advance(t)
    BY <2>2, TableWords DEF
       Table!Advance, TableProofs!Advance, Table!FindNodeInternal,
       TableProofs!FindNodeInternal, Table!Goto, TableProofs!Goto, Table!table,
       TableProofs!table
  <2>3. ASSUME NEW t \in Threads, Table!FindKeyEnd(t)  PROVE TableProofs!FindKeyEnd(t)
    BY <2>3, TableWords DEF
       Table!FindKeyEnd, TableProofs!FindKeyEnd, Table!Goto, TableProofs!Goto, Table!table,
       TableProofs!table
  <2>4. ASSUME NEW t \in Threads, Table!Return(t)  PROVE TableProofs!Return(t)
    BY <2>4, TableWords DEF
       Table!Return, TableProofs!Return, Table!Goto, TableProofs!Goto, Table!table,
       TableProofs!table
  <2>5. ASSUME NEW t \in Threads, Table!Drop(t)  PROVE TableProofs!Drop(t)
    BY <2>5, TableWords DEF
       Table!Drop, TableProofs!Drop, Table!table, TableProofs!table, Table!locals,
       TableProofs!locals
  <2>6. ASSUME NEW t \in Threads, Table!InsertExists(t)  PROVE TableProofs!InsertExists(t)
    BY <2>6, TableWords DEF
       Table!InsertExists, TableProofs!InsertExists, Table!Goto, TableProofs!Goto,
       Table!table, TableProofs!table
  <2>7. ASSUME NEW t \in Threads, Table!InsertLink(t)  PROVE TableProofs!InsertLink(t)
    BY <2>7, TableWords DEF
       Table!InsertLink, TableProofs!InsertLink, Table!Goto, TableProofs!Goto,
       Table!FindNodeInternal, TableProofs!FindNodeInternal
  <2>8. ASSUME NEW t \in Threads, Table!InsertReference(t)  PROVE TableProofs!InsertReference(t)
    BY <2>8, TableWords DEF
       Table!InsertReference, TableProofs!InsertReference, Table!Goto, TableProofs!Goto,
       Table!table, TableProofs!table
  <2>9. ASSUME NEW t \in Threads, Table!InsertCount(t)  PROVE TableProofs!InsertCount(t)
    BY <2>9, TableWords DEF
       Table!InsertCount, TableProofs!InsertCount, Table!Goto, TableProofs!Goto
  <2>10. ASSUME NEW t \in Threads, Table!RehashLook(t)  PROVE TableProofs!RehashLook(t)
    BY <2>10, TableWords DEF
       Table!RehashLook, TableProofs!RehashLook, Table!Goto, TableProofs!Goto, Table!table,
       TableProofs!table
  <2>11. ASSUME NEW t \in Threads, Table!Rehash(t)  PROVE TableProofs!Rehash(t)
    BY <2>11, TableWords DEF
       Table!Rehash, TableProofs!Rehash, Table!Goto, TableProofs!Goto
  <2>12. ASSUME NEW t \in Threads, NEW k \in Table!Keys, Table!FindKey(t, k)  PROVE TableProofs!FindKey(t, k)
    BY <2>12, TableWords DEF
       Table!FindKey, TableProofs!FindKey, Table!Goto, TableProofs!Goto, Table!table,
       TableProofs!table
  <2>13. ASSUME NEW t \in Threads, NEW r \in Records, Table!InsertRecord(t, r)  PROVE TableProofs!InsertRecord(t, r)
    BY <2>13, TableWords DEF
       Table!InsertRecord, TableProofs!InsertRecord, Table!Goto, TableProofs!Goto,
       Table!table, TableProofs!table
  <2>14. ASSUME NEW k \in Table!Keys, Table!DeleteKey(k)  PROVE TableProofs!DeleteKey(k)
    BY <2>14, TableWords DEF
       Table!DeleteKey, TableProofs!DeleteKey, Table!DeleteNodes, TableProofs!DeleteNodes,
       Table!locals, TableProofs!locals
  <2>15. ASSUME NEW F \in Filters, Table!DeleteIf(F)  PROVE TableProofs!DeleteIf(F)
    BY <2>15, TableWords DEF
       Table!DeleteIf, TableProofs!DeleteIf, Table!DeleteNodes, TableProofs!DeleteNodes,
       Table!locals, TableProofs!locals
  <2>16. ASSUME Table!Clear  PROVE TableProofs!Clear
    BY <2>16, TableWords DEF
       Table!Clear, TableProofs!Clear, Table!DeleteNodes, TableProofs!DeleteNodes,
       Table!locals, TableProofs!locals
  <2> QED
    BY <2>1, <2>2, <2>3, <2>4, <2>5, <2>6, <2>7, <2>8, <2>9, <2>10, <2>11, <2>12, <2>13, <2>14, <2>15, <2>16, TableWords DEF
       Table!Next, TableProofs!Next, Table!vars, TableProofs!vars, Table!table,
       TableProofs!table, Table!locals, TableProofs!locals
<1> QED
  BY <1>1, <1>2, PTL DEF Table!Spec, TableProofs!Spec

LEMMA TableAlone == Spec => Table!Spec
<1>1. Init => Table!Init
  BY DEF Init
<1>2. [Next]_vars => [Table!Next]_(Table!vars)
  BY Alone DEF tableVars, Table!vars, Table!table, Table!locals
<1> QED
  BY <1>1, <1>2, PTL DEF Spec, Table!Spec, vars

\* The references to a record and the count of the items are exact, for any
\* number of threads and records.
THEOREM CountsExactTheorem == Spec => []CountsExact
<1>1. TableProofs!Assumptions
  BY UnitsAssumption DEF TableProofs!Assumptions, TableProofs!IsFiniteSet, IsFiniteSet,
     TableProofs!Cardinality, Cardinality, TableProofs!HashOf, TableProofs!Keys
<1>2. TableProofs!Spec => []TableProofs!CountsExact
  BY <1>1, TableProofs!CountsTheorem
<1>3. TableProofs!CountsExact => CountsExact
  BY TableWords DEF CountsExact, Table!CountsExact, TableProofs!CountsExact, Table!Pending, TableProofs!Pending
<1> QED
  BY <1>2, <1>3, TableAlone, TableSame, PTL

\* The table implements a set with one record for each key in which every
\* call takes effect at one instant.
THEOREM ActsAtomicallyTheorem == Spec => ActsAtomically
<1>1. TableProofs!Assumptions
  BY UnitsAssumption DEF TableProofs!Assumptions, TableProofs!IsFiniteSet, IsFiniteSet,
     TableProofs!Cardinality, Cardinality, TableProofs!HashOf, TableProofs!Keys
<1>2. TableProofs!Spec => TableProofs!ActsAtomically
  BY <1>1, TableProofs!AtomicTheorem
<1>3. TableProofs!Map!Init => Table!Map!Init
  BY TableWords DEF Table!Map!Init, TableProofs!Map!Init
<1>4. [TableProofs!Map!Next]_(TableProofs!Map!vars) => [Table!Map!Next]_(Table!Map!vars)
  <2>1. Table!Linked = TableProofs!Linked /\ Table!Linked' = TableProofs!Linked'
    BY DEF Table!Linked, TableProofs!Linked, Table!Range, TableProofs!Range
  <2>2. ASSUME NEW t \in Threads, TableProofs!Map!Begin(t)  PROVE Table!Map!Begin(t)
    BY <2>1, <2>2 DEF
       Table!Map!Begin, TableProofs!Map!Begin, Table!Map!Calls, TableProofs!Map!Calls,
       Table!Map!Keys, TableProofs!Map!Keys
  <2>3. ASSUME NEW t \in Threads, TableProofs!Map!Find(t)  PROVE Table!Map!Find(t)
    BY <2>1, <2>3 DEF
       Table!Map!Find, TableProofs!Map!Find, Table!Map!Matches, TableProofs!Map!Matches,
       Table!Map!Decide, TableProofs!Map!Decide
  <2>4. ASSUME NEW t \in Threads, TableProofs!Map!Insert(t)  PROVE Table!Map!Insert(t)
    BY <2>1, <2>4 DEF
       Table!Map!Insert, TableProofs!Map!Insert, Table!Map!Matches, TableProofs!Map!Matches,
       Table!Map!Decide, TableProofs!Map!Decide
  <2>5. ASSUME NEW t \in Threads, TableProofs!Map!Return(t)  PROVE Table!Map!Return(t)
    BY <2>1, <2>5 DEF
       Table!Map!Return, TableProofs!Map!Return
  <2>6. TableProofs!Map!Remove => Table!Map!Remove
    BY <2>1 DEF Table!Map!Remove, TableProofs!Map!Remove
  <2>7. UNCHANGED TableProofs!Map!vars => UNCHANGED Table!Map!vars
    BY <2>1 DEF Table!Map!vars, TableProofs!Map!vars
  <2> QED
    BY <2>2, <2>3, <2>4, <2>5, <2>6, <2>7 DEF Table!Map!Next, TableProofs!Map!Next
<1> QED
  BY <1>2, <1>3, <1>4, TableAlone, TableSame, PTL DEF ActsAtomically, Table!ActsAtomically, TableProofs!ActsAtomically, Table!Map!Spec, TableProofs!Map!Spec

-----------------------------------------------------------------------------
TreeProofs == INSTANCE TreeHash_proofs WITH
    nItems <- count, readers <- sharers, pc <- tpc, refs <- trefs, held <- theld

\* Both instances use the library's words alike.
LEMMA TreeWords ==
    /\ \A f : Tree!Range(f) = TreeProofs!Range(f)
    /\ \A S : Tree!Cardinality(S) = TreeProofs!Cardinality(S)
    /\ \A s : Tree!Front(s) = TreeProofs!Front(s)
    /\ \A s, i : Tree!RemoveAt(s, i) = TreeProofs!RemoveAt(s, i)
BY DEF Tree!Range, TreeProofs!Range, Tree!Cardinality, TreeProofs!Cardinality,
       Tree!Front, TreeProofs!Front, Tree!RemoveAt, TreeProofs!RemoveAt

LEMMA TreeSame == Tree!Spec => TreeProofs!Spec
<1>1. Tree!Init => TreeProofs!Init
  BY DEF Tree!Init, TreeProofs!Init
<1>2. [Tree!Next]_(Tree!vars) => [TreeProofs!Next]_(TreeProofs!vars)
  <2>1. ASSUME NEW T, NEW p  PROVE Tree!Below(T, p) = TreeProofs!Below(T, p)
    BY Zenon DEF Tree!Below, TreeProofs!Below, Tree!Range, TreeProofs!Range
  <2>2. ASSUME NEW T, NEW p  PROVE Tree!DeleteNodeInternal(T, p) = TreeProofs!DeleteNodeInternal(T, p)
    BY <2>1, Zenon DEF Tree!DeleteNodeInternal, TreeProofs!DeleteNodeInternal,
       Tree!RemoveAt, TreeProofs!RemoveAt
  <2>3. ASSUME NEW F, NEW T, NEW p  PROVE Tree!Visit(F, T, p) = TreeProofs!Visit(F, T, p)
    BY <2>2, Zenon DEF Tree!Visit, TreeProofs!Visit
  <2>4. ASSUME NEW F  PROVE Tree!Walk(F) = TreeProofs!Walk(F)
    BY <2>3, Zenon DEF Tree!Walk, TreeProofs!Walk
  <2>5. ASSUME NEW T, Tree!Become(T)  PROVE TreeProofs!Become(T)
    BY <2>5, TreeWords DEF Tree!Become, TreeProofs!Become, Tree!Nodes, TreeProofs!Nodes,
       Tree!Exclusive, TreeProofs!Exclusive
  <2>6. ASSUME NEW t \in Threads, Tree!FindParent(t)  PROVE TreeProofs!FindParent(t)
    BY <2>6 DEF
     Tree!FindParent, TreeProofs!FindParent, Tree!Path, TreeProofs!Path, Tree!Nodes,
     TreeProofs!Nodes, Tree!Goto, TreeProofs!Goto
  <2>7. ASSUME NEW t \in Threads, Tree!AddExisting(t)  PROVE TreeProofs!AddExisting(t)
    BY <2>7 DEF
     Tree!AddExisting, TreeProofs!AddExisting, Tree!Path, TreeProofs!Path, Tree!Nodes,
     TreeProofs!Nodes, Tree!IsLast, TreeProofs!IsLast, Tree!Goto, TreeProofs!Goto,
     Tree!Descend, TreeProofs!Descend
  <2>8. ASSUME NEW t \in Threads, Tree!AddNew(t)  PROVE TreeProofs!AddNew(t)
    BY <2>8 DEF
     Tree!AddNew, TreeProofs!AddNew, Tree!Path, TreeProofs!Path, Tree!Nodes, TreeProofs!Nodes,
     Tree!IsLast, TreeProofs!IsLast, Tree!Goto, TreeProofs!Goto
  <2>9. ASSUME NEW t \in Threads, Tree!AddFails(t)  PROVE TreeProofs!AddFails(t)
    BY <2>9 DEF
     Tree!AddFails, TreeProofs!AddFails, Tree!Goto, TreeProofs!Goto
  <2>10. ASSUME NEW t \in Threads, Tree!ReferenceRecord(t)  PROVE TreeProofs!ReferenceRecord(t)
    BY <2>10 DEF
     Tree!ReferenceRecord, TreeProofs!ReferenceRecord, Tree!Goto, TreeProofs!Goto
  <2>11. ASSUME NEW t \in Threads, Tree!CountItem(t)  PROVE TreeProofs!CountItem(t)
    BY <2>11 DEF
     Tree!CountItem, TreeProofs!CountItem, Tree!Goto, TreeProofs!Goto, Tree!Descend,
     TreeProofs!Descend, Tree!Path, TreeProofs!Path, Tree!IsLast, TreeProofs!IsLast
  <2>12. ASSUME NEW t \in Threads, Tree!UpdateParent(t)  PROVE TreeProofs!UpdateParent(t)
    BY <2>12 DEF
     Tree!UpdateParent, TreeProofs!UpdateParent, Tree!Descend, TreeProofs!Descend, Tree!Goto,
     TreeProofs!Goto, Tree!Path, TreeProofs!Path, Tree!IsLast, TreeProofs!IsLast
  <2>13. ASSUME NEW t \in Threads, Tree!Release(t)  PROVE TreeProofs!Release(t)
    BY <2>13 DEF
     Tree!Release, TreeProofs!Release, Tree!SharedRelease, TreeProofs!SharedRelease,
     Tree!Goto, TreeProofs!Goto
  <2>14. ASSUME NEW t \in Threads, Tree!Rehash(t)  PROVE TreeProofs!Rehash(t)
    BY <2>14 DEF
     Tree!Rehash, TreeProofs!Rehash, Tree!Exclusive, TreeProofs!Exclusive,
     Tree!Goto, TreeProofs!Goto
  <2>15. ASSUME NEW t \in Threads, Tree!Drop(t)  PROVE TreeProofs!Drop(t)
    BY <2>15 DEF
     Tree!Drop, TreeProofs!Drop
  <2>16. ASSUME NEW t \in Threads, NEW r \in Records, Tree!InsertRecord(t, r)
        PROVE  TreeProofs!InsertRecord(t, r)
    BY <2>16 DEF
     Tree!InsertRecord, TreeProofs!InsertRecord, Tree!Create, TreeProofs!Create,
     Tree!Goto, TreeProofs!Goto
  <2>17. ASSUME NEW t \in Threads, NEW p \in Tree!Range(Orders[1]), Tree!FindKey(t, p)
        PROVE  TreeProofs!FindKey(t, p)
    BY <2>17 DEF
     Tree!FindKey, TreeProofs!FindKey, Tree!Nodes, TreeProofs!Nodes
  <2>18. ASSUME NEW p, Tree!DeleteKey(p)  PROVE TreeProofs!DeleteKey(p)
    BY <2>2, <2>5, <2>18 DEF
     Tree!DeleteKey, TreeProofs!DeleteKey, Tree!Nodes, TreeProofs!Nodes
  <2>19. ASSUME NEW F, Tree!DeleteIf(F)  PROVE TreeProofs!DeleteIf(F)
    BY <2>4, <2>5, <2>19 DEF Tree!DeleteIf, TreeProofs!DeleteIf
  <2>20. ASSUME Tree!Clear  PROVE TreeProofs!Clear
    BY <2>5, <2>20 DEF Tree!Clear, TreeProofs!Clear
  <2>21. ASSUME NEW t \in Threads, NEW r \in Records, Tree!CopyFails(t, r)
        PROVE  TreeProofs!CopyFails(t, r)
    BY <2>21 DEF
     Tree!CopyFails, TreeProofs!CopyFails, Tree!Create, TreeProofs!Create,
     Tree!SharedRelease, TreeProofs!SharedRelease
  <2>22. ASSUME Tree!Overlap  PROVE TreeProofs!Overlap
    BY <2>22 DEF Tree!Overlap, TreeProofs!Overlap
  <2>23. ASSUME Tree!Step  PROVE TreeProofs!Step
    BY <2>6, <2>7, <2>8, <2>9, <2>10, <2>11, <2>12, <2>13, <2>14, <2>15, <2>16,
       <2>17, <2>18, <2>19, <2>20, <2>21, <2>22, <2>23, TreeWords DEF Tree!Step, TreeProofs!Step
  <2> QED
    BY <2>23 DEF Tree!Next, TreeProofs!Next, Tree!vars, TreeProofs!vars
<1> QED
  BY <1>1, <1>2, PTL DEF Tree!Spec, TreeProofs!Spec

LEMMA TreeAlone == Spec => Tree!Spec
<1>1. Init => Tree!Init
  BY DEF Init
<1>2. [Next]_vars => [Tree!Next]_(Tree!vars)
  BY Alone DEF treeVars, Tree!vars
<1> QED
  BY <1>1, <1>2, PTL DEF Spec, Tree!Spec, vars

\* Every node of the tree is once in its parent's list and in no other, the
\* count and the references are exact, for any number of threads and records
\* and paths of any length, up to the first writer or release that meets a share
\* taken away by an insert whose copy of the path failed.
THEOREM TreeIsSoundTheorem == Spec => []TreeIsSound
<1>1. TreeProofs!Assumptions
  BY UnitsAssumption DEF TreeProofs!Assumptions, TreeProofs!Paths, TreeProofs!Prefix,
     TreeProofs!IsFiniteSet, IsFiniteSet, TreeProofs!Cardinality, Cardinality
<1>2. TreeProofs!Spec => []TreeProofs!TreeIsSound
  BY <1>1, TreeProofs!TreeTheorem
<1>3. TreeProofs!TreeIsSound => TreeIsSound
  BY TreeWords DEF TreeIsSound, Tree!TreeIsSound, TreeProofs!TreeIsSound, Tree!Pending,
     TreeProofs!Pending, Tree!Nodes, TreeProofs!Nodes, Tree!Path, TreeProofs!Path
<1> QED
  BY <1>2, <1>3, TreeAlone, TreeSame, PTL

-----------------------------------------------------------------------------
(* The environment of the server process.                                  *)

EnvProofs == INSTANCE ProcessEnvironment_proofs WITH
    Ports <- PortTexts, copied <- environmentCopied, pc <- epc, index <- variable

LEMMA LongerSeq == ASSUME NEW S, NEW T, S \subseteq T PROVE Seq(S) \subseteq Seq(T)
OBVIOUS

LEMMA EnvRange ==
    ASSUME NEW D, NEW S, NEW T, S \subseteq T,
           Collections \subseteq Seq([name : Seq(D), value : Seq(S)])
    PROVE  Collections \subseteq Seq([name : Seq(D), value : Seq(T)])
<1>1. Seq(S) \subseteq Seq(T)
  BY LongerSeq
<1>2. [name : Seq(D), value : Seq(S)] \subseteq [name : Seq(D), value : Seq(T)]
  BY <1>1
<1> QED
  BY <1>2, LongerSeq, Zenon

LEMMA EnvAssumptions == EnvProofs!Assumptions
<1>1. STRING \subseteq EnvProofs!Tokens
  BY DEF EnvProofs!Tokens
<1>2. Seq(STRING) \subseteq EnvProofs!Text
  BY <1>1, LongerSeq, Zenon DEF EnvProofs!Text
<1>3. Seq(Seq(STRING)) \subseteq Seq(EnvProofs!Text)
  BY <1>2, LongerSeq, Zenon
<1>4. Collections \subseteq Seq([name : Seq(DOMAIN towupper), value : EnvProofs!Text])
  BY <1>1, EnvRange, UnitsAssumption, Zenon DEF EnvProofs!Text
<1>5. \A x \in DOMAIN towupper : towupper[x] \in EnvProofs!Tokens
  BY <1>1, UnitsAssumption, Zenon
<1>6. AppConfigPaths \subseteq EnvProofs!Text /\ Inherited \in Seq(EnvProofs!Text)
  BY <1>2, <1>3, UnitsAssumption, Zenon
<1>7. \A i \in DOMAIN Inherited : Inherited[i] # <<>> /\ Inherited[i][1] # "="
  BY UnitsAssumption, Zenon
<1>8. PortTexts \subseteq EnvProofs!Tokens \ {"=", "%PORT%", "%DEBUG_PORT%"}
  BY <1>1, UnitsAssumption, Zenon
<1> QED
  BY <1>4, <1>5, <1>6, <1>7, <1>8, Zenon DEF EnvProofs!Assumptions

LEMMA EnvWords ==
    /\ \A s, e : Env!Contains(s, e) <=> EnvProofs!Contains(s, e)
    /\ \A S : Env!Min(S) = EnvProofs!Min(S) /\ Env!Max(S) = EnvProofs!Max(S)
    /\ \A S : Env!Cardinality(S) = EnvProofs!Cardinality(S)
    /\ \A s, t : Env!IsPrefix(s, t) <=> EnvProofs!IsPrefix(s, t)
    /\ \A s, t : Env!wcsstr(s, t) = EnvProofs!wcsstr(s, t)
    /\ \A s : Env!Upper(s) = EnvProofs!Upper(s)
BY DEF Env!Contains, EnvProofs!Contains, Env!Min, EnvProofs!Min, Env!Max, EnvProofs!Max, Env!Cardinality, EnvProofs!Cardinality, Env!IsPrefix,
       EnvProofs!IsPrefix, Env!wcsstr, EnvProofs!wcsstr, Env!Upper, EnvProofs!Upper

LEMMA EnvTexts ==
    /\ \A s : Env!Replaced(s) = EnvProofs!Replaced(s)
    /\ Env!AppPath = EnvProofs!AppPath /\ Env!DebugPort = EnvProofs!DebugPort
    /\ Env!OwnName = EnvProofs!OwnName /\ Env!OwnValue = EnvProofs!OwnValue
<1>1. ASSUME NEW s, NEW x, NEW v  PROVE Env!Replace(s, x, v) = EnvProofs!Replace(s, x, v)
  BY EnvWords, Zenon DEF Env!Replace, EnvProofs!Replace
<1>2. \A s : Env!Replaced(s) = EnvProofs!Replaced(s)
  BY <1>1, Zenon DEF Env!Replaced, EnvProofs!Replaced
<1>3. Env!AppPath = EnvProofs!AppPath
  BY Zenon DEF Env!AppPath, EnvProofs!AppPath, Env!wcsstr, EnvProofs!wcsstr, Env!Cardinality,
     EnvProofs!Cardinality, Env!Min, EnvProofs!Min
<1>4. Env!DebugPort = EnvProofs!DebugPort
  BY DEF Env!DebugPort, EnvProofs!DebugPort
<1>5. Env!OwnName = EnvProofs!OwnName /\ Env!OwnValue = EnvProofs!OwnValue
  BY <1>3, Zenon DEF Env!OwnName, EnvProofs!OwnName, Env!OwnValue, EnvProofs!OwnValue
<1> QED
  BY <1>2, <1>3, <1>4, <1>5

LEMMA EnvSame == Env!Spec => EnvProofs!Spec
<1>1. Env!Init => EnvProofs!Init
  BY DEF Env!Init, EnvProofs!Init
<1>2. [Env!Next]_(Env!vars) => [EnvProofs!Next]_(EnvProofs!vars)
  <2> USE DEF Env!Goto, EnvProofs!Goto, Env!inputs, EnvProofs!inputs, Env!populated,
              EnvProofs!populated, Env!process, EnvProofs!process, Env!ports, EnvProofs!ports,
              Env!block, EnvProofs!block
  <2>1. Env!ReadVariable => EnvProofs!ReadVariable
    BY EnvWords DEF Env!ReadVariable, EnvProofs!ReadVariable
  <2>2. Env!ReadEnd => EnvProofs!ReadEnd
    BY DEF Env!ReadEnd, EnvProofs!ReadEnd
  <2>3. Env!SelectVariable => EnvProofs!SelectVariable
    BY Zenon DEF Env!SelectVariable, EnvProofs!SelectVariable, Env!wcsstr, EnvProofs!wcsstr,
       Env!Min, EnvProofs!Min
  <2>4. Env!CopyEnvironment => EnvProofs!CopyEnvironment
    BY DEF Env!CopyEnvironment, EnvProofs!CopyEnvironment
  <2>5. Env!PickPort => EnvProofs!PickPort
    BY DEF Env!PickPort, EnvProofs!PickPort, Env!Retry, EnvProofs!Retry
  <2>6. Env!PickDebugPort => EnvProofs!PickDebugPort
    BY DEF Env!PickDebugPort, EnvProofs!PickDebugPort, Env!Retry, EnvProofs!Retry
  <2>0. ASSUME NEW intended, NEW left, Env!Unchecked(mszNewEnvironment, intended, left)
        PROVE  EnvProofs!Unchecked(mszNewEnvironment, intended, left)
    BY <2>0, Zenon DEF Env!Unchecked, EnvProofs!Unchecked
  <2>7. Env!PrepareCommandLine => EnvProofs!PrepareCommandLine
    BY <2>0, EnvWords, EnvTexts DEF Env!PrepareCommandLine, EnvProofs!PrepareCommandLine
  <2>8. Env!AppendVariable => EnvProofs!AppendVariable
    BY <2>0, EnvWords, EnvTexts DEF Env!AppendVariable, EnvProofs!AppendVariable
  <2>9. Env!AppendInherited => EnvProofs!AppendInherited
    BY <2>0 DEF Env!AppendInherited, EnvProofs!AppendInherited
  <2>10. Env!Fail => EnvProofs!Fail
    BY DEF Env!Fail, EnvProofs!Fail
  <2>11. UNCHANGED Env!vars => UNCHANGED EnvProofs!vars
    BY DEF Env!vars, EnvProofs!vars
  <2>12. Env!ReverseVariable => EnvProofs!ReverseVariable
    BY DEF Env!ReverseVariable, EnvProofs!ReverseVariable, Env!Unchecked, EnvProofs!Unchecked
  <2>13. Env!ReverseEnd => EnvProofs!ReverseEnd
    BY DEF Env!ReverseEnd, EnvProofs!ReverseEnd
  <2>14. Env!AppendOwn => EnvProofs!AppendOwn
    BY <2>0, EnvTexts DEF Env!AppendOwn, EnvProofs!AppendOwn
  <2> QED
    BY <2>1, <2>2, <2>3, <2>4, <2>5, <2>6, <2>7, <2>8, <2>9, <2>10, <2>11, <2>12, <2>13, <2>14
       DEF Env!Next, EnvProofs!Next
<1> QED
  BY <1>1, <1>2, PTL DEF Env!Spec, EnvProofs!Spec

LEMMA EnvAlone == Spec => Env!Spec
<1>1. Init => Env!Init
  BY DEF Init
<1>2. [Next]_vars => [Env!Next]_(Env!vars)
  BY Alone DEF envVars, Env!vars, Env!inputs, Env!populated, Env!process, Env!ports, Env!block
<1> QED
  BY <1>1, <1>2, PTL DEF Spec, Env!Spec, vars

\* Both instances promise the same.
LEMMA EnvPromise == EnvProofs!EnvironmentDelivered => EnvironmentDelivered
<1>1. \A E, name : Env!LookupIn(E, name) = EnvProofs!LookupIn(E, name)
  BY Zenon DEF Env!LookupIn, EnvProofs!LookupIn, Env!IsPrefix, EnvProofs!IsPrefix, Env!Min,
     EnvProofs!Min
<1>2. \A name : Env!Lookup(name) = EnvProofs!Lookup(name)
  BY <1>1, Zenon DEF Env!Lookup, EnvProofs!Lookup
<1>3. Env!Configured = EnvProofs!Configured
  BY Zenon DEF Env!Configured, EnvProofs!Configured, Env!Upper, EnvProofs!Upper
<1>4. Env!Own = EnvProofs!Own
  BY Zenon DEF Env!Own, EnvProofs!Own
<1>5. Env!Ordinary <=> EnvProofs!Ordinary
  BY <1>3, <1>4, Zenon DEF Env!Ordinary, EnvProofs!Ordinary
<1>6. Env!Confused <=> EnvProofs!Confused
  BY <1>3, EnvWords, Zenon DEF Env!Confused, EnvProofs!Confused
<1>7. ASSUME NEW name  PROVE Env!Wanted(name) = EnvProofs!Wanted(name)
  <2> DEFINE S == {i \in DOMAIN variables : Env!Upper(variables[i].name) = name}
             T == {i \in DOMAIN variables : EnvProofs!Upper(variables[i].name) = name}
  <2>1. S = T
    BY EnvWords
  <2>2. Env!Max(S) = EnvProofs!Max(T)
    BY <2>1, EnvWords, Zenon
  <2> QED
    BY <2>2, EnvTexts, Zenon DEF Env!Wanted, EnvProofs!Wanted
<1>8. Env!DebugPortAsked <=> EnvProofs!DebugPortAsked
  BY EnvWords, Zenon DEF Env!DebugPortAsked, EnvProofs!DebugPortAsked
<1>9. \A name : Env!Values(name) = EnvProofs!Values(name)
  BY EnvWords, EnvTexts DEF Env!Values, EnvProofs!Values
<1> QED
  BY <1>1, <1>2, <1>3, <1>4, <1>5, <1>6, <1>7, <1>8, <1>9, EnvWords, Zenon
     DEF EnvironmentDelivered, Env!EnvironmentDelivered, EnvProofs!EnvironmentDelivered

\* For any configured variables, command line and inherited environment, a
\* process that starts finds its own port and path unless an Append failed
\* unnoticed, the debug port and inherited values if the configured names are
\* ordinary, too, and the last configured values if the variables were copied,
\* too, and no string is taken for another.  Whatever failed, an ordinary name
\* brings a value meant for it, the worker's or none.
THEOREM EnvironmentDeliveredTheorem == Spec => []EnvironmentDelivered
<1>1. EnvProofs!Spec => []EnvProofs!EnvironmentDelivered
  BY EnvAssumptions, EnvProofs!EnvironmentDeliveredTheorem
<1> QED
  BY <1>1, EnvPromise, EnvAlone, EnvSame, PTL
==============================================================================
