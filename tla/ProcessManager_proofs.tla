----------------------- MODULE ProcessManager_proofs -----------------------
(***************************************************************************)
(* Theorems about ProcessManager, for any number of threads, objects,      *)
(* slots, ports and children.                                              *)
(***************************************************************************)
EXTENDS ProcessManager, FiniteSetTheorems, TLAPS

\* The program points between AcquireSRWLockExclusive and its release.
Starting == {"start"} \cup InStart
Locked   == {"rapidfail", "create"} \cup Starting

\* m_srwLock is held exclusively by the thread that is between acquire and
\* release, or by the recycler.
LockOwner ==
    /\ \A t \in Threads : pc[t] \in Locked <=> lock = t
    /\ rpc = "signal" <=> lock = Recycler

\* The slot a starting thread works on: empty until the object is created.
StartingSlot ==
    \A t \in Threads :
        /\ pc[t] \in {"rapidfail", "create"} => list[idx[t]] = Null
        /\ pc[t] \in Starting => list[idx[t]] \in Procs

\* A request that has its process got one.
HeldByHave == \A t \in Threads : pc[t] = "have" => held[t] \in Procs

Core == TypeOK /\ LockOwner /\ StartingSlot /\ HeldByHave

-----------------------------------------------------------------------------
(* What the building blocks of the actions do to the types.                *)

LEMMA NextSlotType == ASSUME NEW a \in Nat PROVE a % N \in Slots
BY ProcessManagerAssumption DEF Slots

LEMMA ExceptType ==
    ASSUME NEW S, NEW T, NEW f \in [S -> T], NEW x, NEW v \in T
    PROVE  [f EXCEPT ![x] = v] \in [S -> T]
OBVIOUS

LEMMA JobExceptType ==
    ASSUME os \in JobStates, NEW p \in Procs, NEW w, NEW v \in {"none", "up", "gone"}
    PROVE  [os EXCEPT ![p][w] = v] \in JobStates
BY DEF JobStates

LEMMA WaitExceptType ==
    ASSUME wait \in [Procs -> [OsProcs -> WaitPc]], NEW p \in Procs, NEW w, NEW v \in WaitPc
    PROVE  [wait EXCEPT ![p][w] = v] \in [Procs -> [OsProcs -> WaitPc]]
OBVIOUS

LEMMA FieldPlusType ==
    ASSUME NEW f \in [Procs -> Int], NEW p, NEW d \in Nat
    PROVE  [f EXCEPT ![p] = @ + d] \in [Procs -> Int]
<1> DEFINE g == [f EXCEPT ![p] = @ + d]
<1>1. \A q \in Procs : g[q] \in Int
  OBVIOUS
<1> QED
  BY <1>1

LEMMA GotoType ==
    ASSUME ThreadType, NEW t \in Threads, NEW l \in ThreadPc, Goto(t, l), held' = held
    PROVE  ThreadType'
BY DEF ThreadType, Goto

LEMMA ReturnType ==
    ASSUME ThreadType, NEW t \in Threads, NEW l \in ThreadPc, Return(t, l),
           held' \in [Threads -> Procs \cup {Null}]
    PROVE  ThreadType'
<1>1. 0 \in Slots
  BY ProcessManagerAssumption DEF Slots
<1> QED
  BY <1>1 DEF ThreadType, Return

LEMMA KilledType ==
    ASSUME NEW f \in [OsProcs -> {"none", "up", "gone"}]
    PROVE  Killed(f) \in [OsProcs -> {"none", "up", "gone"}]
BY DEF Killed

LEMMA TerminatedType ==
    ASSUME OsType, NEW S \in SUBSET Procs PROVE Terminated(S) \in JobStates
BY DEF OsType, Terminated, JobStates

LEMMA DereferenceType ==
    ASSUME TypeOK, NEW S \in SUBSET Procs, NEW f \in JobStates, Dereference(S, f)
    PROVE  /\ os' \in JobStates /\ cRefs' \in [Procs -> Int]
           /\ alloc' \in [Procs -> {"unused", "live", "freed"}] /\ pmRefs' \in Int
<1>1. os' \in JobStates
  BY KilledType DEF Dereference, JobStates
<1>2. IsFiniteSet(Dying(S))
  BY ProcessManagerAssumption, FS_Subset DEF Dying
<1> QED
  BY <1>1, <1>2, FS_CardinalityType DEF Dereference, TypeOK, ManagerType, ObjectType

LEMMA StopProcessType ==
    ASSUME TypeOK, NEW S \in SUBSET Procs, StopProcess(S)
    PROVE  /\ fReady' \in [Procs -> BOOLEAN] /\ stops' \in [Procs -> Nat]
           /\ rapidFails' \in Nat
<1>1. Cardinality(S) \in Nat
  BY ProcessManagerAssumption, FS_Subset, FS_CardinalityType
<1> QED
  BY <1>1 DEF StopProcess, TypeOK, ManagerType, ObjectType

LEMMA DelistType ==
    ASSUME TypeOK, NEW S, Delist(S) PROVE list' \in [Slots -> Procs \cup {Null}]
BY DEF Delist, TypeOK, ManagerType

LEMMA UnregisterType ==
    ASSUME NEW f \in [OsProcs -> WaitPc] PROVE Unregister(f) \in [OsProcs -> WaitPc]
BY DEF Unregister, WaitPc

LEMMA CallbackType ==
    ASSUME TypeOK, NEW p \in Procs, NEW w \in OsProcs, NEW a, NEW b \in WaitPc,
           Callback(p, w, a, b)
    PROVE  wait' \in [Procs -> [OsProcs -> WaitPc]]
BY DEF Callback, TypeOK, ObjectType

-----------------------------------------------------------------------------
(* Types.                                                                  *)

LEMMA StartFailsType ==
    ASSUME Core, NEW t \in Threads, pc[t] \in Starting, StartFails(t) PROVE TypeOK'
<1> DEFINE p == list[idx[t]]
<1>1. p \in Procs
  BY DEF Core, StartingSlot
<1>2. /\ StopProcess({p}) /\ Delist({p})
      /\ Dereference({p}, [os EXCEPT ![p] = Killed(@)])
      /\ wait' = [wait EXCEPT ![p] = Unregister(@)]
      /\ Return(t, "failed")
      /\ lock' = Free
      /\ UNCHANGED <<listReady, route, fStopping, port, listener, held, recVars>>
  BY DEF StartFails
<1>3. [os EXCEPT ![p] = Killed(@)] \in JobStates
  BY <1>1, KilledType DEF Core, TypeOK, OsType, JobStates
<1>4. wait' \in [Procs -> [OsProcs -> WaitPc]]
  BY <1>1, <1>2, UnregisterType DEF Core, TypeOK, ObjectType
<1>5. ThreadType'
  BY <1>2, ReturnType DEF Core, TypeOK, ThreadType, ThreadPc
<1> HIDE DEF p
<1>6. os' \in JobStates /\ cRefs' \in [Procs -> Int] /\ pmRefs' \in Int
      /\ alloc' \in [Procs -> {"unused", "live", "freed"}]
  BY <1>1, <1>2, <1>3, DereferenceType DEF Core
<1>7. fReady' \in [Procs -> BOOLEAN] /\ stops' \in [Procs -> Nat] /\ rapidFails' \in Nat
      /\ list' \in [Slots -> Procs \cup {Null}]
  BY <1>1, <1>2, StopProcessType, DelistType DEF Core
<1> QED
  BY <1>2, <1>4, <1>5, <1>6, <1>7
     DEF Core, TypeOK, ManagerType, ObjectType, OsType, RecyclerType, recVars

LEMMA ShutdownProcessNoLockType ==
    ASSUME TypeOK, NEW S \in SUBSET Procs, ShutdownProcessNoLock(S)
    PROVE  /\ os' \in JobStates /\ cRefs' \in [Procs -> Int] /\ pmRefs' \in Int
           /\ alloc' \in [Procs -> {"unused", "live", "freed"}]
           /\ fReady' \in [Procs -> BOOLEAN] /\ stops' \in [Procs -> Nat]
           /\ rapidFails' \in Nat /\ list' \in [Slots -> Procs \cup {Null}]
<1>1. Terminated(S) \in JobStates
  BY TerminatedType DEF TypeOK
<1> QED
  BY <1>1, DereferenceType, StopProcessType, DelistType DEF ShutdownProcessNoLock

LEMMA TypeStep == Core /\ [Next]_vars => TypeOK'
<1> SUFFICES ASSUME Core, [Next]_vars PROVE TypeOK' OBVIOUS
<1>0. /\ {"idle", "initlist", "shared", "recheck", "recheckReady", "exclusive",
            "rapidfail", "create", "start", "have", "nullok", "failed", "fault",
            "polling", "children", "verify"} \subseteq ThreadPc
  BY DEF ThreadPc, InStart
<1> USE <1>0, ProcessManagerAssumption
    DEF Core, TypeOK, ManagerType, ObjectType, OsType, RecyclerType,
        mgrVars, objVars, osVars, thrVars, recVars
<1>1. ASSUME NEW t \in Threads, EnterGetProcess(t) PROVE TypeOK'
  BY <1>1, GotoType DEF EnterGetProcess, ThreadType
<1>2. ASSUME NEW t \in Threads, InitList(t) PROVE TypeOK'
  BY <1>2, GotoType DEF InitList, ThreadType
<1>3. ASSUME NEW t \in Threads, SharedLookup(t) PROVE TypeOK'
  <2>1. route + 1 \in Nat
    BY DEF Slots
  <2>2. (route + 1) % N \in Slots
    BY <2>1, NextSlotType
  <2>3. route' \in Slots /\ cRefs' \in [Procs -> Int]
    BY <1>3, <2>2 DEF SharedLookup, Reference
  <2> DEFINE p == list[(route + 1) % N]
  <2>4. ASSUME p # Null /\ fReady[p] PROVE ThreadType'
    <3>1. p \in Procs
      BY <2>2, <2>4
    <3>2. held' \in [Threads -> Procs \cup {Null}] /\ Return(t, "have")
      BY <1>3, <2>4, <3>1 DEF SharedLookup, ThreadType
    <3> QED
      BY <3>2, ReturnType
  <2>5. ASSUME ~(p # Null /\ fReady[p]) PROVE ThreadType'
    <3>1. /\ pc' = [pc EXCEPT ![t] = "recheck"]
          /\ idx' = [idx EXCEPT ![t] = (route + 1) % N]
          /\ UNCHANGED <<held, seen, owner>>
      BY <1>3, <2>5 DEF SharedLookup
    <3> QED
      BY <2>2, <3>1, ExceptType DEF ThreadType
  <2>6. ThreadType'
    BY <2>4, <2>5
  <2>7. UNCHANGED <<list, listReady, rapidFails, pmRefs, lock, alloc, fReady,
                    fStopping, port, wait, stops, osVars, recVars>>
    BY <1>3 DEF SharedLookup
  <2> QED
    BY <2>3, <2>6, <2>7
<1>4. ASSUME NEW t \in Threads, RecheckSlot(t) PROVE TypeOK'
  BY <1>4 DEF RecheckSlot, ThreadType
<1>5. ASSUME NEW t \in Threads, RecheckReady(t) PROVE TypeOK'
  BY <1>5, GotoType, ReturnType DEF RecheckReady, IsReady, Continue, Returned, ThreadType
<1>6. ASSUME NEW t \in Threads, LockExclusive(t) PROVE TypeOK'
  <2> DEFINE p == list[idx[t]]
  <2>1. CASE p # Null /\ fReady[p]
    <3>1. p \in Procs
      BY <2>1 DEF ThreadType
    <3>2. /\ held' \in [Threads -> Procs \cup {Null}] /\ Return(t, "have")
          /\ cRefs' \in [Procs -> Int]
      BY <1>6, <2>1, <3>1 DEF LockExclusive, Reference, ThreadType
    <3>3. ThreadType'
      BY <3>2, ReturnType
    <3> QED
      BY <1>6, <2>1, <3>2, <3>3 DEF LockExclusive
  <2>2. CASE ~(p # Null /\ fReady[p])
    <3> DEFINE S == IF p = Null THEN {} ELSE SamePort(p)
    <3>1. S \in SUBSET Procs
      BY DEF SamePort
    <3>2. ShutdownProcessNoLock(S) /\ lock' = t /\ Goto(t, "rapidfail")
          /\ UNCHANGED <<listReady, route, held, fStopping, port, wait, listener, recVars>>
      BY <1>6, <2>2 DEF LockExclusive
    <3>3. ThreadType'
      BY <3>2, GotoType
    <3> HIDE DEF S
    <3> QED
      BY <3>1, <3>2, <3>3, ShutdownProcessNoLockType
  <2> QED
    BY <2>1, <2>2
<1>7. ASSUME NEW t \in Threads, NEW b \in BOOLEAN, RapidFailCheck(t, b) PROVE TypeOK'
  BY <1>7, GotoType, ReturnType DEF RapidFailCheck, Continue, Returned, ThreadType
<1>8. ASSUME NEW t \in Threads, AllocationFails(t) PROVE TypeOK'
  BY <1>8, ReturnType DEF AllocationFails, ThreadType
<1>9. ASSUME NEW t \in Threads, NEW p \in Procs, CreateServerProcess(t, p) PROVE TypeOK'
  <2>1. ThreadType'
    BY <1>9, GotoType DEF CreateServerProcess
  <2>2. /\ list' \in [Slots -> Procs \cup {Null}] /\ cRefs' \in [Procs -> Int]
        /\ alloc' \in [Procs -> {"unused", "live", "freed"}] /\ pmRefs' \in Int
    BY <1>9, ExceptType DEF CreateServerProcess
  <2>3. UNCHANGED <<listReady, route, rapidFails, lock, fReady, fStopping, port,
                    wait, stops, osVars, held, recVars>>
    BY <1>9 DEF CreateServerProcess
  <2> QED
    BY <2>1, <2>2, <2>3
<1>10. ASSUME NEW t \in Threads, InitializeFails(t) PROVE TypeOK'
  <2>1. list[idx[t]] \in Procs
    BY <1>10 DEF InitializeFails, StartingSlot, Starting
  <2>2. ThreadType'
    BY <1>10, ReturnType DEF InitializeFails, ThreadType
  <2> QED
    BY <1>10, <2>1, <2>2, DereferenceType, DelistType DEF InitializeFails
<1>11. ASSUME NEW t \in Threads, NEW n \in Ports, StartProcess(t, n) PROVE TypeOK'
  <2>1. Main \in OsProcs
    BY DEF OsProcs
  <2> QED
    BY <1>11, <2>1, GotoType DEF StartProcess, JobStates
<1>12. ASSUME NEW t \in Threads, LaunchFails(t) \/ ChildrenFail(t) \/ VerifyFails(t)
       PROVE  TypeOK'
  BY <1>12, StartFailsType DEF LaunchFails, ChildrenFail, VerifyFails, Starting, InStart
<1>13. ASSUME NEW t \in Threads, NEW r \in Registration, PollEnds(t, r) PROVE TypeOK'
  <2>1. list[idx[t]] \in Procs
    BY <1>13 DEF PollEnds, StartingSlot, Starting, InStart
  <2>2. owner' \in [Threads -> OsProcs \cup {Null, "timeout", "other"}]
    BY <1>13, <2>1 DEF PollEnds, ThreadType, Listening
  <2>3. ThreadType'
    BY <1>13, <2>2 DEF PollEnds, ThreadType
  <2>4. wait' \in [Procs -> [OsProcs -> WaitPc]]
    BY <1>13 DEF PollEnds, Registration, WaitPc
  <2> QED
    BY <1>13, <2>3, <2>4 DEF PollEnds, Reference
<1>14. ASSUME NEW t \in Threads, NEW f \in [Children -> Registration \cup {"unopened"}],
              RegisterChildren(t, f)
       PROVE  TypeOK'
  <2> DEFINE S == {w \in Children : os[list[idx[t]]][w] = "up"}
             c == Cardinality({w \in S : f[w] \in Registration})
  <2>1. c \in Nat
    BY FS_Subset, FS_CardinalityType
  <2>2. wait' = [wait EXCEPT ![list[idx[t]]] =
                   [w \in OsProcs |-> IF w \in S THEN f[w] ELSE @[w]]]
    BY <1>14 DEF RegisterChildren
  <2>3. wait' \in [Procs -> [OsProcs -> WaitPc]]
    BY <2>2 DEF Registration, WaitPc
  <2>4. cRefs' = [cRefs EXCEPT ![list[idx[t]]] = @ + c]
    BY <1>14 DEF RegisterChildren
  <2>5. cRefs' \in [Procs -> Int]
    <3> HIDE DEF c
    <3> QED
      BY <2>1, <2>4, FieldPlusType
  <2> QED
    BY <1>14, <2>3, <2>5, GotoType DEF RegisterChildren
<1>15. ASSUME NEW t \in Threads, MarkReady(t) PROVE TypeOK'
  <2>1. list[idx[t]] \in Procs
    BY <1>15 DEF MarkReady, StartingSlot, Starting, InStart
  <2>2. ThreadType'
    BY <1>15, <2>1, ReturnType DEF MarkReady, ThreadType
  <2> QED
    BY <1>15, <2>1, <2>2 DEF MarkReady, Reference
<1>16. ASSUME NEW t \in Threads, ReleaseProcess(t) PROVE TypeOK'
  <2>1. held[t] \in Procs
    BY <1>16 DEF ReleaseProcess, HeldByHave
  <2>2. ThreadType'
    BY <1>16, ReturnType DEF ReleaseProcess, ThreadType
  <2> QED
    BY <1>16, <2>1, <2>2, DereferenceType DEF ReleaseProcess
<1>17. ASSUME NEW t \in Threads, ReturnWithout(t) PROVE TypeOK'
  BY <1>17, ReturnType DEF ReturnWithout, ThreadType
<1>18. ASSUME NEW p \in Procs, NEW w \in OsProcs, CallbackStep(p, w) PROVE TypeOK'
  <2>1. CASE WaitFires(p, w)
    BY <2>1, CallbackType DEF WaitFires, ThreadType, WaitPc
  <2>2. CASE CheckServer(p, w)
    BY <2>2, CallbackType DEF CheckServer, ThreadType, WaitPc
  <2>3. CASE TestStopping(p, w)
    BY <2>3, CallbackType DEF TestStopping, ThreadType, WaitPc
  <2>4. CASE SetStopping(p, w)
    BY <2>4, CallbackType DEF SetStopping, ThreadType, WaitPc
  <2>5. CASE LeaveCallback(p, w)
    BY <2>5, CallbackType, DereferenceType DEF LeaveCallback, ThreadType, WaitPc
  <2> QED
    BY <1>18, <2>1, <2>2, <2>3, <2>4, <2>5 DEF CallbackStep
<1>19. ASSUME NEW p \in Procs, NEW w \in OsProcs, ShutdownProcess(p, w) PROVE TypeOK'
  <2>1. SamePort(p) \in SUBSET Procs
    BY DEF SamePort
  <2> QED
    BY <1>19, <2>1, CallbackType, ShutdownProcessNoLockType
       DEF ShutdownProcess, ThreadType, WaitPc
<1>20. ASSUME NEW p \in Procs, NEW w \in OsProcs,
              SpawnChild(p, w) \/ Listen(p, w) \/ ProcessExits(p, w)
       PROVE  TypeOK'
  <2>1. os' \in JobStates
    <3>1. \/ os' = [os EXCEPT ![p][w] = "up"]
          \/ os' = [os EXCEPT ![p][w] = "gone"]
          \/ os' = os
      BY <1>20 DEF SpawnChild, Listen, ProcessExits
    <3>2. [os EXCEPT ![p][w] = "up"] \in JobStates
      BY JobExceptType
    <3>3. [os EXCEPT ![p][w] = "gone"] \in JobStates
      BY JobExceptType
    <3> QED
      BY <3>1, <3>2, <3>3, Zenon
  <2>2. listener' \in [Procs -> OsProcs \cup {Null}]
    BY <1>20 DEF SpawnChild, Listen, ProcessExits
  <2>3. UNCHANGED <<mgrVars, lock, objVars, thrVars, recVars>>
    BY <1>20 DEF SpawnChild, Listen, ProcessExits
  <2> QED
    BY <2>1, <2>2, <2>3 DEF ThreadType
<1>21. ASSUME NEW destroy \in BOOLEAN, StartSignal(destroy) PROVE TypeOK'
  <2>1. appAlive' \in BOOLEAN
    BY <1>21, Zenon DEF StartSignal
  <2> QED
    BY <1>21, <2>1 DEF StartSignal, ThreadType
<1>22. CASE SkipSlot
  BY <1>22 DEF SkipSlot, ThreadType
<1>23. ASSUME SignalObeyed \/ SignalTimesOut PROVE TypeOK'
  <2> DEFINE p == list[cursor]
  <2>1. p \in Procs /\ cursor + 1 \in 0 .. N
    BY <1>23 DEF SignalObeyed, SignalTimesOut, Slots
  <2>2. [os EXCEPT ![p][Main] = "gone"] \in JobStates /\ os \in JobStates
    BY DEF JobStates
  <2>3. wait' \in [Procs -> [OsProcs -> WaitPc]]
    <3>1. Main \in OsProcs /\ wait[p] \in [OsProcs -> WaitPc]
      BY <2>1 DEF OsProcs
    <3>2. Unregister(wait[p]) \in [OsProcs -> WaitPc]
      BY <3>1, UnregisterType
    <3>3. Unregister(wait[p])[Main] \in WaitPc
      BY <3>1, <3>2
    <3>4. \/ wait' = wait
          \/ wait' = [wait EXCEPT ![p][Main] = Unregister(wait[p])[Main]]
      BY <1>23 DEF SignalObeyed, SignalTimesOut
    <3>5. [wait EXCEPT ![p][Main] = Unregister(wait[p])[Main]] \in [Procs -> [OsProcs -> WaitPc]]
      BY <2>1, <3>3, WaitExceptType
    <3> QED
      BY <3>4, <3>5, Zenon
  <2>4. PICK f \in JobStates : DropSignalled(p, f)
    BY <1>23, <2>2 DEF SignalObeyed, SignalTimesOut
  <2>5. /\ Dereference({p}, f) /\ Delist({p}) /\ cursor' = cursor + 1
        /\ UNCHANGED <<listReady, route, rapidFails, lock, fReady, fStopping, port,
                       stops, listener, thrVars, rpc, appAlive>>
    BY <2>4 DEF DropSignalled
  <2> HIDE DEF p
  <2>6. os' \in JobStates /\ cRefs' \in [Procs -> Int] /\ pmRefs' \in Int
        /\ alloc' \in [Procs -> {"unused", "live", "freed"}]
        /\ list' \in [Slots -> Procs \cup {Null}]
    BY <2>1, <2>5, DereferenceType, DelistType
  <2> QED
    BY <2>1, <2>3, <2>5, <2>6 DEF ThreadType
<1>24. CASE EndSignal
  BY <1>24 DEF EndSignal, ThreadType
<1>25. CASE UNCHANGED vars
  BY <1>25 DEF vars, ThreadType
<1> QED
  BY <1>1, <1>2, <1>3, <1>4, <1>5, <1>6, <1>7, <1>8, <1>9, <1>10, <1>11, <1>12, <1>13,
     <1>14, <1>15, <1>16, <1>17, <1>18, <1>19, <1>20, <1>21, <1>22, <1>23, <1>24, <1>25
     DEF Next, LockStep, LocalStep, RecyclerStep

-----------------------------------------------------------------------------
(* The exclusive lock.                                                     *)

LEMMA ExclusionStep == Core /\ [Next]_vars => (LockOwner /\ StartingSlot /\ HeldByHave)'
<1> DEFINE Goal == (LockOwner /\ StartingSlot /\ HeldByHave)'
<1> SUFFICES ASSUME Core, [Next]_vars PROVE Goal OBVIOUS
<1> USE ProcessManagerAssumption
    DEF Core, LockOwner, StartingSlot, HeldByHave, Locked, Starting, InStart, recVars
<1>1. TypeOK /\ list \in [Slots -> Procs \cup {Null}] /\ pc \in [Threads -> ThreadPc]
      /\ idx \in [Threads -> Slots] /\ held \in [Threads -> Procs \cup {Null}]
      /\ lock \in Threads \cup {Recycler, Free}
  BY DEF TypeOK, ManagerType, ThreadType
<1>2. ASSUME NEW t \in Threads,
             \/ EnterGetProcess(t) \/ InitList(t) \/ RecheckSlot(t) \/ RecheckReady(t)
             \/ ReturnWithout(t)
      PROVE  Goal
  BY <1>1, <1>2 DEF EnterGetProcess, InitList, RecheckSlot, RecheckReady, IsReady, ReturnWithout,
     Goto, Return, Continue, Returned, mgrVars
<1>3. ASSUME NEW t \in Threads, SharedLookup(t) PROVE Goal
  <2> DEFINE p == list[(route + 1) % N]
  <2>1. route \in Nat
    BY <1>1 DEF TypeOK, ManagerType, Slots
  <2>2. p \in Procs \cup {Null}
    BY <1>1, <2>1, NextSlotType
  <2>3. UNCHANGED <<list, lock, recVars>> /\ pc[t] = "shared"
    BY <1>3 DEF SharedLookup
  <2>4. \/ /\ p # Null /\ pc' = [pc EXCEPT ![t] = "have"]
           /\ held' = [held EXCEPT ![t] = p] /\ idx' = [idx EXCEPT ![t] = 0]
        \/ /\ pc' = [pc EXCEPT ![t] = "recheck"] /\ held' = held
           /\ idx' = [idx EXCEPT ![t] = (route + 1) % N]
    BY <1>3 DEF SharedLookup, Return
  <2> HIDE DEF p
  <2> QED
    BY <1>1, <2>2, <2>3, <2>4
<1>4. ASSUME NEW t \in Threads, LockExclusive(t) PROVE Goal
  BY <1>1, <1>4 DEF LockExclusive, Return, Goto, mgrVars, ShutdownProcessNoLock, Delist, SamePort
<1>5. ASSUME NEW t \in Threads, NEW b \in BOOLEAN, RapidFailCheck(t, b) PROVE Goal
  BY <1>1, <1>5 DEF RapidFailCheck, Return, Goto, Continue, Returned
<1>6. ASSUME NEW t \in Threads, AllocationFails(t) PROVE Goal
  BY <1>1, <1>6 DEF AllocationFails, Return, mgrVars
<1>7. ASSUME NEW t \in Threads, NEW p \in Procs, CreateServerProcess(t, p) PROVE Goal
  BY <1>1, <1>7 DEF CreateServerProcess, Goto
<1>8. ASSUME NEW t \in Threads, InitializeFails(t) PROVE Goal
  BY <1>1, <1>8 DEF InitializeFails, Return, Delist
<1>9. ASSUME NEW t \in Threads, NEW n \in Ports, StartProcess(t, n) PROVE Goal
  BY <1>1, <1>9 DEF StartProcess, Goto, mgrVars
<1>10. ASSUME NEW t \in Threads, LaunchFails(t) \/ ChildrenFail(t) \/ VerifyFails(t)
       PROVE  Goal
  BY <1>1, <1>10 DEF LaunchFails, ChildrenFail, VerifyFails, StartFails, Return, Delist
<1>11. ASSUME NEW t \in Threads, NEW r \in Registration, PollEnds(t, r) PROVE Goal
  BY <1>1, <1>11 DEF PollEnds, mgrVars
<1>12. ASSUME NEW t \in Threads, NEW f \in [Children -> Registration \cup {"unopened"}],
              RegisterChildren(t, f)
       PROVE  Goal
  BY <1>1, <1>12 DEF RegisterChildren, Goto, mgrVars
<1>13. ASSUME NEW t \in Threads, MarkReady(t) PROVE Goal
  BY <1>1, <1>13 DEF MarkReady, Return, mgrVars
<1>14. ASSUME NEW t \in Threads, ReleaseProcess(t) PROVE Goal
  BY <1>1, <1>14 DEF ReleaseProcess, Return
<1>15. ASSUME NEW p \in Procs, NEW w \in OsProcs,
              \/ CallbackStep(p, w)
              \/ SpawnChild(p, w) \/ Listen(p, w) \/ ProcessExits(p, w)
       PROVE  Goal
  <2>1. UNCHANGED <<list, lock, thrVars, recVars>>
    BY <1>15 DEF CallbackStep, WaitFires, CheckServer, TestStopping, SetStopping,
       LeaveCallback, SpawnChild, Listen, ProcessExits, mgrVars
  <2> QED
    BY <2>1, <1>1 DEF thrVars
<1>16. ASSUME NEW p \in Procs, NEW w \in OsProcs, ShutdownProcess(p, w) PROVE Goal
  BY <1>1, <1>16 DEF ShutdownProcess, thrVars
<1>17. ASSUME NEW destroy \in BOOLEAN, StartSignal(destroy) PROVE Goal
  BY <1>1, <1>17 DEF StartSignal, mgrVars, thrVars
<1>18. ASSUME SkipSlot \/ UNCHANGED vars PROVE Goal
  BY <1>1, <1>18 DEF SkipSlot, vars, mgrVars, thrVars
<1>19. ASSUME SignalObeyed \/ SignalTimesOut PROVE Goal
  BY <1>1, <1>19 DEF SignalObeyed, SignalTimesOut, DropSignalled, thrVars
<1>20. ASSUME EndSignal PROVE Goal
  BY <1>1, <1>20 DEF EndSignal, thrVars
<1> QED
  BY <1>2, <1>3, <1>4, <1>5, <1>6, <1>7, <1>8, <1>9, <1>10, <1>11, <1>12, <1>13, <1>14,
     <1>15, <1>16, <1>17, <1>18, <1>19, <1>20
     DEF Next, LockStep, LocalStep, RecyclerStep

LEMMA CoreStep == Core /\ [Next]_vars => Core'
BY TypeStep, ExclusionStep DEF Core

LEMMA CoreInit == Init => Core
<1>1. 0 \in Slots /\ Main \in OsProcs
  BY ProcessManagerAssumption DEF Slots, OsProcs
<1> SUFFICES ASSUME Init PROVE Core OBVIOUS
<1>2. ManagerType
  <2>1. rapidFails = 0 /\ pmRefs = 1 /\ listReady = FALSE /\ route = 0
    BY Zenon DEF Init
  <2>2. list = [i \in Slots |-> Null]
    BY Zenon DEF Init
  <2>3. list \in [Slots -> Procs \cup {Null}]
    BY <2>2
  <2>4. listReady \in BOOLEAN
    BY <2>1
  <2>5. rapidFails \in Nat /\ pmRefs \in Int /\ route \in Slots
    BY <1>1, <2>1
  <2> QED
    BY <2>3, <2>4, <2>5, Zenon DEF ManagerType
<1>3. ObjectType
  BY DEF Init, ObjectType, WaitPc
<1>4. OsType
  BY DEF Init, OsType, JobStates
<1>5. ThreadType
  BY <1>1 DEF Init, ThreadType, ThreadPc
<1>6. RecyclerType /\ lock \in Threads \cup {Recycler, Free}
  BY ProcessManagerAssumption DEF Init, RecyclerType
<1>7. LockOwner /\ StartingSlot /\ HeldByHave
  BY ProcessManagerAssumption
     DEF Init, LockOwner, StartingSlot, HeldByHave, Locked, Starting, InStart
<1> QED
  BY <1>2, <1>3, <1>4, <1>5, <1>6, <1>7 DEF Core, TypeOK

\* Every variable keeps its type, and every look-up stays within the list.
THEOREM TypeCorrect == Spec => []TypeOK
<1>1. Core => TypeOK
  BY DEF Core
<1> QED
  BY <1>1, CoreInit, CoreStep, PTL DEF Spec

-----------------------------------------------------------------------------
(* The process list.                                                       *)

\* An entry is ready unless the thread that holds the lock still starts it.
ListedOrStarting ==
    \A i \in Slots : list[i] # Null =>
        \/ fReady[list[i]]
        \/ \E t \in Threads : pc[t] \in Starting /\ idx[t] = i

LEMMA ListedOrStartingStep ==
    Core /\ ListedOrStarting /\ [Next]_vars => ListedOrStarting'
<1> SUFFICES ASSUME Core, ListedOrStarting, [Next]_vars PROVE ListedOrStarting' OBVIOUS
<1> USE ProcessManagerAssumption
    DEF Core, LockOwner, StartingSlot, Locked, Starting, InStart
<1>1. /\ list \in [Slots -> Procs \cup {Null}] /\ pc \in [Threads -> ThreadPc]
      /\ idx \in [Threads -> Slots] /\ fReady \in [Procs -> BOOLEAN]
      /\ lock \in Threads \cup {Recycler, Free} /\ route \in Nat
  BY DEF TypeOK, ManagerType, ThreadType, ObjectType, Slots
<1>2. ASSUME NEW t \in Threads,
             \/ EnterGetProcess(t) \/ InitList(t) \/ RecheckSlot(t) \/ RecheckReady(t)
             \/ ReturnWithout(t) \/ ReleaseProcess(t) \/ AllocationFails(t)
      PROVE  ListedOrStarting'
  BY <1>1, <1>2 DEF EnterGetProcess, InitList, RecheckSlot, RecheckReady, IsReady, ReturnWithout,
     AllocationFails, ReleaseProcess, Goto, Return, Continue, Returned, mgrVars, objVars,
     ListedOrStarting
<1>3. ASSUME NEW t \in Threads, SharedLookup(t) PROVE ListedOrStarting'
  <2>1. /\ UNCHANGED <<list, fReady>> /\ pc[t] = "shared"
        /\ \/ pc' = [pc EXCEPT ![t] = "have"] /\ idx' = [idx EXCEPT ![t] = 0]
           \/ pc' = [pc EXCEPT ![t] = "recheck"] /\ idx' = [idx EXCEPT ![t] = (route + 1) % N]
    BY <1>3 DEF SharedLookup, Return
  <2> QED
    BY <1>1, <2>1 DEF ListedOrStarting
<1>4. ASSUME NEW t \in Threads, LockExclusive(t) PROVE ListedOrStarting'
  BY <1>1, <1>4 DEF LockExclusive, Return, Goto, mgrVars, ShutdownProcessNoLock, StopProcess,
     Delist, SamePort, ListedOrStarting
<1>5. ASSUME NEW t \in Threads, NEW b \in BOOLEAN, RapidFailCheck(t, b) PROVE ListedOrStarting'
  BY <1>1, <1>5 DEF RapidFailCheck, Return, Goto, Continue, Returned, objVars, ListedOrStarting
<1>6. ASSUME NEW t \in Threads, NEW p \in Procs, CreateServerProcess(t, p)
      PROVE  ListedOrStarting'
  BY <1>1, <1>6 DEF CreateServerProcess, Goto, ListedOrStarting
<1>7. ASSUME NEW t \in Threads, InitializeFails(t) PROVE ListedOrStarting'
  BY <1>1, <1>7 DEF InitializeFails, Return, Delist, ListedOrStarting
<1>8. ASSUME NEW t \in Threads, NEW n \in Ports, StartProcess(t, n) PROVE ListedOrStarting'
  BY <1>1, <1>8 DEF StartProcess, Goto, mgrVars, ListedOrStarting
<1>9. ASSUME NEW t \in Threads, LaunchFails(t) \/ ChildrenFail(t) \/ VerifyFails(t)
      PROVE  ListedOrStarting'
  BY <1>1, <1>9 DEF LaunchFails, ChildrenFail, VerifyFails, StartFails, StopProcess, Return,
     Delist, ListedOrStarting
<1>10. ASSUME NEW t \in Threads, NEW r \in Registration, PollEnds(t, r)
       PROVE  ListedOrStarting'
  BY <1>1, <1>10 DEF PollEnds, mgrVars, ListedOrStarting
<1>11. ASSUME NEW t \in Threads, NEW f \in [Children -> Registration \cup {"unopened"}],
              RegisterChildren(t, f)
       PROVE  ListedOrStarting'
  BY <1>1, <1>11 DEF RegisterChildren, Goto, mgrVars, ListedOrStarting
<1>12. ASSUME NEW t \in Threads, MarkReady(t) PROVE ListedOrStarting'
  BY <1>1, <1>12 DEF MarkReady, Return, mgrVars, ListedOrStarting
<1>13. ASSUME NEW p \in Procs, NEW w \in OsProcs,
              \/ CallbackStep(p, w)
              \/ SpawnChild(p, w) \/ Listen(p, w) \/ ProcessExits(p, w)
       PROVE  ListedOrStarting'
  <2>1. UNCHANGED <<list, fReady, thrVars>>
    BY <1>13 DEF CallbackStep, WaitFires, CheckServer, TestStopping, SetStopping,
       LeaveCallback, SpawnChild, Listen, ProcessExits, mgrVars, objVars
  <2> QED
    BY <2>1 DEF thrVars, ListedOrStarting
<1>14. ASSUME NEW p \in Procs, NEW w \in OsProcs, ShutdownProcess(p, w)
       PROVE  ListedOrStarting'
  BY <1>1, <1>14 DEF ShutdownProcess, ShutdownProcessNoLock, StopProcess, Delist, thrVars,
     ListedOrStarting
<1>15. ASSUME NEW destroy \in BOOLEAN, StartSignal(destroy) PROVE ListedOrStarting'
  BY <1>1, <1>15 DEF StartSignal, mgrVars, objVars, thrVars, ListedOrStarting
<1>16. ASSUME SkipSlot \/ EndSignal \/ UNCHANGED vars PROVE ListedOrStarting'
  BY <1>1, <1>16 DEF SkipSlot, EndSignal, vars, mgrVars, objVars, thrVars, ListedOrStarting
<1>17. ASSUME SignalObeyed \/ SignalTimesOut PROVE ListedOrStarting'
  BY <1>1, <1>17 DEF SignalObeyed, SignalTimesOut, DropSignalled, Delist, thrVars,
     ListedOrStarting
<1> QED
  BY <1>2, <1>3, <1>4, <1>5, <1>6, <1>7, <1>8, <1>9, <1>10, <1>11, <1>12, <1>13, <1>14,
     <1>15, <1>16, <1>17
     DEF Next, LockStep, LocalStep, RecyclerStep

\* Whenever m_srwLock is free, every entry of the process list is ready, so
\* the clean-up of processmanager.cxx:174-182 has nothing to do.
THEOREM ListedIsReadyTheorem == Spec => []ListedIsReady
<1>1. Init => ListedOrStarting
  BY DEF Init, ListedOrStarting
<1>2. Core /\ ListedOrStarting => ListedIsReady
  BY ProcessManagerAssumption
     DEF Core, LockOwner, Locked, ListedOrStarting, ListedIsReady, Listed
<1> QED
  BY <1>1, <1>2, CoreInit, CoreStep, ListedOrStartingStep, PTL DEF Spec

-----------------------------------------------------------------------------
(* One stop per object.                                                    *)

\* StopProcess is only called on entries of the list and takes them off it.
ListedIsUnstopped ==
    \A p \in Procs :
        /\ stops[p] <= 1
        /\ Listed(p) => stops[p] = 0
        /\ alloc[p] = "unused" => stops[p] = 0 /\ ~Listed(p)

LEMMA ListedIsUnstoppedStep ==
    Core /\ ListedIsUnstopped /\ [Next]_vars => ListedIsUnstopped'
<1> SUFFICES ASSUME Core, ListedIsUnstopped, [Next]_vars PROVE ListedIsUnstopped' OBVIOUS
<1> USE ProcessManagerAssumption DEF Core, Listed
<1>1. /\ list \in [Slots -> Procs \cup {Null}] /\ stops \in [Procs -> Nat]
      /\ alloc \in [Procs -> {"unused", "live", "freed"}]
      /\ idx \in [Threads -> Slots]
  BY DEF TypeOK, ManagerType, ThreadType, ObjectType
<1>2. ASSUME NEW S \in SUBSET Procs, \A q \in S : Listed(q),
             ShutdownProcessNoLock(S)
      PROVE  ListedIsUnstopped'
  BY <1>1, <1>2 DEF ShutdownProcessNoLock, StopProcess, Dereference, Delist,
     ListedIsUnstopped
<1>3. ASSUME NEW S, NEW T, NEW f, Dereference(S, f), Delist(T) \/ list' = list, stops' = stops
      PROVE  ListedIsUnstopped'
  BY <1>1, <1>3 DEF Dereference, Delist, ListedIsUnstopped
<1>4. ASSUME UNCHANGED <<list, alloc, stops>> PROVE ListedIsUnstopped'
  BY <1>4 DEF ListedIsUnstopped
<1>5. ASSUME NEW t \in Threads,
             \/ EnterGetProcess(t) \/ InitList(t) \/ SharedLookup(t) \/ RecheckSlot(t)
             \/ RecheckReady(t) \/ (\E b \in BOOLEAN : RapidFailCheck(t, b))
             \/ AllocationFails(t) \/ (\E n \in Ports : StartProcess(t, n))
             \/ (\E r \in Registration : PollEnds(t, r))
             \/ (\E f \in [Children -> Registration \cup {"unopened"}] : RegisterChildren(t, f))
             \/ MarkReady(t) \/ ReturnWithout(t)
      PROVE  ListedIsUnstopped'
  <2>1. UNCHANGED <<list, alloc, stops>>
    BY <1>5 DEF EnterGetProcess, InitList, SharedLookup, RecheckSlot, RecheckReady, IsReady,
       RapidFailCheck, AllocationFails, StartProcess, PollEnds, RegisterChildren,
       MarkReady, ReturnWithout, mgrVars, objVars
  <2> QED
    BY <1>4, <2>1
<1>6. ASSUME NEW t \in Threads, LockExclusive(t) PROVE ListedIsUnstopped'
  <2> DEFINE p == list[idx[t]]
  <2>1. CASE p # Null /\ fReady[p]
    BY <1>4, <1>6, <2>1 DEF LockExclusive, mgrVars
  <2>2. CASE ~(p # Null /\ fReady[p])
    <3> DEFINE S == IF p = Null THEN {} ELSE SamePort(p)
    <3>1. S \in SUBSET Procs /\ \A q \in S : Listed(q)
      BY DEF SamePort
    <3>2. ShutdownProcessNoLock(S)
      BY <1>6, <2>2 DEF LockExclusive
    <3> HIDE DEF S
    <3> QED
      BY <1>2, <3>1, <3>2
  <2> QED
    BY <2>1, <2>2
<1>7. ASSUME NEW t \in Threads, NEW p \in Procs, CreateServerProcess(t, p)
      PROVE  ListedIsUnstopped'
  BY <1>1, <1>7 DEF CreateServerProcess, ListedIsUnstopped
<1>8. ASSUME NEW t \in Threads, InitializeFails(t) PROVE ListedIsUnstopped'
  BY <1>3, <1>8 DEF InitializeFails
<1>9. ASSUME NEW t \in Threads, LaunchFails(t) \/ ChildrenFail(t) \/ VerifyFails(t)
      PROVE  ListedIsUnstopped'
  <2> DEFINE p == list[idx[t]]
  <2>1. p \in Procs /\ Listed(p)
    BY <1>1, <1>9 DEF LaunchFails, ChildrenFail, VerifyFails, StartingSlot, Starting, InStart
  <2>2. StopProcess({p}) /\ Dereference({p}, [os EXCEPT ![p] = Killed(@)]) /\ Delist({p})
    BY <1>9 DEF LaunchFails, ChildrenFail, VerifyFails, StartFails
  <2> HIDE DEF p
  <2> QED
    BY <1>1, <2>1, <2>2 DEF StopProcess, Dereference, Delist, ListedIsUnstopped
<1>10. ASSUME NEW t \in Threads, ReleaseProcess(t) PROVE ListedIsUnstopped'
  BY <1>3, <1>10 DEF ReleaseProcess
<1>11. ASSUME NEW p \in Procs, NEW w \in OsProcs, LeaveCallback(p, w)
       PROVE  ListedIsUnstopped'
  BY <1>3, <1>11 DEF LeaveCallback
<1>12. ASSUME NEW p \in Procs, NEW w \in OsProcs,
              \/ WaitFires(p, w) \/ CheckServer(p, w) \/ TestStopping(p, w)
              \/ SetStopping(p, w) \/ SpawnChild(p, w) \/ Listen(p, w)
              \/ ProcessExits(p, w)
       PROVE  ListedIsUnstopped'
  BY <1>4, <1>12 DEF WaitFires, CheckServer, TestStopping, SetStopping, SpawnChild, Listen,
     ProcessExits, mgrVars, objVars
<1>13. ASSUME NEW p \in Procs, NEW w \in OsProcs, ShutdownProcess(p, w)
       PROVE  ListedIsUnstopped'
  <2>1. SamePort(p) \in SUBSET Procs /\ \A q \in SamePort(p) : Listed(q)
    BY DEF SamePort
  <2> QED
    BY <1>2, <1>13, <2>1 DEF ShutdownProcess
<1>14. ASSUME (\E destroy \in BOOLEAN : StartSignal(destroy)) \/ SkipSlot \/ EndSignal
              \/ UNCHANGED vars
       PROVE  ListedIsUnstopped'
  BY <1>4, <1>14 DEF StartSignal, SkipSlot, EndSignal, vars, mgrVars, objVars
<1>15. ASSUME SignalObeyed \/ SignalTimesOut PROVE ListedIsUnstopped'
  BY <1>3, <1>15 DEF SignalObeyed, SignalTimesOut, DropSignalled
<1> QED
  BY <1>5, <1>6, <1>7, <1>8, <1>9, <1>10, <1>11, <1>12, <1>13, <1>14, <1>15
     DEF Next, LockStep, LocalStep, CallbackStep, RecyclerStep

LEMMA ListedIsUnstoppedInit == Init => ListedIsUnstopped
<1> SUFFICES ASSUME Init PROVE ListedIsUnstopped OBVIOUS
<1>1. /\ list = [i \in Slots |-> Null] /\ stops = [p \in Procs |-> 0]
  BY Zenon DEF Init
<1> QED
  BY <1>1, ProcessManagerAssumption DEF ListedIsUnstopped, Listed

\* However many waits fire for one backend, it is stopped once, and counts
\* once towards rapidFailsPerMinute.
THEOREM StoppedOnceTheorem == Spec => []StoppedOnce
<1>1. ListedIsUnstopped => StoppedOnce
  BY DEF ListedIsUnstopped, StoppedOnce
<1> QED
  BY <1>1, CoreInit, CoreStep, ListedIsUnstoppedInit, ListedIsUnstoppedStep, PTL DEF Spec

-----------------------------------------------------------------------------
(* No backend runs outside the list.                                       *)

\* A backend that is about to be launched does not run yet.
LaunchIsFirst ==
    \A t \in Threads : pc[t] = "start" => os[list[idx[t]]][Main] # "up"

Running == RunningIsListed /\ LaunchIsFirst

LEMMA RunningStep ==
    Core /\ ListedIsUnstopped /\ Running /\ [Next]_vars => Running'
<1> SUFFICES ASSUME Core, ListedIsUnstopped, Running, [Next]_vars PROVE Running' OBVIOUS
<1> USE ProcessManagerAssumption DEF Core, Listed, RunningIsListed, LaunchIsFirst
<1>1. /\ list \in [Slots -> Procs \cup {Null}] /\ os \in JobStates /\ Main \in OsProcs
      /\ idx \in [Threads -> Slots] /\ pc \in [Threads -> ThreadPc] /\ route \in Nat
      /\ alloc \in [Procs -> {"unused", "live", "freed"}]
  BY DEF TypeOK, ManagerType, ThreadType, ObjectType, OsType, OsProcs, Slots
<1>2. ASSUME NEW S \in SUBSET Procs, NEW f \in JobStates, Dereference(S, f)
      PROVE  \A p \in Procs : os'[p][Main] = "up" => f[p][Main] = "up"
  BY <1>1, <1>2 DEF Dereference, Killed
\* Entries whose backend does not run may be dropped when nobody is launching.
<1>3. ASSUME NEW S \in SUBSET Procs, NEW f \in JobStates, Dereference(S, f), Delist(S),
             \A p \in Procs : f[p][Main] = "up" => os[p][Main] = "up" /\ p \notin S,
             \A t \in Threads : pc'[t] # "start"
      PROVE  Running'
  <2>1. \A p \in Procs : os'[p][Main] = "up" => os[p][Main] = "up" /\ p \notin S
    BY <1>2, <1>3
  <2>2. RunningIsListed'
    BY <1>1, <1>3, <2>1 DEF Running, Delist
  <2> QED
    BY <1>3, <2>2 DEF Running
<1>4. ASSUME \A t \in Threads : pc'[t] # "start" PROVE LaunchIsFirst'
  BY <1>4
<1>5. ASSUME NEW t \in Threads,
             \/ EnterGetProcess(t) \/ InitList(t) \/ SharedLookup(t) \/ RecheckSlot(t)
             \/ RecheckReady(t) \/ (\E b \in BOOLEAN : RapidFailCheck(t, b))
             \/ AllocationFails(t) \/ (\E r \in Registration : PollEnds(t, r))
             \/ (\E f \in [Children -> Registration \cup {"unopened"}] : RegisterChildren(t, f))
             \/ MarkReady(t) \/ ReturnWithout(t)
      PROVE  Running'
  <2>1. UNCHANGED <<list, os>>
    BY <1>5 DEF EnterGetProcess, InitList, SharedLookup, RecheckSlot, RecheckReady, IsReady,
       RapidFailCheck, AllocationFails, PollEnds, RegisterChildren, MarkReady,
       ReturnWithout, mgrVars, osVars
  <2>2. \A u \in Threads : pc'[u] = "start" => pc[u] = "start" /\ idx'[u] = idx[u]
    <3>1. /\ \A u \in Threads \ {t} : pc'[u] = pc[u] /\ idx'[u] = idx[u]
          /\ pc'[t] # "start"
      <4>1. CASE RecheckReady(t)
        BY <1>1, <4>1 DEF RecheckReady, IsReady, Goto, Return, Continue, Returned
      <4>2. CASE ~RecheckReady(t)
        BY <1>1, <1>5, <4>2 DEF EnterGetProcess, InitList, SharedLookup, RecheckSlot,
           RapidFailCheck, AllocationFails, PollEnds, RegisterChildren, MarkReady,
           ReturnWithout, Goto, Return, Continue, Returned
      <4> QED
        BY <4>1, <4>2
    <3> QED
      BY <3>1
  <2> QED
    BY <2>1, <2>2 DEF Running
<1>6. ASSUME NEW t \in Threads, LockExclusive(t) PROVE Running'
  <2> DEFINE p == list[idx[t]]
  <2>1. \A u \in Threads : pc'[u] # "start"
    BY <1>1, <1>6 DEF LockExclusive, Goto, Return, LockOwner, Locked, Starting
  <2>2. CASE p # Null /\ fReady[p]
    BY <1>4, <1>6, <2>1, <2>2 DEF LockExclusive, mgrVars, Running
  <2>3. CASE ~(p # Null /\ fReady[p])
    <3> DEFINE S == IF p = Null THEN {} ELSE SamePort(p)
    <3>1. S \in SUBSET Procs
      BY DEF SamePort
    <3>2. ShutdownProcessNoLock(S)
      BY <1>6, <2>3 DEF LockExclusive
    <3>3. Terminated(S) \in JobStates
      BY <1>1, <3>1, TerminatedType DEF OsType, TypeOK
    <3> HIDE DEF S
    <3>4. \A q \in Procs : Terminated(S)[q][Main] = "up" => os[q][Main] = "up" /\ q \notin S
      BY <1>1 DEF Terminated
    <3> QED
      BY <1>3, <2>1, <3>1, <3>2, <3>3, <3>4 DEF ShutdownProcessNoLock
  <2> QED
    BY <2>2, <2>3
<1>7. ASSUME NEW t \in Threads, NEW p \in Procs, CreateServerProcess(t, p) PROVE Running'
  <2>1. /\ os' = os /\ list' = [list EXCEPT ![idx[t]] = p] /\ list[idx[t]] = Null
        /\ pc' = [pc EXCEPT ![t] = "start"] /\ idx' = idx /\ pc[t] = "create"
    BY <1>7 DEF CreateServerProcess, osVars, Goto, StartingSlot
  <2>2. os[p][Main] # "up"
    BY <1>7 DEF CreateServerProcess, ListedIsUnstopped, Running
  <2>3. \A u \in Threads \ {t} : pc[u] # "start"
    BY <2>1 DEF LockOwner, Locked, Starting
  <2> QED
    BY <1>1, <2>1, <2>2, <2>3 DEF Running
<1>8. ASSUME NEW t \in Threads, InitializeFails(t) PROVE Running'
  <2> DEFINE p == list[idx[t]]
  <2>1. p \in Procs /\ os[p][Main] # "up" /\ \A u \in Threads : pc'[u] # "start"
    BY <1>1, <1>8 DEF InitializeFails, Return, StartingSlot, LockOwner, Locked, Starting, Running
  <2>2. Dereference({p}, os) /\ Delist({p})
    BY <1>8 DEF InitializeFails
  <2> HIDE DEF p
  <2> QED
    BY <1>1, <1>3, <2>1, <2>2
<1>9. ASSUME NEW t \in Threads, NEW n \in Ports, StartProcess(t, n) PROVE Running'
  <2>1. /\ os' = [os EXCEPT ![list[idx[t]]][Main] = "up"] /\ list' = list /\ pc[t] = "start"
        /\ pc' = [pc EXCEPT ![t] = "polling"]
    BY <1>9 DEF StartProcess, Goto, mgrVars
  <2>2. \A u \in Threads : pc'[u] # "start"
    BY <1>1, <2>1 DEF LockOwner, Locked, Starting
  <2>3. \A p \in Procs : os'[p][Main] = "up" => os[p][Main] = "up" \/ p = list[idx[t]]
    BY <1>1, <2>1 DEF JobStates
  <2> QED
    BY <1>1, <1>4, <2>1, <2>2, <2>3 DEF Running
<1>10. ASSUME NEW t \in Threads, LaunchFails(t) \/ ChildrenFail(t) \/ VerifyFails(t)
       PROVE  Running'
  <2> DEFINE p == list[idx[t]]
             f == [os EXCEPT ![p] = Killed(@)]
  <2>1. p \in Procs /\ pc[t] \in Starting
    BY <1>10 DEF LaunchFails, ChildrenFail, VerifyFails, StartingSlot, Starting, InStart
  <2>2. Delist({p}) /\ Dereference({p}, f) /\ pc' = [pc EXCEPT ![t] = "failed"]
    BY <1>10 DEF LaunchFails, ChildrenFail, VerifyFails, StartFails, Return
  <2>3. f \in JobStates
    BY <1>1, <2>1, KilledType DEF JobStates
  <2>4. \A q \in Procs : f[q][Main] = "up" => os[q][Main] = "up" /\ q # p
    BY <1>1, <2>1 DEF JobStates, Killed
  <2>5. \A u \in Threads : pc'[u] # "start"
    BY <1>1, <2>1, <2>2 DEF LockOwner, Locked, Starting
  <2> HIDE DEF p, f
  <2> QED
    BY <1>3, <2>1, <2>2, <2>3, <2>4, <2>5
<1>11. ASSUME NEW t \in Threads, ReleaseProcess(t) PROVE Running'
  <2>1. /\ held[t] \in Procs /\ Dereference({held[t]}, os) /\ list' = list
        /\ pc' = [pc EXCEPT ![t] = "idle"] /\ idx' = [idx EXCEPT ![t] = 0]
    BY <1>11 DEF ReleaseProcess, Return, HeldByHave
  <2>2. \A p \in Procs : os'[p][Main] = "up" => os[p][Main] = "up"
    BY <1>1, <1>2, <2>1
  <2> QED
    BY <1>1, <2>1, <2>2 DEF Running, StartingSlot, Starting
<1>12. ASSUME NEW p \in Procs, NEW w \in OsProcs, LeaveCallback(p, w) PROVE Running'
  <2>1. Dereference({p}, os) /\ list' = list /\ UNCHANGED <<pc, idx>>
    BY <1>12 DEF LeaveCallback, thrVars
  <2>2. \A q \in Procs : os'[q][Main] = "up" => os[q][Main] = "up"
    BY <1>1, <1>2, <2>1
  <2> QED
    BY <1>1, <2>1, <2>2 DEF Running, StartingSlot, Starting
<1>13. ASSUME NEW p \in Procs, NEW w \in OsProcs,
              \/ WaitFires(p, w) \/ CheckServer(p, w) \/ TestStopping(p, w)
              \/ SetStopping(p, w) \/ SpawnChild(p, w) \/ Listen(p, w)
              \/ ProcessExits(p, w)
       PROVE  Running'
  <2>1. UNCHANGED <<list, pc, idx>>
    BY <1>13 DEF WaitFires, CheckServer, TestStopping, SetStopping, SpawnChild, Listen,
       ProcessExits, mgrVars, thrVars
  <2>2. \A q \in Procs : os'[q][Main] = "up" => os[q][Main] = "up"
    <3>1. \/ os' = os
          \/ w # Main /\ os' = [os EXCEPT ![p][w] = "up"]
          \/ os' = [os EXCEPT ![p][w] = "gone"]
      BY <1>13 DEF WaitFires, CheckServer, TestStopping, SetStopping, SpawnChild, Listen,
         ProcessExits, osVars
    <3> QED
      BY <1>1, <3>1 DEF JobStates
  <2> QED
    BY <1>1, <2>1, <2>2 DEF Running, StartingSlot, Starting
<1>14. ASSUME NEW p \in Procs, NEW w \in OsProcs, ShutdownProcess(p, w) PROVE Running'
  <2>1. SamePort(p) \in SUBSET Procs
    BY DEF SamePort
  <2>2. ShutdownProcessNoLock(SamePort(p)) /\ UNCHANGED <<pc, idx>> /\ lock = Free
    BY <1>14 DEF ShutdownProcess, thrVars
  <2>3. Terminated(SamePort(p)) \in JobStates
    BY <1>1, <2>1, TerminatedType DEF OsType, TypeOK
  <2>4. \A q \in Procs : Terminated(SamePort(p))[q][Main] = "up"
                          => os[q][Main] = "up" /\ q \notin SamePort(p)
    BY <1>1 DEF Terminated
  <2>5. \A u \in Threads : pc'[u] # "start"
    BY <2>2 DEF LockOwner, Locked, Starting
  <2> QED
    BY <1>3, <2>1, <2>2, <2>3, <2>4, <2>5 DEF ShutdownProcessNoLock
<1>15. ASSUME (\E destroy \in BOOLEAN : StartSignal(destroy)) \/ SkipSlot \/ EndSignal
              \/ UNCHANGED vars
       PROVE  Running'
  <2>1. UNCHANGED <<list, os, pc, idx>>
    BY <1>15 DEF StartSignal, SkipSlot, EndSignal, vars, mgrVars, osVars, thrVars
  <2> QED
    BY <2>1 DEF Running
<1>16. ASSUME SignalObeyed \/ SignalTimesOut PROVE Running'
  <2> DEFINE p == list[cursor]
  <2>1. p \in Procs /\ lock = Recycler
    BY <1>1, <1>16 DEF SignalObeyed, SignalTimesOut, LockOwner, TypeOK, RecyclerType, Slots
  <2>2. PICK f \in JobStates : /\ DropSignalled(p, f)
                               /\ \A q \in Procs : f[q][Main] = "up" => os[q][Main] = "up" /\ q # p
    <3>1. CASE SignalObeyed
      BY <1>1, <3>1 DEF SignalObeyed
    <3>2. CASE SignalTimesOut
      <4> DEFINE f == [os EXCEPT ![p][Main] = "gone"]
      <4>1. f \in JobStates
        BY <1>1, <2>1, JobExceptType
      <4>2. \A q \in Procs : f[q][Main] = "up" => os[q][Main] = "up" /\ q # p
        BY <1>1, <2>1 DEF JobStates
      <4>3. DropSignalled(p, f)
        BY <3>2 DEF SignalTimesOut
      <4> QED
        BY <4>1, <4>2, <4>3
    <3> QED
      BY <1>16, <3>1, <3>2
  <2>3. Dereference({p}, f) /\ Delist({p}) /\ UNCHANGED <<pc, idx>>
    BY <2>2 DEF DropSignalled, thrVars
  <2>4. \A u \in Threads : pc'[u] # "start"
    BY <2>1, <2>3 DEF LockOwner, Locked, Starting
  <2> HIDE DEF p
  <2> QED
    BY <1>3, <2>1, <2>2, <2>3, <2>4
<1> QED
  BY <1>5, <1>6, <1>7, <1>8, <1>9, <1>10, <1>11, <1>12, <1>13, <1>14, <1>15, <1>16
     DEF Next, LockStep, LocalStep, CallbackStep, RecyclerStep

LEMMA RunningInit == Init => Running
<1> SUFFICES ASSUME Init PROVE Running OBVIOUS
<1>1. /\ os = [p \in Procs |-> [w \in OsProcs |-> "none"]] /\ pc = [t \in Threads |-> "idle"]
  BY Zenon DEF Init
<1> QED
  BY <1>1 DEF Running, RunningIsListed, LaunchIsFirst, OsProcs

\* A backend that runs is in the process list: neither a failed start, nor an
\* exit callback, nor a recycle leaves one behind.
THEOREM RunningIsListedTheorem == Spec => []RunningIsListed
<1>1. Running => RunningIsListed
  BY DEF Running
<1> QED
  BY <1>1, CoreInit, CoreStep, ListedIsUnstoppedInit, ListedIsUnstoppedStep,
     RunningInit, RunningStep, PTL DEF Spec

-----------------------------------------------------------------------------
(* The users of a SERVER_PROCESS.                                          *)

Entry(p)   == IF Listed(p) THEN 1 ELSE 0
Holders(p) == {t \in Threads : held[t] = p}
Waits(p)   == {w \in OsProcs : wait[p][w] \in Counted}
Users(p)   == Entry(p) + Cardinality(Holders(p)) + Cardinality(Waits(p))

\* An object is live as long as it has users, and counts them.
Exact ==
    \A p \in Procs :
        /\ IsFiniteSet(Holders(p))
        /\ alloc[p] = "live" => cRefs[p] = Users(p) /\ Users(p) > 0
        /\ alloc[p] # "live" => Users(p) = 0

\* An object is in one slot at most.
OneSlot == \A i, j \in Slots : list[i] = list[j] /\ list[i] # Null => i = j

\* Only a request that is past GetProcess holds a process, and the waits that
\* a start is about to register are not registered yet.
Fresh ==
    /\ \A t \in Threads : pc[t] # "have" => held[t] = Null
    /\ \A p \in Procs, w \in OsProcs : alloc[p] = "unused" => wait[p][w] = "none"
    /\ \A t \in Threads : pc[t] \in {"start", "polling"} =>
          \A w \in OsProcs : wait[list[idx[t]]][w] = "none"
    /\ \A t \in Threads : pc[t] = "children" =>
          \A w \in Children : wait[list[idx[t]]][w] = "none"

LEMMA WaitsFinite ==
    ASSUME NEW p \in Procs
    PROVE  IsFiniteSet(Waits(p)) /\ Cardinality(Waits(p)) \in Nat
<1>1. IsFiniteSet(OsProcs)
  BY ProcessManagerAssumption, FS_AddElement DEF OsProcs
<1> QED
  BY <1>1, FS_Subset, FS_CardinalityType DEF Waits

LEMMA WaitsFiniteNext ==
    ASSUME NEW p \in Procs
    PROVE  IsFiniteSet(Waits(p)') /\ Cardinality(Waits(p)') \in Nat
<1>1. IsFiniteSet(OsProcs)
  BY ProcessManagerAssumption, FS_AddElement DEF OsProcs
<1> QED
  BY <1>1, FS_Subset, FS_CardinalityType DEF Waits

\* Nothing uses an object that has no users.
LEMMA NoUsers ==
    ASSUME NEW p \in Procs, IsFiniteSet(Holders(p))
    PROVE  /\ Users(p) \in Nat
           /\ Users(p) = 0 <=> ~Listed(p) /\ Holders(p) = {} /\ Waits(p) = {}
<1>1. Cardinality(Holders(p)) \in Nat /\ Cardinality(Waits(p)) \in Nat
  BY WaitsFinite, FS_CardinalityType
<1>2. Cardinality(Holders(p)) = 0 <=> Holders(p) = {}
  BY FS_EmptySet
<1>3. Cardinality(Waits(p)) = 0 <=> Waits(p) = {}
  BY WaitsFinite, FS_EmptySet
<1> QED
  BY <1>1, <1>2, <1>3 DEF Users, Entry

-----------------------------------------------------------------------------
(* How a step changes the users of an object.                              *)

\* The users stay, and so do the counts.
LEMMA KeepUsers ==
    ASSUME Exact, UNCHANGED <<cRefs, alloc>>, held' = held,
           \A p \in Procs : Entry(p)' = Entry(p) /\ Waits(p)' = Waits(p)
    PROVE  Exact'
<1>1. \A p \in Procs : Holders(p)' = Holders(p)
  BY DEF Holders
<1> QED
  BY <1>1 DEF Exact, Users

\* DereferenceServerProcess by one user of each object of S.
LEMMA LoseUsers ==
    ASSUME Exact, cRefs \in [Procs -> Int], alloc \in [Procs -> {"unused", "live", "freed"}],
           NEW S \in SUBSET Procs, NEW f, Dereference(S, f),
           \A p \in Procs : IsFiniteSet(Holders(p))',
           \A p \in S : Users(p) > 0 /\ Users(p)' = Users(p) - 1,
           \A p \in Procs \ S : Users(p)' = Users(p)
    PROVE  Exact'
<1> SUFFICES ASSUME NEW p \in Procs
             PROVE  /\ alloc'[p] = "live" => cRefs'[p] = Users(p)' /\ Users(p)' > 0
                    /\ alloc'[p] # "live" => Users(p)' = 0
  BY DEF Exact
<1>1. /\ alloc[p] = "live" => cRefs[p] = Users(p) /\ Users(p) > 0
      /\ alloc[p] # "live" => Users(p) = 0
      /\ Users(p) \in Nat
  BY NoUsers DEF Exact
<1>2. /\ cRefs'[p] = IF p \in S THEN cRefs[p] - 1 ELSE cRefs[p]
      /\ alloc'[p] = IF p \in S /\ cRefs[p] = 1 THEN "freed" ELSE alloc[p]
  BY DEF Dereference, Dying
<1> HIDE DEF Users
<1>3. CASE p \in S
  BY <1>1, <1>2, <1>3
<1>4. CASE p \notin S
  BY <1>1, <1>2, <1>4
<1> QED
  BY <1>3, <1>4

\* One user more, who references the object.
LEMMA GainUsers ==
    ASSUME Exact, cRefs \in [Procs -> Int], NEW p \in Procs, NEW d \in Nat,
           alloc[p] = "live", alloc' = alloc,
           cRefs' = [cRefs EXCEPT ![p] = @ + d],
           \A q \in Procs : IsFiniteSet(Holders(q))',
           Users(p)' = Users(p) + d,
           \A q \in Procs \ {p} : Users(q)' = Users(q)
    PROVE  Exact'
<1> SUFFICES ASSUME NEW q \in Procs
             PROVE  /\ alloc'[q] = "live" => cRefs'[q] = Users(q)' /\ Users(q)' > 0
                    /\ alloc'[q] # "live" => Users(q)' = 0
  BY DEF Exact
<1>1. /\ alloc[q] = "live" => cRefs[q] = Users(q) /\ Users(q) > 0
      /\ alloc[q] # "live" => Users(q) = 0
      /\ Users(q) \in Nat
  BY NoUsers DEF Exact
<1> HIDE DEF Users
<1>2. CASE q = p
  BY <1>1, <1>2
<1>3. CASE q # p
  BY <1>1, <1>3
<1> QED
  BY <1>2, <1>3

\* A request takes the process ...
LEMMA HolderComes ==
    ASSUME Exact, held \in [Threads -> Procs \cup {Null}], NEW p \in Procs, NEW t \in Threads,
           held[t] = Null, held' = [held EXCEPT ![t] = p],
           \A q \in Procs : Entry(q)' = Entry(q) /\ Waits(q)' = Waits(q)
    PROVE  /\ \A q \in Procs : IsFiniteSet(Holders(q))'
           /\ Users(p)' = Users(p) + 1
           /\ \A q \in Procs \ {p} : Users(q)' = Users(q)
<1>1. Holders(p)' = Holders(p) \cup {t} /\ t \notin Holders(p)
  BY ProcessManagerAssumption DEF Holders
<1>2. \A q \in Procs \ {p} : Holders(q)' = Holders(q)
  BY ProcessManagerAssumption DEF Holders
<1>3. \A q \in Procs : IsFiniteSet(Holders(q))
  BY DEF Exact
<1>4. /\ IsFiniteSet(Holders(p) \cup {t})
      /\ Cardinality(Holders(p) \cup {t}) = Cardinality(Holders(p)) + 1
      /\ Cardinality(Holders(p)) \in Nat
  BY <1>1, <1>3, FS_AddElement, FS_CardinalityType
<1>5. Entry(p) \in Nat /\ Cardinality(Waits(p)) \in Nat
  BY WaitsFinite DEF Entry
<1>6. Users(p)' = Users(p) + 1
  BY <1>1, <1>4, <1>5 DEF Users
<1>7. \A q \in Procs : IsFiniteSet(Holders(q))'
  BY <1>1, <1>2, <1>3, <1>4
<1>8. \A q \in Procs \ {p} : Users(q)' = Users(q)
  BY <1>2 DEF Users
<1> QED
  BY <1>6, <1>7, <1>8

\* ... and gives it back.
LEMMA HolderGoes ==
    ASSUME Exact, held \in [Threads -> Procs \cup {Null}], NEW p \in Procs, NEW t \in Threads,
           held[t] = p, held' = [held EXCEPT ![t] = Null],
           \A q \in Procs : Entry(q)' = Entry(q) /\ Waits(q)' = Waits(q)
    PROVE  /\ \A q \in Procs : IsFiniteSet(Holders(q))'
           /\ Users(p) > 0 /\ Users(p)' = Users(p) - 1
           /\ \A q \in Procs \ {p} : Users(q)' = Users(q)
<1>1. Holders(p)' = Holders(p) \ {t} /\ t \in Holders(p)
  BY ProcessManagerAssumption DEF Holders
<1>2. \A q \in Procs \ {p} : Holders(q)' = Holders(q)
  BY ProcessManagerAssumption DEF Holders
<1>3. \A q \in Procs : IsFiniteSet(Holders(q))
  BY DEF Exact
<1>4. /\ IsFiniteSet(Holders(p) \ {t})
      /\ Cardinality(Holders(p) \ {t}) = Cardinality(Holders(p)) - 1
      /\ Cardinality(Holders(p)) \in Nat
  BY <1>1, <1>3, FS_RemoveElement, FS_CardinalityType
<1>5. Entry(p) \in Nat /\ Cardinality(Waits(p)) \in Nat
  BY WaitsFinite DEF Entry
<1>6. Users(p)' = Users(p) - 1
  BY <1>1, <1>4, <1>5 DEF Users
<1>7. Users(p) > 0
  BY <1>1, <1>3, <1>5, NoUsers
<1>8. \A q \in Procs : IsFiniteSet(Holders(q))'
  BY <1>1, <1>2, <1>3, <1>4
<1>9. \A q \in Procs \ {p} : Users(q)' = Users(q)
  BY <1>2 DEF Users
<1> QED
  BY <1>6, <1>7, <1>8, <1>9

\* Waits of p are registered, each with a reference ...
LEMMA WaitsCome ==
    ASSUME Exact, held' = held, NEW p \in Procs, NEW S,
           S \cap Waits(p) = {}, Waits(p)' = Waits(p) \cup S,
           \A q \in Procs : Entry(q)' = Entry(q),
           \A q \in Procs \ {p} : Waits(q)' = Waits(q)
    PROVE  /\ IsFiniteSet(S) /\ Cardinality(S) \in Nat
           /\ \A q \in Procs : IsFiniteSet(Holders(q))'
           /\ Users(p)' = Users(p) + Cardinality(S)
           /\ \A q \in Procs \ {p} : Users(q)' = Users(q)
<1>1. \A q \in Procs : Holders(q)' = Holders(q) /\ IsFiniteSet(Holders(q))
  BY DEF Holders, Exact
<1>2. /\ IsFiniteSet(Waits(p)) /\ Cardinality(Waits(p)) \in Nat
      /\ IsFiniteSet(Waits(p) \cup S)
  BY WaitsFinite, WaitsFiniteNext
<1>3. IsFiniteSet(S) /\ Cardinality(S) \in Nat
  BY <1>2, FS_Subset, FS_CardinalityType
<1>4. Cardinality(Waits(p) \cup S) = Cardinality(Waits(p)) + Cardinality(S)
  <2>1. Waits(p) \cap S = {}
    OBVIOUS
  <2>2. Cardinality(Waits(p) \cap S) = 0
    BY <2>1, FS_EmptySet
  <2>3. Cardinality(Waits(p) \cup S)
            = Cardinality(Waits(p)) + Cardinality(S) - Cardinality(Waits(p) \cap S)
    BY <1>2, <1>3, FS_Union
  <2> QED
    BY <1>2, <1>3, <2>2, <2>3
<1>5. Entry(p) \in Nat /\ Cardinality(Holders(p)) \in Nat
  BY <1>1, FS_CardinalityType DEF Entry
<1>6. Users(p)' = Users(p) + Cardinality(S)
  <2>1. Users(p)' = Entry(p) + Cardinality(Holders(p)) + Cardinality(Waits(p) \cup S)
    BY <1>1 DEF Users
  <2>2. Users(p) = Entry(p) + Cardinality(Holders(p)) + Cardinality(Waits(p))
    BY DEF Users
  <2> QED
    BY <1>2, <1>3, <1>4, <1>5, <2>1, <2>2
<1>7. \A q \in Procs \ {p} : Users(q)' = Users(q)
  BY <1>1 DEF Users
<1> QED
  BY <1>1, <1>3, <1>6, <1>7

\* ... and one of them is over.
LEMMA WaitGoes ==
    ASSUME Exact, held' = held, NEW p \in Procs, NEW w \in Waits(p),
           Waits(p)' = Waits(p) \ {w},
           \A q \in Procs : Entry(q)' = Entry(q),
           \A q \in Procs \ {p} : Waits(q)' = Waits(q)
    PROVE  /\ \A q \in Procs : IsFiniteSet(Holders(q))'
           /\ Users(p) > 0 /\ Users(p)' = Users(p) - 1
           /\ \A q \in Procs \ {p} : Users(q)' = Users(q)
<1>1. \A q \in Procs : Holders(q)' = Holders(q) /\ IsFiniteSet(Holders(q))
  BY DEF Holders, Exact
<1>2. /\ Cardinality(Waits(p) \ {w}) = Cardinality(Waits(p)) - 1
      /\ Cardinality(Waits(p)) \in Nat
  BY WaitsFinite, FS_RemoveElement
<1>3. Entry(p) \in Nat /\ Cardinality(Holders(p)) \in Nat
  BY <1>1, FS_CardinalityType DEF Entry
<1>4. Users(p)' = Users(p) - 1
  BY <1>1, <1>2, <1>3 DEF Users
<1>5. Users(p) > 0
  BY <1>1, NoUsers
<1>6. \A q \in Procs \ {p} : Users(q)' = Users(q)
  BY <1>1 DEF Users
<1> QED
  BY <1>1, <1>4, <1>5, <1>6

\* The entries of S leave the list.
LEMMA EntriesGo ==
    ASSUME Exact, list \in [Slots -> Procs \cup {Null}], held' = held,
           NEW S \in SUBSET Procs, \A p \in S : Listed(p), Delist(S),
           \A q \in Procs : Waits(q)' = Waits(q)
    PROVE  /\ \A q \in Procs : IsFiniteSet(Holders(q))'
           /\ \A p \in S : Users(p) > 0 /\ Users(p)' = Users(p) - 1
           /\ \A q \in Procs \ S : Users(q)' = Users(q)
<1>1. \A q \in Procs : Holders(q)' = Holders(q) /\ IsFiniteSet(Holders(q))
  BY DEF Holders, Exact
<1>2. \A q \in Procs : Entry(q)' = IF q \in S THEN 0 ELSE Entry(q)
  BY ProcessManagerAssumption DEF Entry, Listed, Delist
<1>3. \A q \in Procs : Cardinality(Holders(q)) \in Nat /\ Cardinality(Waits(q)) \in Nat
  BY <1>1, WaitsFinite, FS_CardinalityType
<1>4. \A p \in S : Entry(p) = 1
  BY DEF Entry
<1>5. ASSUME NEW p \in S PROVE Users(p) > 0 /\ Users(p)' = Users(p) - 1
  <2>1. /\ Users(p) = 1 + Cardinality(Holders(p)) + Cardinality(Waits(p))
        /\ Users(p)' = 0 + Cardinality(Holders(p)) + Cardinality(Waits(p))
    BY <1>1, <1>2, <1>4 DEF Users
  <2> QED
    BY <1>3, <2>1
<1>6. \A q \in Procs \ S : Users(q)' = Users(q)
  BY <1>1, <1>2 DEF Users
<1> QED
  BY <1>1, <1>5, <1>6

-----------------------------------------------------------------------------
(* One slot per object, and the waits of a start.                          *)

LEMMA OneSlotStep ==
    Core /\ ListedIsUnstopped /\ OneSlot /\ [Next]_vars => OneSlot'
<1> SUFFICES ASSUME Core, ListedIsUnstopped, OneSlot, [Next]_vars PROVE OneSlot' OBVIOUS
<1>1. list \in [Slots -> Procs \cup {Null}] /\ idx \in [Threads -> Slots]
  BY DEF Core, TypeOK, ManagerType, ThreadType
<1>2. ASSUME NEW S, Delist(S) PROVE OneSlot'
  BY <1>1, <1>2 DEF Delist, OneSlot
<1>3. CASE list' = list
  BY <1>3 DEF OneSlot
<1>4. ASSUME NEW t \in Threads, NEW p \in Procs, CreateServerProcess(t, p) PROVE OneSlot'
  <2>1. list' = [list EXCEPT ![idx[t]] = p] /\ ~Listed(p)
    BY <1>4 DEF CreateServerProcess, ListedIsUnstopped
  <2> QED
    BY <1>1, <2>1 DEF OneSlot, Listed
<1>5. \/ list' = list \/ (\E S : Delist(S))
      \/ \E t \in Threads, p \in Procs : CreateServerProcess(t, p)
  <2>1. ASSUME NEW t \in Threads, LockExclusive(t) PROVE list' = list \/ \E S : Delist(S)
    BY <2>1 DEF LockExclusive, ShutdownProcessNoLock, mgrVars
  <2>2. ASSUME NEW t \in Threads, StartFails(t) PROVE \E S : Delist(S)
    BY <2>2 DEF StartFails
  <2>3. ASSUME SignalObeyed \/ SignalTimesOut PROVE \E S : Delist(S)
    BY <2>3 DEF SignalObeyed, SignalTimesOut, DropSignalled
  <2>4. ASSUME NEW t \in Threads, LocalStep(t)
        PROVE  \/ list' = list \/ (\E S : Delist(S))
               \/ \E p \in Procs : CreateServerProcess(t, p)
    BY <2>2, <2>4 DEF LocalStep, RecheckSlot, RecheckReady, IsReady, RapidFailCheck,
       AllocationFails,
       InitializeFails, StartProcess, LaunchFails, PollEnds, RegisterChildren, ChildrenFail,
       MarkReady, VerifyFails, ReleaseProcess, ReturnWithout, mgrVars
  <2>5. ASSUME NEW p \in Procs, NEW w \in OsProcs, ShutdownProcess(p, w)
        PROVE  \E S : Delist(S)
    BY <2>5 DEF ShutdownProcess, ShutdownProcessNoLock
  <2>6. ASSUME NEW t \in Threads, EnterGetProcess(t) \/ InitList(t) \/ SharedLookup(t)
        PROVE  list' = list
    BY <2>6 DEF EnterGetProcess, InitList, SharedLookup, mgrVars
  <2>7. ASSUME NEW p \in Procs, NEW w \in OsProcs,
               CallbackStep(p, w) \/ SpawnChild(p, w) \/ Listen(p, w) \/ ProcessExits(p, w)
        PROVE  list' = list
    BY <2>7 DEF CallbackStep, WaitFires, CheckServer, TestStopping, SetStopping,
       LeaveCallback, SpawnChild, Listen, ProcessExits, mgrVars
  <2>8. ASSUME (\E destroy \in BOOLEAN : StartSignal(destroy)) \/ SkipSlot \/ EndSignal
               \/ UNCHANGED vars
        PROVE  list' = list
    BY <2>8 DEF StartSignal, SkipSlot, EndSignal, vars, mgrVars
  <2> QED
    BY <2>1, <2>3, <2>4, <2>5, <2>6, <2>7, <2>8 DEF Next, LockStep, RecyclerStep
<1> QED
  BY <1>2, <1>3, <1>4, <1>5

\* A wait that is not registered stays so, but for a start's registrations.
LEMMA WaitStaysNone ==
    ASSUME Core, [Next]_vars,
           \A t \in Threads : (\A r \in Registration : ~PollEnds(t, r)),
           \A t \in Threads :
              \A f \in [Children -> Registration \cup {"unopened"}] : ~RegisterChildren(t, f)
    PROVE  \A p \in Procs, w \in OsProcs : wait[p][w] = "none" => wait'[p][w] = "none"
<1> DEFINE Goal == \A p \in Procs, w \in OsProcs : wait[p][w] = "none" => wait'[p][w] = "none"
<1>1. wait \in [Procs -> [OsProcs -> WaitPc]] /\ Main \in OsProcs
  BY DEF Core, TypeOK, ObjectType, OsProcs
<1>2. ASSUME NEW t \in Threads, StartFails(t) PROVE Goal
  BY <1>1, <1>2 DEF StartFails, Unregister
<1>3. ASSUME NEW t \in Threads, LocalStep(t) PROVE Goal
  BY <1>2, <1>3 DEF LocalStep, RecheckSlot, RecheckReady, IsReady, RapidFailCheck, AllocationFails,
     CreateServerProcess, InitializeFails, StartProcess, LaunchFails, ChildrenFail,
     MarkReady, VerifyFails, ReleaseProcess, ReturnWithout, objVars
<1>4. ASSUME NEW t \in Threads, EnterGetProcess(t) \/ LockStep(t) PROVE Goal
  BY <1>4 DEF EnterGetProcess, LockStep, InitList, SharedLookup, LockExclusive, objVars
<1>5. ASSUME NEW p \in Procs, NEW w \in OsProcs, NEW a, NEW b, Callback(p, w, a, b), a # "none"
      PROVE  Goal
  BY <1>1, <1>5 DEF Callback
<1>6. ASSUME NEW p \in Procs, NEW w \in OsProcs,
             \/ CallbackStep(p, w) \/ ShutdownProcess(p, w)
             \/ SpawnChild(p, w) \/ Listen(p, w) \/ ProcessExits(p, w)
      PROVE  Goal
  BY <1>5, <1>6 DEF CallbackStep, WaitFires, CheckServer, TestStopping, SetStopping,
     LeaveCallback, ShutdownProcess, SpawnChild, Listen, ProcessExits, objVars
<1>7. ASSUME (\E destroy \in BOOLEAN : StartSignal(destroy)) \/ SkipSlot \/ EndSignal
             \/ SignalObeyed \/ UNCHANGED vars
      PROVE  Goal
  BY <1>7 DEF StartSignal, SkipSlot, EndSignal, SignalObeyed, vars, objVars
<1>8. CASE SignalTimesOut
  BY <1>1, <1>8 DEF SignalTimesOut, Unregister
<1> QED
  BY <1>3, <1>4, <1>6, <1>7, <1>8 DEF Next, RecyclerStep

LEMMA FreshStep ==
    Core /\ ListedIsUnstopped /\ Fresh /\ [Next]_vars => Fresh'
<1> SUFFICES ASSUME Core, ListedIsUnstopped, Fresh, [Next]_vars PROVE Fresh' OBVIOUS
<1> USE ProcessManagerAssumption
    DEF Core, LockOwner, StartingSlot, Locked, Starting, InStart
<1>1. /\ list \in [Slots -> Procs \cup {Null}] /\ idx \in [Threads -> Slots]
      /\ pc \in [Threads -> ThreadPc] /\ held \in [Threads -> Procs \cup {Null}]
      /\ wait \in [Procs -> [OsProcs -> WaitPc]] /\ Main \in OsProcs
      /\ alloc \in [Procs -> {"unused", "live", "freed"}]
  BY DEF TypeOK, ManagerType, ThreadType, ObjectType, OsProcs
<1>2. \A t \in Threads : pc'[t] # "have" => held'[t] = Null
  <2>1. ASSUME NEW t \in Threads, NEW l \in ThreadPc, l # "have",
               pc' = [pc EXCEPT ![t] = l], pc[t] # "have", held' = held
        PROVE  \A u \in Threads : pc'[u] # "have" => held'[u] = Null
    BY <1>1, <2>1 DEF Fresh
  <2>2. ASSUME UNCHANGED <<pc, held>>
        PROVE  \A u \in Threads : pc'[u] # "have" => held'[u] = Null
    BY <2>2 DEF Fresh
  <2>3. ASSUME NEW t \in Threads, NEW p, pc' = [pc EXCEPT ![t] = "have"],
               held' = [held EXCEPT ![t] = p]
        PROVE  \A u \in Threads : pc'[u] # "have" => held'[u] = Null
    BY <1>1, <2>3 DEF Fresh
  <2>4. ASSUME NEW t \in Threads, ReleaseProcess(t)
        PROVE  \A u \in Threads : pc'[u] # "have" => held'[u] = Null
    BY <1>1, <2>4 DEF ReleaseProcess, Return, Fresh
  <2>5. ASSUME NEW t \in Threads, StartFails(t), pc[t] # "have"
        PROVE  \A u \in Threads : pc'[u] # "have" => held'[u] = Null
    BY <1>1, <2>1, <2>5 DEF StartFails, Return, ThreadPc
  <2>6. ASSUME NEW t \in Threads, LocalStep(t)
        PROVE  \A u \in Threads : pc'[u] # "have" => held'[u] = Null
    <3>1. CASE MarkReady(t)
      BY <2>3, <3>1 DEF MarkReady, Return
    <3>2. CASE LaunchFails(t) \/ ChildrenFail(t) \/ VerifyFails(t)
      BY <2>5, <3>2 DEF LaunchFails, ChildrenFail, VerifyFails
    <3>3. CASE \/ RecheckSlot(t) \/ RecheckReady(t)
               \/ \E b \in BOOLEAN : RapidFailCheck(t, b)
      BY <2>1, <3>3 DEF RecheckSlot, RecheckReady, IsReady, RapidFailCheck, Continue, Return, Goto,
         Returned, ThreadPc
    <3>4. CASE \/ AllocationFails(t) \/ (\E p \in Procs : CreateServerProcess(t, p))
               \/ InitializeFails(t) \/ \E n \in Ports : StartProcess(t, n)
      BY <2>1, <3>4 DEF AllocationFails, CreateServerProcess, InitializeFails, StartProcess,
         Return, Goto, ThreadPc
    <3>5. CASE \/ (\E r \in Registration : PollEnds(t, r)) \/ ReturnWithout(t)
               \/ (\E f \in [Children -> Registration \cup {"unopened"}] : RegisterChildren(t, f))
      BY <2>1, <3>5 DEF PollEnds, RegisterChildren, ReturnWithout, Return, Goto, ThreadPc
    <3> QED
      BY <2>4, <2>6, <3>1, <3>2, <3>3, <3>4, <3>5 DEF LocalStep
  <2>7. ASSUME NEW t \in Threads, EnterGetProcess(t) \/ LockStep(t)
        PROVE  \A u \in Threads : pc'[u] # "have" => held'[u] = Null
    <3>1. CASE EnterGetProcess(t) \/ InitList(t)
      BY <2>1, <3>1 DEF EnterGetProcess, InitList, Goto, ThreadPc
    <3>2. CASE SharedLookup(t)
      <4>1. \/ /\ pc' = [pc EXCEPT ![t] = "have"]
               /\ held' = [held EXCEPT ![t] = list[(route + 1) % N]]
            \/ pc' = [pc EXCEPT ![t] = "recheck"] /\ held' = held /\ pc[t] # "have"
        BY <3>2 DEF SharedLookup, Return
      <4> QED
        BY <2>1, <2>3, <4>1 DEF ThreadPc
    <3>3. CASE LockExclusive(t)
      <4>1. \/ pc' = [pc EXCEPT ![t] = "have"] /\ held' = [held EXCEPT ![t] = list[idx[t]]]
            \/ pc' = [pc EXCEPT ![t] = "rapidfail"] /\ held' = held /\ pc[t] # "have"
        BY <3>3 DEF LockExclusive, Return, Goto
      <4> QED
        BY <2>1, <2>3, <4>1 DEF ThreadPc
    <3> QED
      BY <2>7, <3>1, <3>2, <3>3 DEF LockStep
  <2>8. ASSUME NEW p \in Procs, NEW w \in OsProcs,
               \/ CallbackStep(p, w) \/ ShutdownProcess(p, w)
               \/ SpawnChild(p, w) \/ Listen(p, w) \/ ProcessExits(p, w)
        PROVE  UNCHANGED <<pc, held>>
    BY <2>8 DEF CallbackStep, WaitFires, CheckServer, TestStopping, SetStopping,
       LeaveCallback, ShutdownProcess, SpawnChild, Listen, ProcessExits, thrVars
  <2>9. ASSUME (\E destroy \in BOOLEAN : StartSignal(destroy)) \/ RecyclerStep \/ UNCHANGED vars
        PROVE  UNCHANGED <<pc, held>>
    BY <2>9 DEF StartSignal, RecyclerStep, SkipSlot, EndSignal, SignalObeyed, SignalTimesOut,
       DropSignalled, vars, thrVars
  <2> QED
    BY <2>2, <2>6, <2>7, <2>8, <2>9 DEF Next
\* Who starts, goes on with the slot he has.
<1>3. ASSUME \A t \in Threads : (\A p \in Procs : ~CreateServerProcess(t, p))
             /\ (\A n \in Ports : ~StartProcess(t, n))
             /\ (\A r \in Registration : ~PollEnds(t, r))
      PROVE  \A u \in Threads : pc'[u] \in {"start", "polling", "children"} =>
                 pc'[u] = pc[u] /\ idx'[u] = idx[u] /\ list'[idx[u]] = list[idx[u]]
  <2> DEFINE Stays == \A u \in Threads : pc'[u] \in {"start", "polling", "children"} =>
                        pc'[u] = pc[u] /\ idx'[u] = idx[u] /\ list'[idx[u]] = list[idx[u]]
  <2>1. ASSUME NEW t \in Threads, NEW l, l \notin {"start", "polling", "children"},
               pc' = [pc EXCEPT ![t] = l], \A u \in Threads \ {t} : idx'[u] = idx[u],
               list' = list \/ lock = t
        PROVE  Stays
    BY <1>1, <2>1
  <2>2. ASSUME UNCHANGED <<pc, idx, list>> PROVE Stays
    BY <2>2
  <2>3. ASSUME UNCHANGED <<pc, idx>>, lock \in {Free, Recycler} PROVE Stays
    BY <2>3
  <2>4. ASSUME NEW t \in Threads, StartFails(t), pc[t] \in Starting PROVE Stays
    BY <1>1, <2>1, <2>4 DEF StartFails, Return
  <2>5. ASSUME NEW t \in Threads, LocalStep(t) PROVE Stays
    <3>1. CASE LaunchFails(t) \/ ChildrenFail(t) \/ VerifyFails(t)
      BY <2>4, <3>1 DEF LaunchFails, ChildrenFail, VerifyFails
    <3>2. CASE \/ RecheckSlot(t) \/ RecheckReady(t)
               \/ \E b \in BOOLEAN : RapidFailCheck(t, b)
      BY <1>1, <2>1, <3>2 DEF RecheckSlot, RecheckReady, IsReady, RapidFailCheck, Continue,
         Return, Goto,
         Returned, mgrVars
    <3>3. CASE AllocationFails(t) \/ InitializeFails(t) \/ MarkReady(t)
      BY <1>1, <2>1, <3>3 DEF AllocationFails, InitializeFails, MarkReady, Return, mgrVars
    <3>4. CASE ReturnWithout(t) \/ ReleaseProcess(t)
      BY <1>1, <2>1, <3>4 DEF ReturnWithout, ReleaseProcess, Return, mgrVars
    <3>5. CASE \E f \in [Children -> Registration \cup {"unopened"}] : RegisterChildren(t, f)
      BY <1>1, <2>1, <3>5 DEF RegisterChildren, Goto, mgrVars
    <3> QED
      BY <1>3, <2>5, <3>1, <3>2, <3>3, <3>4, <3>5 DEF LocalStep
  <2>6. ASSUME NEW t \in Threads, EnterGetProcess(t) \/ LockStep(t) PROVE Stays
    <3>1. CASE EnterGetProcess(t) \/ InitList(t)
      BY <1>1, <2>1, <3>1 DEF EnterGetProcess, InitList, Goto, mgrVars
    <3>2. CASE SharedLookup(t)
      <4>1. /\ list' = list
            /\ \/ pc' = [pc EXCEPT ![t] = "have"] /\ idx' = [idx EXCEPT ![t] = 0]
               \/ pc' = [pc EXCEPT ![t] = "recheck"] /\ idx' = [idx EXCEPT ![t] = (route + 1) % N]
        BY <3>2 DEF SharedLookup, Return
      <4> QED
        BY <1>1, <2>1, <4>1
    <3>3. CASE LockExclusive(t)
      <4>1. lock = Free /\ \E l \in {"have", "rapidfail"} : pc' = [pc EXCEPT ![t] = l]
        BY <3>3 DEF LockExclusive, Return, Goto
      <4> QED
        BY <1>1, <4>1
    <3> QED
      BY <2>6, <3>1, <3>2, <3>3 DEF LockStep
  <2>7. ASSUME NEW p \in Procs, NEW w \in OsProcs,
               CallbackStep(p, w) \/ SpawnChild(p, w) \/ Listen(p, w) \/ ProcessExits(p, w)
        PROVE  UNCHANGED <<pc, idx, list>>
    BY <2>7 DEF CallbackStep, WaitFires, CheckServer, TestStopping, SetStopping,
       LeaveCallback, SpawnChild, Listen, ProcessExits, mgrVars, thrVars
  <2>8. ASSUME NEW p \in Procs, NEW w \in OsProcs, ShutdownProcess(p, w) PROVE Stays
    BY <2>3, <2>8 DEF ShutdownProcess, thrVars
  <2>9. ASSUME (\E destroy \in BOOLEAN : StartSignal(destroy)) \/ SkipSlot \/ EndSignal
               \/ UNCHANGED vars
        PROVE  UNCHANGED <<pc, idx, list>>
    BY <2>9 DEF StartSignal, SkipSlot, EndSignal, vars, thrVars, mgrVars
  <2>10. ASSUME SignalObeyed \/ SignalTimesOut PROVE Stays
    BY <2>3, <2>10 DEF SignalObeyed, SignalTimesOut, DropSignalled, thrVars
  <2> QED
    BY <2>2, <2>5, <2>6, <2>7, <2>8, <2>9, <2>10 DEF Next, RecyclerStep
<1>4. ASSUME NEW t \in Threads, NEW p \in Procs, CreateServerProcess(t, p) PROVE Fresh'
  <2>1. /\ pc' = [pc EXCEPT ![t] = "start"] /\ list' = [list EXCEPT ![idx[t]] = p]
        /\ UNCHANGED <<idx, wait>> /\ alloc' = [alloc EXCEPT ![p] = "live"]
        /\ pc[t] = "create" /\ alloc[p] = "unused"
    BY <1>4 DEF CreateServerProcess, Goto
  <2>2. \A u \in Threads \ {t} : pc'[u] \notin {"start", "polling", "children"}
    BY <2>1
  <2>3. list'[idx'[t]] = p /\ \A w \in OsProcs : wait'[p][w] = "none"
    BY <1>1, <2>1 DEF Fresh
  <2>4. \A q \in Procs, w \in OsProcs : alloc'[q] = "unused" => wait'[q][w] = "none"
    BY <1>1, <2>1 DEF Fresh
  <2>5. pc'[t] = "start"
    BY <1>1, <2>1
  <2> QED
    BY <1>2, <2>2, <2>3, <2>4, <2>5 DEF Fresh
<1>5. ASSUME NEW t \in Threads, NEW n \in Ports, StartProcess(t, n) PROVE Fresh'
  <2>1. /\ pc' = [pc EXCEPT ![t] = "polling"] /\ UNCHANGED <<idx, wait, list, alloc>>
        /\ pc[t] = "start"
    BY <1>5 DEF StartProcess, Goto, mgrVars
  <2> QED
    BY <1>1, <1>2, <2>1 DEF Fresh
<1>6. ASSUME NEW t \in Threads, NEW r \in Registration, PollEnds(t, r) PROVE Fresh'
  <2>1. PICK p \in Procs : p = list[idx[t]] /\ alloc[p] # "unused"
    BY <1>1, <1>6 DEF PollEnds, ListedIsUnstopped, Listed
  <2>2. /\ pc' = [pc EXCEPT ![t] = "children"] /\ UNCHANGED <<idx, list, alloc>>
        /\ pc[t] = "polling" /\ wait' = [wait EXCEPT ![p][Main] = r]
    BY <1>6, <2>1 DEF PollEnds, mgrVars
  <2>3. \A u \in Threads \ {t} : pc'[u] \notin {"start", "polling", "children"}
    BY <2>2
  <2>4. \A w \in Children : w \in OsProcs /\ w # Main
    BY DEF OsProcs
  <2>5. \A w \in Children : wait'[p][w] = "none"
    BY <1>1, <2>1, <2>2, <2>4 DEF Fresh
  <2>6. \A q \in Procs, w \in OsProcs : alloc'[q] = "unused" => wait'[q][w] = "none"
    BY <1>1, <2>1, <2>2 DEF Fresh
  <2>7. pc'[t] = "children" /\ list'[idx'[t]] = p
    BY <1>1, <2>1, <2>2
  <2> QED
    BY <1>2, <2>3, <2>5, <2>6, <2>7 DEF Fresh
<1>7. ASSUME NEW t \in Threads, NEW f \in [Children -> Registration \cup {"unopened"}],
             RegisterChildren(t, f)
      PROVE  Fresh'
  <2>1. PICK p \in Procs : p = list[idx[t]] /\ alloc[p] # "unused"
    BY <1>1, <1>7 DEF RegisterChildren, ListedIsUnstopped, Listed
  <2>2. /\ pc' = [pc EXCEPT ![t] = "verify"] /\ UNCHANGED <<idx, list, alloc>>
        /\ pc[t] = "children" /\ \A q \in Procs \ {p} : wait'[q] = wait[q]
    BY <1>1, <1>7, <2>1 DEF RegisterChildren, mgrVars, Goto
  <2>3. \A u \in Threads : pc'[u] \notin {"start", "polling", "children"}
    BY <1>1, <2>2
  <2>4. \A q \in Procs, w \in OsProcs : alloc'[q] = "unused" => wait'[q][w] = "none"
    BY <2>1, <2>2 DEF Fresh
  <2> QED
    BY <1>2, <2>3, <2>4 DEF Fresh
<1>8. \A q \in Procs : alloc'[q] = "unused" => alloc[q] = "unused"
  <2> DEFINE Goal == \A q \in Procs : alloc'[q] = "unused" => alloc[q] = "unused"
  <2>1. ASSUME NEW S, NEW f, Dereference(S, f) PROVE Goal
    BY <2>1 DEF Dereference
  <2>2. ASSUME NEW t \in Threads, LocalStep(t) PROVE Goal
    BY <1>1, <2>1, <2>2 DEF LocalStep, RecheckSlot, RecheckReady, IsReady, RapidFailCheck,
       AllocationFails,
       CreateServerProcess, InitializeFails, StartProcess, LaunchFails, PollEnds,
       RegisterChildren, ChildrenFail, StartFails, MarkReady, VerifyFails, ReleaseProcess,
       ReturnWithout, objVars
  <2>3. ASSUME NEW t \in Threads, EnterGetProcess(t) \/ LockStep(t) PROVE Goal
    BY <2>1, <2>3 DEF EnterGetProcess, LockStep, InitList, SharedLookup, LockExclusive,
       ShutdownProcessNoLock, objVars
  <2>4. ASSUME NEW p \in Procs, NEW w \in OsProcs,
               \/ CallbackStep(p, w) \/ ShutdownProcess(p, w)
               \/ SpawnChild(p, w) \/ Listen(p, w) \/ ProcessExits(p, w)
        PROVE  Goal
    BY <2>1, <2>4 DEF CallbackStep, WaitFires, CheckServer, TestStopping, SetStopping,
       LeaveCallback, ShutdownProcess, ShutdownProcessNoLock, SpawnChild, Listen,
       ProcessExits, objVars
  <2>5. ASSUME (\E destroy \in BOOLEAN : StartSignal(destroy)) \/ RecyclerStep \/ UNCHANGED vars
        PROVE  Goal
    BY <2>1, <2>5 DEF StartSignal, RecyclerStep, SkipSlot, EndSignal, SignalObeyed,
       SignalTimesOut, DropSignalled, vars, objVars
  <2> QED
    BY <2>2, <2>3, <2>4, <2>5 DEF Next
<1>9. ASSUME \A t \in Threads : /\ \A p \in Procs : ~CreateServerProcess(t, p)
                                /\ \A n \in Ports : ~StartProcess(t, n)
                                /\ \A r \in Registration : ~PollEnds(t, r),
             \A t \in Threads :
                \A f \in [Children -> Registration \cup {"unopened"}] : ~RegisterChildren(t, f)
      PROVE  Fresh'
  <2>1. \A p \in Procs, w \in OsProcs : wait[p][w] = "none" => wait'[p][w] = "none"
    BY <1>9, WaitStaysNone
  <2>2. \A u \in Threads : pc'[u] \in {"start", "polling", "children"} =>
                 pc'[u] = pc[u] /\ idx'[u] = idx[u] /\ list'[idx[u]] = list[idx[u]]
    BY <1>3, <1>9
  <2>3. \A u \in Threads : pc[u] \in {"start", "polling", "children"} => list[idx[u]] \in Procs
    OBVIOUS
  <2>4. \A w \in Children : w \in OsProcs
    BY DEF OsProcs
  <2>5. \A q \in Procs, w \in OsProcs : alloc'[q] = "unused" => wait'[q][w] = "none"
    BY <1>8, <2>1 DEF Fresh
  <2>6. \A u \in Threads : pc'[u] \in {"start", "polling"} =>
          \A w \in OsProcs : wait'[list'[idx'[u]]][w] = "none"
    BY <2>1, <2>2, <2>3 DEF Fresh
  <2>7. \A u \in Threads : pc'[u] = "children" =>
          \A w \in Children : wait'[list'[idx'[u]]][w] = "none"
    BY <2>1, <2>2, <2>3, <2>4 DEF Fresh
  <2> QED
    BY <1>2, <2>5, <2>6, <2>7 DEF Fresh
<1> QED
  BY <1>4, <1>5, <1>6, <1>7, <1>9

-----------------------------------------------------------------------------
(* References.                                                             *)

\* A wait that moves between program points at which it is counted.
LEMMA WaitMoves ==
    ASSUME Core, NEW p \in Procs, NEW w \in OsProcs, NEW a \in Counted, NEW b \in Counted,
           Callback(p, w, a, b)
    PROVE  \A q \in Procs : Waits(q)' = Waits(q)
BY DEF Core, TypeOK, ObjectType, Callback, Waits

\* UnregisterWait does not change the count.
LEMMA UnregisterMoves ==
    ASSUME NEW f \in [OsProcs -> WaitPc], NEW w \in OsProcs
    PROVE  Unregister(f)[w] \in Counted <=> f[w] \in Counted
BY DEF Unregister, Counted, WaitPc

\* A step that frees nothing and hands nothing out.
LEMMA SameUsers ==
    ASSUME Exact, UNCHANGED <<list, wait, held, cRefs, alloc>> PROVE Exact'
<1>1. \A p \in Procs : Entry(p)' = Entry(p) /\ Waits(p)' = Waits(p)
  BY DEF Entry, Listed, Waits
<1> QED
  BY <1>1, KeepUsers

\* What is used is live.
LEMMA UsedIsLive ==
    ASSUME Exact, NEW p \in Procs, Listed(p) \/ Holders(p) # {} \/ Waits(p) # {}
    PROVE  alloc[p] = "live" /\ Users(p) > 0
BY NoUsers DEF Exact

\* The caller drops the entries of S, each with its reference.
LEMMA EntriesDropped ==
    ASSUME Core, Exact, NEW S \in SUBSET Procs, \A p \in S : Listed(p), Delist(S), held' = held,
           \A q \in Procs : Waits(q)' = Waits(q), NEW f, Dereference(S, f)
    PROVE  Exact'
<1>1. /\ list \in [Slots -> Procs \cup {Null}] /\ cRefs \in [Procs -> Int]
      /\ alloc \in [Procs -> {"unused", "live", "freed"}]
  BY DEF Core, TypeOK, ManagerType, ObjectType
<1>2. /\ \A q \in Procs : IsFiniteSet(Holders(q))'
      /\ \A p \in S : Users(p) > 0 /\ Users(p)' = Users(p) - 1
      /\ \A q \in Procs \ S : Users(q)' = Users(q)
  BY <1>1, EntriesGo
<1> QED
  BY <1>1, <1>2, LoseUsers

\* GetProcess hands a listed process out.
LEMMA HandedOut ==
    ASSUME Core, Exact, NEW p \in Procs, NEW t \in Threads, Listed(p), Reference(p),
           held[t] = Null, held' = [held EXCEPT ![t] = p], UNCHANGED <<list, wait, alloc>>
    PROVE  Exact'
<1>1. cRefs \in [Procs -> Int] /\ held \in [Threads -> Procs \cup {Null}]
  BY DEF Core, TypeOK, ObjectType, ThreadType
<1>2. \A q \in Procs : Entry(q)' = Entry(q) /\ Waits(q)' = Waits(q)
  BY DEF Entry, Listed, Waits
<1>3. /\ \A q \in Procs : IsFiniteSet(Holders(q))'
      /\ Users(p)' = Users(p) + 1
      /\ \A q \in Procs \ {p} : Users(q)' = Users(q)
  BY <1>1, <1>2, HolderComes
<1>4. alloc[p] = "live"
  BY UsedIsLive
<1>5. cRefs' = [cRefs EXCEPT ![p] = @ + 1]
  BY DEF Reference
<1> QED
  BY <1>1, <1>3, <1>4, <1>5, GainUsers

LEMMA StartFailsExact ==
    ASSUME Core, Exact, NEW t \in Threads, pc[t] \in Starting, StartFails(t) PROVE Exact'
<1>1. PICK p \in Procs : p = list[idx[t]] /\ Listed(p)
  BY DEF Core, TypeOK, ThreadType, StartingSlot, Listed
<1>2. /\ wait' = [wait EXCEPT ![p] = Unregister(@)] /\ held' = held
      /\ Delist({p}) /\ Dereference({p}, [os EXCEPT ![p] = Killed(@)])
  BY <1>1 DEF StartFails
<1>3. wait \in [Procs -> [OsProcs -> WaitPc]]
  BY DEF Core, TypeOK, ObjectType
<1>4. \A q \in Procs : Waits(q)' = Waits(q)
  BY <1>2, <1>3, UnregisterMoves DEF Waits
<1> QED
  BY <1>1, <1>2, <1>4, EntriesDropped

LEMMA ExactStep ==
    Core /\ ListedIsUnstopped /\ Fresh /\ Exact /\ [Next]_vars => Exact'
<1> SUFFICES ASSUME Core, ListedIsUnstopped, Fresh, Exact, [Next]_vars PROVE Exact' OBVIOUS
<1> USE ProcessManagerAssumption
<1>1. /\ list \in [Slots -> Procs \cup {Null}] /\ idx \in [Threads -> Slots]
      /\ pc \in [Threads -> ThreadPc] /\ held \in [Threads -> Procs \cup {Null}]
      /\ wait \in [Procs -> [OsProcs -> WaitPc]] /\ Main \in OsProcs
      /\ alloc \in [Procs -> {"unused", "live", "freed"}] /\ cRefs \in [Procs -> Int]
      /\ Children \subseteq OsProcs
  BY DEF Core, TypeOK, ManagerType, ThreadType, ObjectType, OsProcs
<1>2. ASSUME NEW t \in Threads,
             \/ EnterGetProcess(t) \/ InitList(t) \/ RecheckSlot(t) \/ RecheckReady(t)
             \/ (\E b \in BOOLEAN : RapidFailCheck(t, b)) \/ AllocationFails(t)
             \/ (\E n \in Ports : StartProcess(t, n)) \/ ReturnWithout(t)
      PROVE  Exact'
  <2>1. UNCHANGED <<list, wait, held, cRefs, alloc>>
    BY <1>2 DEF EnterGetProcess, InitList, RecheckSlot, RecheckReady, IsReady, RapidFailCheck,
       AllocationFails, StartProcess, ReturnWithout, mgrVars, objVars
  <2> QED
    BY <2>1, SameUsers
<1>3. ASSUME NEW t \in Threads, SharedLookup(t) PROVE Exact'
  <2> DEFINE i == (route + 1) % N
  <2>0. route + 1 \in Nat
    BY DEF Core, TypeOK, ManagerType, Slots
  <2>1. (route + 1) % N \in Slots
    BY <2>0, NextSlotType
  <2>2. CASE list[i] # Null /\ fReady[list[i]]
    <3>1. PICK p \in Procs : p = list[i]
      BY <1>1, <2>1, <2>2
    <3>2. /\ Listed(p) /\ Reference(p) /\ held[t] = Null /\ held' = [held EXCEPT ![t] = p]
          /\ UNCHANGED <<list, wait, alloc>>
      BY <1>3, <2>1, <2>2, <3>1 DEF SharedLookup, Fresh, Listed
    <3> QED
      BY <3>2, HandedOut
  <2>3. CASE ~(list[i] # Null /\ fReady[list[i]])
    BY <1>3, <2>3, SameUsers DEF SharedLookup
  <2> QED
    BY <2>2, <2>3
<1>4. ASSUME NEW t \in Threads, LockExclusive(t) PROVE Exact'
  <2>1. CASE list[idx[t]] # Null /\ fReady[list[idx[t]]]
    <3>1. PICK p \in Procs : p = list[idx[t]]
      BY <1>1, <2>1
    <3>2. /\ Listed(p) /\ Reference(p) /\ held[t] = Null /\ held' = [held EXCEPT ![t] = p]
          /\ UNCHANGED <<list, wait, alloc>>
      BY <1>1, <1>4, <2>1, <3>1 DEF LockExclusive, Fresh, Listed, mgrVars
    <3> QED
      BY <3>2, HandedOut
  <2>2. CASE ~(list[idx[t]] # Null /\ fReady[list[idx[t]]])
    <3> DEFINE S == IF list[idx[t]] = Null THEN {} ELSE SamePort(list[idx[t]])
    <3>1. S \in SUBSET Procs /\ \A p \in S : Listed(p)
      BY DEF SamePort, Listed
    <3>2. Delist(S) /\ held' = held /\ wait' = wait /\ Dereference(S, Terminated(S))
      BY <1>4, <2>2 DEF LockExclusive, ShutdownProcessNoLock
    <3>3. \A q \in Procs : Waits(q)' = Waits(q)
      BY <3>2 DEF Waits
    <3> HIDE DEF S
    <3> QED
      BY <3>1, <3>2, <3>3, EntriesDropped
  <2> QED
    BY <2>1, <2>2
<1>5. ASSUME NEW t \in Threads, NEW p \in Procs, CreateServerProcess(t, p) PROVE Exact'
  <2>1. /\ alloc[p] = "unused" /\ alloc' = [alloc EXCEPT ![p] = "live"]
        /\ cRefs' = [cRefs EXCEPT ![p] = 1] /\ list' = [list EXCEPT ![idx[t]] = p]
        /\ UNCHANGED <<wait, held>> /\ pc[t] = "create"
    BY <1>5 DEF CreateServerProcess
  <2>2. list[idx[t]] = Null
    BY <2>1 DEF Core, StartingSlot
  <2>3. \A q \in Procs : Holders(q)' = Holders(q) /\ Waits(q)' = Waits(q)
    BY <2>1 DEF Holders, Waits
  <2>4. \A q \in Procs : Entry(q)' = IF q = p THEN 1 ELSE Entry(q)
    BY <1>1, <2>1, <2>2 DEF Entry, Listed
  <2>5. ~Listed(p) /\ Holders(p) = {} /\ Waits(p) = {}
    BY <2>1, NoUsers DEF Exact
  <2>6. Cardinality(Holders(p)) = 0 /\ Cardinality(Waits(p)) = 0
    BY <2>5, FS_EmptySet
  <2>7. Users(p)' = 1 /\ \A q \in Procs \ {p} : Users(q)' = Users(q)
    BY <2>3, <2>4, <2>6 DEF Users
  <2>8. \A q \in Procs : IsFiniteSet(Holders(q))'
    BY <2>3 DEF Exact
  <2>9. cRefs'[p] = 1 /\ alloc'[p] = "live"
        /\ \A q \in Procs \ {p} : cRefs'[q] = cRefs[q] /\ alloc'[q] = alloc[q]
    BY <1>1, <2>1
  <2> SUFFICES ASSUME NEW q \in Procs
               PROVE  /\ alloc'[q] = "live" => cRefs'[q] = Users(q)' /\ Users(q)' > 0
                      /\ alloc'[q] # "live" => Users(q)' = 0
    BY <2>8 DEF Exact
  <2> HIDE DEF Users
  <2>10. CASE q = p
    BY <2>7, <2>9, <2>10
  <2>11. CASE q # p
    BY <2>7, <2>9, <2>11 DEF Exact
  <2> QED
    BY <2>10, <2>11
<1>6. ASSUME NEW t \in Threads, InitializeFails(t) PROVE Exact'
  <2>1. PICK p \in Procs : p = list[idx[t]] /\ Listed(p)
    BY <1>1, <1>6 DEF InitializeFails, Core, StartingSlot, Starting, Listed
  <2>2. Delist({p}) /\ Dereference({p}, os) /\ UNCHANGED <<wait, held>>
    BY <1>6, <2>1 DEF InitializeFails
  <2>3. \A q \in Procs : Waits(q)' = Waits(q)
    BY <2>2 DEF Waits
  <2> QED
    BY <2>1, <2>2, <2>3, EntriesDropped
<1>7. ASSUME NEW t \in Threads, LaunchFails(t) \/ ChildrenFail(t) \/ VerifyFails(t)
      PROVE  Exact'
  BY <1>7, StartFailsExact DEF LaunchFails, ChildrenFail, VerifyFails, Starting, InStart
<1>8. ASSUME NEW t \in Threads, NEW r \in Registration, PollEnds(t, r) PROVE Exact'
  <2>1. PICK p \in Procs : p = list[idx[t]] /\ Listed(p)
    BY <1>1, <1>8 DEF PollEnds, Core, StartingSlot, Starting, InStart, Listed
  <2>2. /\ wait' = [wait EXCEPT ![p][Main] = r] /\ Reference(p) /\ UNCHANGED <<list, held, alloc>>
        /\ pc[t] = "polling"
    BY <1>8, <2>1 DEF PollEnds, mgrVars
  <2>3. wait[p][Main] = "none"
    BY <1>1, <2>1, <2>2 DEF Fresh
  <2>4. r \in Counted /\ "none" \notin Counted
    BY DEF Registration, Counted, WaitPc
  <2>5. {Main} \cap Waits(p) = {} /\ Waits(p)' = Waits(p) \cup {Main}
    BY <1>1, <2>2, <2>3, <2>4 DEF Waits
  <2>6. /\ \A q \in Procs : Entry(q)' = Entry(q)
        /\ \A q \in Procs \ {p} : Waits(q)' = Waits(q)
    BY <1>1, <2>2 DEF Entry, Listed, Waits
  <2>7. /\ \A q \in Procs : IsFiniteSet(Holders(q))'
        /\ Users(p)' = Users(p) + Cardinality({Main})
        /\ \A q \in Procs \ {p} : Users(q)' = Users(q)
    BY <2>2, <2>5, <2>6, WaitsCome
  <2>8. Cardinality({Main}) = 1
    BY FS_Singleton
  <2>9. alloc[p] = "live"
    BY <2>1, UsedIsLive
  <2>10. cRefs' = [cRefs EXCEPT ![p] = @ + 1] /\ Users(p)' = Users(p) + 1
    BY <2>2, <2>7, <2>8 DEF Reference
  <2> QED
    BY <1>1, <2>2, <2>7, <2>9, <2>10, GainUsers
<1>9. ASSUME NEW t \in Threads, NEW f \in [Children -> Registration \cup {"unopened"}],
             RegisterChildren(t, f)
      PROVE  Exact'
  <2>1. PICK p \in Procs : p = list[idx[t]] /\ Listed(p)
    BY <1>1, <1>9 DEF RegisterChildren, Core, StartingSlot, Starting, InStart, Listed
  <2> DEFINE up == {w \in Children : os[p][w] = "up"}
             S == {w \in up : f[w] \in Registration}
  <2>2. /\ wait' = [wait EXCEPT ![p] = [w \in OsProcs |-> IF w \in up THEN f[w] ELSE @[w]]]
        /\ cRefs' = [cRefs EXCEPT ![p] = @ + Cardinality(S)]
        /\ UNCHANGED <<list, held, alloc>> /\ pc[t] = "children"
    BY <1>9, <2>1 DEF RegisterChildren, mgrVars
  <2>3. \A w \in up : wait[p][w] = "none" /\ w \in OsProcs
    BY <1>1, <2>1, <2>2 DEF Fresh
  <2>4. Registration \subseteq Counted /\ "none" \notin Counted /\ "unopened" \notin Counted
    BY DEF Registration, Counted, WaitPc
  <2>5. \A w \in OsProcs : wait'[p][w] = IF w \in up THEN f[w] ELSE wait[p][w]
    BY <1>1, <2>2
  <2>6. \A w \in up : f[w] \in Counted <=> w \in S
    BY <2>4
  <2>7. S \cap Waits(p) = {} /\ Waits(p)' = Waits(p) \cup S
    BY <2>3, <2>4, <2>5, <2>6 DEF Waits
  <2>8. /\ \A q \in Procs : Entry(q)' = Entry(q)
        /\ \A q \in Procs \ {p} : Waits(q)' = Waits(q)
    BY <1>1, <2>2 DEF Entry, Listed, Waits
  <2> HIDE DEF S
  <2>9. /\ Cardinality(S) \in Nat
        /\ \A q \in Procs : IsFiniteSet(Holders(q))'
        /\ Users(p)' = Users(p) + Cardinality(S)
        /\ \A q \in Procs \ {p} : Users(q)' = Users(q)
    BY <2>2, <2>7, <2>8, WaitsCome
  <2>10. alloc[p] = "live"
    BY <2>1, UsedIsLive
  <2> QED
    BY <1>1, <2>2, <2>9, <2>10, GainUsers
<1>10. ASSUME NEW t \in Threads, MarkReady(t) PROVE Exact'
  <2>1. PICK p \in Procs : p = list[idx[t]] /\ Listed(p)
    BY <1>1, <1>10 DEF MarkReady, Core, StartingSlot, Starting, InStart, Listed
  <2>2. /\ Reference(p) /\ held[t] = Null /\ held' = [held EXCEPT ![t] = p]
        /\ UNCHANGED <<list, wait, alloc>>
    BY <1>10, <2>1 DEF MarkReady, Fresh, mgrVars
  <2> QED
    BY <2>1, <2>2, HandedOut
<1>11. ASSUME NEW t \in Threads, ReleaseProcess(t) PROVE Exact'
  <2>1. PICK p \in Procs : p = held[t]
    BY <1>11 DEF ReleaseProcess, Core, HeldByHave
  <2>2. Dereference({p}, os) /\ held' = [held EXCEPT ![t] = Null] /\ UNCHANGED <<list, wait>>
    BY <1>11, <2>1 DEF ReleaseProcess
  <2>3. \A q \in Procs : Entry(q)' = Entry(q) /\ Waits(q)' = Waits(q)
    BY <2>2 DEF Entry, Listed, Waits
  <2>4. /\ \A q \in Procs : IsFiniteSet(Holders(q))'
        /\ Users(p) > 0 /\ Users(p)' = Users(p) - 1
        /\ \A q \in Procs \ {p} : Users(q)' = Users(q)
    BY <1>1, <2>1, <2>2, <2>3, HolderGoes
  <2> QED
    BY <1>1, <2>2, <2>4, LoseUsers
<1>12. ASSUME NEW p \in Procs, NEW w \in OsProcs, LeaveCallback(p, w) PROVE Exact'
  <2>1. /\ Dereference({p}, os) /\ UNCHANGED <<list, held>>
        /\ wait[p][w] = "leave" /\ wait' = [wait EXCEPT ![p][w] = "done"]
    BY <1>12 DEF LeaveCallback, Callback, thrVars
  <2>2. "leave" \in Counted /\ "done" \notin Counted
    BY DEF Counted, WaitPc
  <2>3. w \in Waits(p) /\ Waits(p)' = Waits(p) \ {w}
    BY <1>1, <2>1, <2>2 DEF Waits
  <2>4. /\ \A q \in Procs : Entry(q)' = Entry(q)
        /\ \A q \in Procs \ {p} : Waits(q)' = Waits(q)
    BY <1>1, <2>1 DEF Entry, Listed, Waits
  <2>5. /\ \A q \in Procs : IsFiniteSet(Holders(q))'
        /\ Users(p) > 0 /\ Users(p)' = Users(p) - 1
        /\ \A q \in Procs \ {p} : Users(q)' = Users(q)
    BY <2>1, <2>3, <2>4, WaitGoes
  <2> QED
    BY <1>1, <2>1, <2>5, LoseUsers
<1>13. ASSUME NEW p \in Procs, NEW w \in OsProcs,
              WaitFires(p, w) \/ CheckServer(p, w) \/ TestStopping(p, w) \/ SetStopping(p, w)
       PROVE  Exact'
  <2>1. /\ UNCHANGED <<list, held, cRefs, alloc>>
        /\ \E a, b \in Counted : Callback(p, w, a, b)
    BY <1>13 DEF WaitFires, CheckServer, TestStopping, SetStopping, mgrVars, thrVars,
       Counted, WaitPc
  <2>2. \A q \in Procs : Entry(q)' = Entry(q) /\ Waits(q)' = Waits(q)
    BY <2>1, WaitMoves DEF Entry, Listed
  <2> QED
    BY <2>1, <2>2, KeepUsers
<1>14. ASSUME NEW p \in Procs, NEW w \in OsProcs, ShutdownProcess(p, w) PROVE Exact'
  <2> DEFINE S == SamePort(p)
  <2>1. S \in SUBSET Procs /\ \A q \in S : Listed(q)
    BY DEF SamePort, Listed
  <2>2. /\ Delist(S) /\ held' = held /\ Dereference(S, Terminated(S))
        /\ Callback(p, w, "shutdown", "leave")
    BY <1>14 DEF ShutdownProcess, ShutdownProcessNoLock, thrVars
  <2>3. "shutdown" \in Counted /\ "leave" \in Counted
    BY DEF Counted, WaitPc
  <2>4. \A q \in Procs : Waits(q)' = Waits(q)
    BY <2>2, <2>3, WaitMoves
  <2> HIDE DEF S
  <2> QED
    BY <2>1, <2>2, <2>4, EntriesDropped
<1>15. ASSUME \/ (\E destroy \in BOOLEAN : StartSignal(destroy)) \/ SkipSlot \/ EndSignal
              \/ UNCHANGED vars
              \/ \E p \in Procs, w \in OsProcs :
                    SpawnChild(p, w) \/ Listen(p, w) \/ ProcessExits(p, w)
       PROVE  Exact'
  <2>1. UNCHANGED <<list, wait, held, cRefs, alloc>>
    BY <1>15 DEF StartSignal, SkipSlot, EndSignal, SpawnChild, Listen, ProcessExits, vars,
       mgrVars, objVars, thrVars
  <2> QED
    BY <2>1, SameUsers
<1>16. ASSUME SignalObeyed \/ SignalTimesOut PROVE Exact'
  <2>1. PICK p \in Procs : p = list[cursor] /\ Listed(p)
    BY <1>1, <1>16 DEF SignalObeyed, SignalTimesOut, Core, TypeOK, RecyclerType, Slots, Listed
  <2>2. PICK f : DropSignalled(p, f)
    BY <1>16, <2>1 DEF SignalObeyed, SignalTimesOut
  <2>3. Delist({p}) /\ Dereference({p}, f) /\ held' = held
    BY <2>2 DEF DropSignalled, thrVars
  <2>4. \/ wait' = wait
        \/ wait' = [wait EXCEPT ![p][Main] = Unregister(wait[p])[Main]]
    BY <1>16, <2>1 DEF SignalObeyed, SignalTimesOut
  <2>5. \A q \in Procs : Waits(q)' = Waits(q)
    <3>1. CASE wait' = wait
      BY <3>1 DEF Waits
    <3>2. CASE wait' = [wait EXCEPT ![p][Main] = Unregister(wait[p])[Main]]
      <4>1. Unregister(wait[p])[Main] \in Counted <=> wait[p][Main] \in Counted
        BY <1>1, UnregisterMoves
      <4>2. \A q \in Procs, w \in OsProcs :
               wait'[q][w] = IF q = p /\ w = Main THEN Unregister(wait[p])[Main] ELSE wait[q][w]
        BY <1>1, <3>2
      <4> QED
        BY <4>1, <4>2 DEF Waits
    <3> QED
      BY <2>4, <3>1, <3>2
  <2> QED
    BY <2>1, <2>3, <2>5, EntriesDropped
<1> QED
  BY <1>2, <1>3, <1>4, <1>5, <1>6, <1>7, <1>8, <1>9, <1>10, <1>11, <1>12, <1>13, <1>14,
     <1>15, <1>16
     DEF Next, LockStep, LocalStep, CallbackStep, RecyclerStep

-----------------------------------------------------------------------------
(* The initial states, and what the counts promise.                        *)

Counting == ListedIsUnstopped /\ OneSlot /\ Fresh /\ Exact

LEMMA CountingInit == Init => Counting
<1> SUFFICES ASSUME Init PROVE Counting OBVIOUS
<1>1. /\ list = [i \in Slots |-> Null] /\ pc = [t \in Threads |-> "idle"]
      /\ held = [t \in Threads |-> Null] /\ alloc = [p \in Procs |-> "unused"]
      /\ wait = [p \in Procs |-> [w \in OsProcs |-> "none"]]
  BY Zenon DEF Init
<1>2. OneSlot /\ Fresh
  BY <1>1 DEF OneSlot, Fresh, OsProcs
<1>3. ASSUME NEW p \in Procs
      PROVE  Entry(p) = 0 /\ Holders(p) = {} /\ Waits(p) = {}
  BY <1>1, ProcessManagerAssumption DEF Entry, Listed, Holders, Waits, Counted
<1>4. \A p \in Procs : IsFiniteSet(Holders(p)) /\ Users(p) = 0
  BY <1>3, FS_EmptySet DEF Users
<1>5. Exact
  BY <1>1, <1>4 DEF Exact
<1> QED
  BY <1>2, <1>5, ListedIsUnstoppedInit DEF Counting

LEMMA CountingStep == Core /\ Counting /\ [Next]_vars => Counting'
BY ListedIsUnstoppedStep, OneSlotStep, FreshStep, ExactStep DEF Counting

\* An object whose wait was unregistered before it fired is out of the list.
CancelledIsOut == \A p \in Procs, w \in OsProcs : wait[p][w] = "cancelled" => ~Listed(p)

\* The caller drops the entries of p, and unregisters waits of p only.
LEMMA CancelledWithEntry ==
    ASSUME Core, CancelledIsOut, NEW p \in Procs, Delist({p}),
           \A q \in Procs \ {p} : wait'[q] = wait[q]
    PROVE  CancelledIsOut'
<1>1. list \in [Slots -> Procs \cup {Null}]
  BY DEF Core, TypeOK, ManagerType
<1>2. ~Listed(p)' /\ \A q \in Procs : Listed(q)' => Listed(q)
  BY <1>1, ProcessManagerAssumption DEF Listed, Delist
<1> QED
  BY <1>2 DEF CancelledIsOut

\* No entry comes into the list and no wait is unregistered.
LEMMA CancelledSame ==
    ASSUME Core, CancelledIsOut, (\E S : Delist(S)) \/ list' = list,
           \A q \in Procs, w \in OsProcs : wait'[q][w] = "cancelled" => wait[q][w] = "cancelled"
    PROVE  CancelledIsOut'
<1>1. list \in [Slots -> Procs \cup {Null}]
  BY DEF Core, TypeOK, ManagerType
<1>2. \A q \in Procs : Listed(q)' => Listed(q)
  BY <1>1, ProcessManagerAssumption DEF Listed, Delist
<1> QED
  BY <1>2 DEF CancelledIsOut

LEMMA CancelledStep == Core /\ Fresh /\ CancelledIsOut /\ [Next]_vars => CancelledIsOut'
<1> SUFFICES ASSUME Core, Fresh, CancelledIsOut, [Next]_vars PROVE CancelledIsOut' OBVIOUS
<1>1. /\ list \in [Slots -> Procs \cup {Null}] /\ idx \in [Threads -> Slots]
      /\ wait \in [Procs -> [OsProcs -> WaitPc]]
  BY DEF Core, TypeOK, ManagerType, ObjectType, ThreadType
<1>2. ASSUME NEW t \in Threads,
             \/ EnterGetProcess(t) \/ InitList(t) \/ SharedLookup(t) \/ RecheckSlot(t)
             \/ RecheckReady(t) \/ LockExclusive(t) \/ (\E b \in BOOLEAN : RapidFailCheck(t, b))
             \/ AllocationFails(t) \/ InitializeFails(t) \/ (\E n \in Ports : StartProcess(t, n))
             \/ MarkReady(t) \/ ReleaseProcess(t) \/ ReturnWithout(t)
      PROVE  CancelledIsOut'
  <2>1. wait' = wait /\ ((\E S : Delist(S)) \/ list' = list)
    BY <1>2 DEF EnterGetProcess, InitList, SharedLookup, RecheckSlot, RecheckReady, IsReady,
       LockExclusive, ShutdownProcessNoLock, RapidFailCheck, AllocationFails, InitializeFails,
       StartProcess, MarkReady, ReleaseProcess, ReturnWithout, mgrVars, objVars
  <2> QED
    BY <2>1, CancelledSame
<1>3. ASSUME NEW t \in Threads, NEW p \in Procs, CreateServerProcess(t, p)
      PROVE  CancelledIsOut'
  <2>1. alloc[p] = "unused" /\ list' = [list EXCEPT ![idx[t]] = p] /\ wait' = wait
    BY <1>3 DEF CreateServerProcess
  <2>2. \A w \in OsProcs : wait[p][w] # "cancelled"
    BY <2>1 DEF Fresh
  <2>3. \A q \in Procs : Listed(q)' => q = p \/ Listed(q)
    BY <1>1, <2>1 DEF Listed
  <2> QED
    BY <2>1, <2>2, <2>3 DEF CancelledIsOut
<1>4. ASSUME NEW t \in Threads, LaunchFails(t) \/ ChildrenFail(t) \/ VerifyFails(t)
      PROVE  CancelledIsOut'
  <2>1. PICK p \in Procs : p = list[idx[t]]
    BY <1>1, <1>4 DEF LaunchFails, ChildrenFail, VerifyFails, Core, StartingSlot, Starting, InStart
  <2>2. Delist({p}) /\ wait' = [wait EXCEPT ![p] = Unregister(@)]
    BY <1>4, <2>1 DEF LaunchFails, ChildrenFail, VerifyFails, StartFails
  <2>3. \A q \in Procs \ {p} : wait'[q] = wait[q]
    BY <1>1, <2>2
  <2> QED
    BY <2>2, <2>3, CancelledWithEntry
<1>5. ASSUME NEW t \in Threads,
             \/ \E r \in Registration : PollEnds(t, r)
             \/ \E f \in [Children -> Registration \cup {"unopened"}] : RegisterChildren(t, f)
      PROVE  CancelledIsOut'
  <2>1. PICK p \in Procs : p = list[idx[t]]
    BY <1>1, <1>5 DEF PollEnds, RegisterChildren, Core, StartingSlot, Starting, InStart
  <2>2. list' = list
    BY <1>5 DEF PollEnds, RegisterChildren, mgrVars
  <2>3. ASSUME NEW r \in Registration, PollEnds(t, r), NEW q \in Procs, NEW w \in OsProcs,
               wait'[q][w] = "cancelled"
        PROVE  wait[q][w] = "cancelled"
    <3>1. wait' = [wait EXCEPT ![p][Main] = r] /\ r # "cancelled"
      BY <2>1, <2>3 DEF PollEnds, Registration
    <3> QED
      BY <1>1, <2>3, <3>1
  <2>4. ASSUME NEW f \in [Children -> Registration \cup {"unopened"}], RegisterChildren(t, f),
               NEW q \in Procs, NEW w \in OsProcs, wait'[q][w] = "cancelled"
        PROVE  wait[q][w] = "cancelled"
    <3> DEFINE up == {v \in Children : os[p][v] = "up"}
    <3>1. /\ wait' = [wait EXCEPT ![p] = [v \in OsProcs |-> IF v \in up THEN f[v] ELSE @[v]]]
          /\ \A v \in up : f[v] # "cancelled"
      BY <2>1, <2>4 DEF RegisterChildren, Registration
    <3> HIDE DEF up
    <3>2. wait'[q][w] = IF q = p /\ w \in up THEN f[w] ELSE wait[q][w]
      BY <1>1, <3>1
    <3> QED
      BY <2>4, <3>1, <3>2
  <2> QED
    BY <1>5, <2>2, <2>3, <2>4, CancelledSame
<1>6. ASSUME NEW p \in Procs, NEW w \in OsProcs, CallbackStep(p, w) \/ ShutdownProcess(p, w)
      PROVE  CancelledIsOut'
  <2>1. /\ \E a, b \in WaitPc \ {"cancelled"} : Callback(p, w, a, b)
        /\ (\E S : Delist(S)) \/ list' = list
    <3>1. CASE WaitFires(p, w) \/ SetStopping(p, w)
      BY <3>1 DEF WaitFires, SetStopping, mgrVars, WaitPc
    <3>2. CASE CheckServer(p, w)
      <4>1. PICK up \in CheckIfServerIsUp(port[p]) :
               Callback(p, w, "fired", IF up THEN "leave" ELSE "down")
        BY <3>2 DEF CheckServer
      <4> QED
        BY <3>2, <4>1 DEF CheckServer, mgrVars, WaitPc
    <3>3. CASE TestStopping(p, w)
      BY <3>3 DEF TestStopping, mgrVars, WaitPc
    <3>4. CASE LeaveCallback(p, w)
      BY <3>4 DEF LeaveCallback, WaitPc
    <3>5. CASE ShutdownProcess(p, w)
      BY <3>5 DEF ShutdownProcess, ShutdownProcessNoLock, WaitPc
    <3> QED
      BY <1>6, <3>1, <3>2, <3>3, <3>4, <3>5 DEF CallbackStep
  <2>2. \A q \in Procs, v \in OsProcs : wait'[q][v] = "cancelled" => wait[q][v] = "cancelled"
    BY <1>1, <2>1 DEF Callback
  <2> QED
    BY <2>1, <2>2, CancelledSame
<1>7. ASSUME \/ (\E destroy \in BOOLEAN : StartSignal(destroy)) \/ SkipSlot \/ EndSignal
             \/ UNCHANGED vars
             \/ \E p \in Procs, w \in OsProcs :
                   SpawnChild(p, w) \/ Listen(p, w) \/ ProcessExits(p, w)
      PROVE  CancelledIsOut'
  <2>1. UNCHANGED <<list, wait>>
    BY <1>7 DEF StartSignal, SkipSlot, EndSignal, SpawnChild, Listen, ProcessExits, vars,
       mgrVars, objVars
  <2> QED
    BY <2>1, CancelledSame
<1>8. ASSUME SignalObeyed \/ SignalTimesOut PROVE CancelledIsOut'
  <2>1. PICK p \in Procs : p = list[cursor]
    BY <1>1, <1>8, ProcessManagerAssumption
       DEF SignalObeyed, SignalTimesOut, Core, TypeOK, RecyclerType, Slots
  <2>2. Delist({p}) /\ (wait' = wait \/ \E r : wait' = [wait EXCEPT ![p][Main] = r])
    BY <1>8, <2>1 DEF SignalObeyed, SignalTimesOut, DropSignalled
  <2>3. \A q \in Procs \ {p} : wait'[q] = wait[q]
    BY <1>1, <2>2
  <2> QED
    BY <2>2, <2>3, CancelledWithEntry
<1> QED
  BY <1>2, <1>3, <1>4, <1>5, <1>6, <1>7, <1>8 DEF Next, LockStep, LocalStep, RecyclerStep

\* Whoever has a SERVER_PROCESS by a reference or through the list under
\* m_srwLock finds it allocated; the unlocked reader has neither.
THEOREM ReferencedIsLiveTheorem == Spec => []ReferencedIsLive
<1>1. Core /\ Counting => ReferencedIsLive
  <2> SUFFICES ASSUME Core, Counting PROVE ReferencedIsLive OBVIOUS
  <2>1. \A t \in Threads : pc[t] \in InStart \cup {"start"} => list[idx[t]] # Null
    BY ProcessManagerAssumption DEF Core, StartingSlot, Starting, InStart
  <2> QED
    BY <2>1, UsedIsLive DEF Counting, ReferencedIsLive, Holders, Waits
<1> QED
  BY <1>1, CoreInit, CoreStep, CountingInit, CountingStep, PTL DEF Spec

\* m_cRefs of a live SERVER_PROCESS is the number of its users, list entry,
\* requests that hold it and waits that call back, and of the references that
\* were leaked to waits that never will.
THEOREM ServerProcessRefsTheorem == Spec => []ServerProcessRefs
<1>1. ASSUME Counting, NEW p \in Procs
      PROVE  Cardinality({i \in Slots : list[i] = p}) = Entry(p)
  <2>1. CASE Listed(p)
    <3>1. PICK j \in Slots : list[j] = p
      BY <2>1 DEF Listed
    <3>2. {i \in Slots : list[i] = p} = {j}
      BY <1>1, <3>1, ProcessManagerAssumption DEF Counting, OneSlot
    <3>3. Cardinality({j}) = 1
      BY FS_Singleton
    <3> QED
      BY <2>1, <3>2, <3>3 DEF Entry
  <2>2. CASE ~Listed(p)
    <3>1. {i \in Slots : list[i] = p} = {}
      BY <2>2 DEF Listed
    <3> QED
      BY <2>2, <3>1, FS_EmptySet DEF Entry
  <2> QED
    BY <2>1, <2>2
\* The waits that are counted call back or are leaked.
<1>2. ASSUME NEW p \in Procs
      PROVE  Cardinality(Waits(p)) = Cardinality({w \in OsProcs : wait[p][w] \in CallsBack})
                                     + Cardinality({w \in OsProcs : wait[p][w] \in Leaked})
  <2> DEFINE C == {w \in OsProcs : wait[p][w] \in CallsBack}
             L == {w \in OsProcs : wait[p][w] \in Leaked}
  <2>1. Waits(p) = C \cup L /\ C \cap L = {}
    BY DEF Waits, CallsBack, Leaked, Counted, WaitPc
  <2>2. IsFiniteSet(C) /\ IsFiniteSet(L)
    BY <2>1, WaitsFinite, FS_Subset
  <2> HIDE DEF C, L
  <2>3. Cardinality(C \cup L) = Cardinality(C) + Cardinality(L) - Cardinality(C \cap L)
    BY <2>2, FS_Union
  <2>4. Cardinality(C) \in Nat /\ Cardinality(L) \in Nat /\ Cardinality(C \cap L) = 0
    BY <2>1, <2>2, FS_CardinalityType, FS_EmptySet
  <2>5. Cardinality(Waits(p)) = Cardinality(C) + Cardinality(L)
    BY <2>1, <2>3, <2>4
  <2> QED
    BY <2>5 DEF C, L
<1>3. Counting /\ CancelledIsOut => ServerProcessRefs
  <2> SUFFICES ASSUME Counting, CancelledIsOut, NEW p \in Procs, alloc[p] = "live"
               PROVE  /\ cRefs[p] > 0
                      /\ cRefs[p] = Cardinality({i \in Slots : list[i] = p})
                                    + Cardinality({t \in Threads : held[t] = p})
                                    + Cardinality({w \in OsProcs : wait[p][w] \in CallsBack})
                                    + Cardinality({w \in OsProcs : wait[p][w] \in Leaked})
    BY DEF ServerProcessRefs, CancelledIsOut
  <2>1. cRefs[p] = Users(p) /\ Users(p) > 0
    BY DEF Counting, Exact
  <2>2. /\ Cardinality({i \in Slots : list[i] = p}) \in Nat
        /\ Cardinality({t \in Threads : held[t] = p}) \in Nat
        /\ Cardinality({w \in OsProcs : wait[p][w] \in CallsBack}) \in Nat
        /\ Cardinality({w \in OsProcs : wait[p][w] \in Leaked}) \in Nat
    <3>1. IsFiniteSet(OsProcs) /\ IsFiniteSet({t \in Threads : held[t] = p})
      BY ProcessManagerAssumption, FS_AddElement DEF OsProcs, Counting, Exact, Holders
    <3> QED
      BY <1>1, <3>1, FS_Subset, FS_CardinalityType DEF Entry
  <2> QED
    BY <1>1, <1>2, <2>1, <2>2 DEF Users, Holders
<1>4. Init => CancelledIsOut
  <2> SUFFICES ASSUME Init PROVE CancelledIsOut OBVIOUS
  <2>1. wait = [p \in Procs |-> [w \in OsProcs |-> "none"]]
    BY Zenon DEF Init
  <2> QED
    BY <2>1 DEF CancelledIsOut
<1>5. Core /\ Counting /\ CancelledIsOut /\ [Next]_vars => CancelledIsOut'
  BY CancelledStep DEF Counting
<1> QED
  BY <1>3, <1>4, <1>5, CoreInit, CoreStep, CountingInit, CountingStep, PTL DEF Spec

-----------------------------------------------------------------------------
(* The references to the process manager.                                  *)

Live == {p \in Procs : alloc[p] = "live"}

\* DereferenceServerProcess of objects that are in use: the manager loses one
\* reference for each object that dies.
LEMMA DereferenceManager ==
    ASSUME Core, Counting, ManagerRefs, NEW S \in SUBSET Procs,
           \A p \in S : Listed(p) \/ Holders(p) # {} \/ Waits(p) # {},
           NEW f, Dereference(S, f), UNCHANGED <<appAlive, rpc>>
    PROVE  ManagerRefs'
<1>1. alloc \in [Procs -> {"unused", "live", "freed"}] /\ pmRefs \in Int
  BY DEF Core, TypeOK, ObjectType, ManagerType
<1>2. Dying(S) \subseteq Live
  BY UsedIsLive DEF Counting, Dying, Live
<1>3. Live' = Live \ Dying(S)
  BY <1>1 DEF Live, Dying, Dereference
<1>4. IsFiniteSet(Live) /\ IsFiniteSet(Dying(S))
  BY ProcessManagerAssumption, FS_Subset DEF Live, Dying
<1>5. Cardinality(Live \ Dying(S)) = Cardinality(Live) - Cardinality(Dying(S))
  <2>1. Live \cap Dying(S) = Dying(S)
    BY <1>2
  <2> QED
    BY <1>4, <2>1, FS_Difference
<1>6. Cardinality(Live) \in Nat /\ Cardinality(Dying(S)) \in Nat
  BY <1>4, FS_CardinalityType
<1>7. pmRefs' = pmRefs - Cardinality(Dying(S))
  BY DEF Dereference
<1>8. pmRefs = Cardinality(Live) + (IF appAlive \/ rpc = "signal" THEN 1 ELSE 0)
  BY DEF ManagerRefs, Live
<1>9. pmRefs' = Cardinality(Live)' + (IF appAlive \/ rpc = "signal" THEN 1 ELSE 0)
  BY <1>1, <1>3, <1>5, <1>6, <1>7, <1>8
<1> QED
  BY <1>9 DEF ManagerRefs, Live

LEMMA ManagerRefsStep ==
    Core /\ Counting /\ ManagerRefs /\ [Next]_vars => ManagerRefs'
<1> SUFFICES ASSUME Core, Counting, ManagerRefs, [Next]_vars PROVE ManagerRefs' OBVIOUS
<1> USE ProcessManagerAssumption
<1>1. /\ list \in [Slots -> Procs \cup {Null}] /\ idx \in [Threads -> Slots]
      /\ alloc \in [Procs -> {"unused", "live", "freed"}] /\ pmRefs \in Int
  BY DEF Core, TypeOK, ManagerType, ThreadType, ObjectType
\* Steps that neither create nor free an object, nor touch the manager's count.
<1>2. ASSUME UNCHANGED <<alloc, pmRefs, appAlive, rpc>> PROVE ManagerRefs'
  BY <1>2 DEF ManagerRefs
<1>3. ASSUME NEW t \in Threads,
             \/ EnterGetProcess(t) \/ InitList(t) \/ SharedLookup(t) \/ RecheckSlot(t)
             \/ RecheckReady(t) \/ (\E b \in BOOLEAN : RapidFailCheck(t, b))
             \/ AllocationFails(t) \/ (\E n \in Ports : StartProcess(t, n))
             \/ (\E r \in Registration : PollEnds(t, r))
             \/ (\E f \in [Children -> Registration \cup {"unopened"}] : RegisterChildren(t, f))
             \/ MarkReady(t) \/ ReturnWithout(t)
      PROVE  ManagerRefs'
  <2>1. UNCHANGED <<alloc, pmRefs, appAlive, rpc>>
    BY <1>3 DEF EnterGetProcess, InitList, SharedLookup, RecheckSlot, RecheckReady, IsReady,
       RapidFailCheck, AllocationFails, StartProcess, PollEnds, RegisterChildren,
       MarkReady, ReturnWithout, mgrVars, objVars, recVars
  <2> QED
    BY <1>2, <2>1
<1>4. ASSUME NEW t \in Threads, LockExclusive(t) PROVE ManagerRefs'
  <2>1. CASE list[idx[t]] # Null /\ fReady[list[idx[t]]]
    BY <1>2, <1>4, <2>1 DEF LockExclusive, mgrVars, recVars
  <2>2. CASE ~(list[idx[t]] # Null /\ fReady[list[idx[t]]])
    <3> DEFINE S == IF list[idx[t]] = Null THEN {} ELSE SamePort(list[idx[t]])
    <3>1. S \in SUBSET Procs /\ \A p \in S : Listed(p)
      BY DEF SamePort, Listed
    <3>2. Dereference(S, Terminated(S)) /\ UNCHANGED <<appAlive, rpc>>
      BY <1>4, <2>2 DEF LockExclusive, ShutdownProcessNoLock, recVars
    <3> HIDE DEF S
    <3> QED
      BY <3>1, <3>2, DereferenceManager
  <2> QED
    BY <2>1, <2>2
<1>5. ASSUME NEW t \in Threads, NEW p \in Procs, CreateServerProcess(t, p)
      PROVE  ManagerRefs'
  <2>1. /\ alloc[p] = "unused" /\ alloc' = [alloc EXCEPT ![p] = "live"]
        /\ pmRefs' = pmRefs + 1 /\ UNCHANGED <<appAlive, rpc>>
    BY <1>5 DEF CreateServerProcess, recVars
  <2>2. Live' = Live \cup {p} /\ p \notin Live
    BY <1>1, <2>1 DEF Live
  <2>3. IsFiniteSet(Live)
    BY FS_Subset DEF Live
  <2>4. Cardinality(Live)' = Cardinality(Live) + 1 /\ Cardinality(Live) \in Nat
    BY <2>2, <2>3, FS_AddElement, FS_CardinalityType
  <2>5. pmRefs = Cardinality(Live) + (IF appAlive \/ rpc = "signal" THEN 1 ELSE 0)
    BY DEF ManagerRefs, Live
  <2>6. pmRefs' = Cardinality(Live)' + (IF appAlive \/ rpc = "signal" THEN 1 ELSE 0)
    BY <2>1, <2>4, <2>5
  <2> QED
    BY <2>1, <2>6 DEF ManagerRefs, Live
<1>6. ASSUME NEW t \in Threads,
             InitializeFails(t) \/ LaunchFails(t) \/ ChildrenFail(t) \/ VerifyFails(t)
      PROVE  ManagerRefs'
  <2>1. PICK p \in Procs : p = list[idx[t]] /\ Listed(p)
    BY <1>1, <1>6 DEF InitializeFails, LaunchFails, ChildrenFail, VerifyFails, Core,
       StartingSlot, Starting, InStart, Listed
  <2>2. (\E f : Dereference({p}, f)) /\ UNCHANGED <<appAlive, rpc>>
    BY <1>6, <2>1 DEF InitializeFails, LaunchFails, ChildrenFail, VerifyFails, StartFails,
       recVars
  <2> QED
    BY <2>1, <2>2, DereferenceManager
<1>7. ASSUME NEW t \in Threads, ReleaseProcess(t) PROVE ManagerRefs'
  <2>1. PICK p \in Procs : p = held[t] /\ Holders(p) # {}
    BY <1>7 DEF ReleaseProcess, Core, HeldByHave, Holders
  <2>2. Dereference({p}, os) /\ UNCHANGED <<appAlive, rpc>>
    BY <1>7, <2>1 DEF ReleaseProcess, recVars
  <2> QED
    BY <2>1, <2>2, DereferenceManager
<1>8. ASSUME NEW p \in Procs, NEW w \in OsProcs, LeaveCallback(p, w) PROVE ManagerRefs'
  <2>1. wait[p][w] = "leave" /\ Dereference({p}, os) /\ UNCHANGED <<appAlive, rpc>>
    BY <1>8 DEF LeaveCallback, Callback, recVars
  <2>2. Waits(p) # {}
    BY <2>1 DEF Waits, Counted, WaitPc
  <2> QED
    BY <2>1, <2>2, DereferenceManager
<1>9. ASSUME NEW p \in Procs, NEW w \in OsProcs, ShutdownProcess(p, w) PROVE ManagerRefs'
  <2>1. SamePort(p) \in SUBSET Procs /\ \A q \in SamePort(p) : Listed(q)
    BY DEF SamePort, Listed
  <2>2. Dereference(SamePort(p), Terminated(SamePort(p))) /\ UNCHANGED <<appAlive, rpc>>
    BY <1>9 DEF ShutdownProcess, ShutdownProcessNoLock, recVars
  <2> QED
    BY <2>1, <2>2, DereferenceManager
<1>10. ASSUME NEW p \in Procs, NEW w \in OsProcs,
              \/ WaitFires(p, w) \/ CheckServer(p, w) \/ TestStopping(p, w)
              \/ SetStopping(p, w) \/ SpawnChild(p, w) \/ Listen(p, w)
              \/ ProcessExits(p, w)
       PROVE  ManagerRefs'
  BY <1>2, <1>10 DEF WaitFires, CheckServer, TestStopping, SetStopping, SpawnChild, Listen,
     ProcessExits, mgrVars, objVars, recVars
<1>11. ASSUME NEW destroy \in BOOLEAN, StartSignal(destroy) PROVE ManagerRefs'
  BY <1>11 DEF StartSignal, ManagerRefs, mgrVars, objVars
<1>12. ASSUME SkipSlot \/ UNCHANGED vars PROVE ManagerRefs'
  BY <1>2, <1>12 DEF SkipSlot, vars, mgrVars, objVars, recVars
<1>13. ASSUME SignalObeyed \/ SignalTimesOut PROVE ManagerRefs'
  <2>1. PICK p \in Procs : p = list[cursor] /\ Listed(p)
    BY <1>1, <1>13 DEF SignalObeyed, SignalTimesOut, Core, TypeOK, RecyclerType, Slots, Listed
  <2>2. PICK f : DropSignalled(p, f)
    BY <1>13, <2>1 DEF SignalObeyed, SignalTimesOut
  <2>3. Dereference({p}, f) /\ UNCHANGED <<appAlive, rpc>>
    BY <2>2 DEF DropSignalled
  <2> QED
    BY <2>1, <2>3, DereferenceManager
<1>14. ASSUME EndSignal PROVE ManagerRefs'
  <2>1. /\ rpc = "signal" /\ rpc' = "idle" /\ UNCHANGED <<alloc, appAlive>>
        /\ pmRefs' = IF appAlive THEN pmRefs ELSE pmRefs - 1
    BY <1>14 DEF EndSignal, objVars
  <2>2. pmRefs = Cardinality(Live) + 1 /\ Cardinality(Live) \in Nat /\ Live' = Live
    BY <2>1, FS_Subset, FS_CardinalityType DEF ManagerRefs, Live
  <2>3. pmRefs' = Cardinality(Live)' + (IF appAlive THEN 1 ELSE 0)
    BY <2>1, <2>2
  <2> QED
    BY <2>1, <2>3 DEF ManagerRefs, Live
<1> QED
  BY <1>3, <1>4, <1>5, <1>6, <1>7, <1>8, <1>9, <1>10, <1>11, <1>12, <1>13, <1>14
     DEF Next, LockStep, LocalStep, CallbackStep, RecyclerStep

\* The PROCESS_MANAGER is referenced by the application and by every live
\* SERVER_PROCESS, so a late exit callback finds it.
THEOREM ManagerRefsTheorem == Spec => []ManagerRefs
<1>1. Init => ManagerRefs
  <2> SUFFICES ASSUME Init PROVE ManagerRefs OBVIOUS
  <2>1. pmRefs = 1 /\ appAlive = TRUE /\ alloc = [p \in Procs |-> "unused"]
    BY Zenon DEF Init
  <2>2. {p \in Procs : alloc[p] = "live"} = {}
    BY <2>1
  <2> QED
    BY <2>1, <2>2, FS_EmptySet DEF ManagerRefs
<1> QED
  BY <1>1, ManagerRefsStep, CoreInit, CoreStep, CountingInit, CountingStep, PTL DEF Spec

-----------------------------------------------------------------------------
(* The rapid-fail window.                                                  *)

Occupied == {i \in Slots : list[i] # Null}

\* A thread that is about to create a backend found the count within the
\* limit, and nobody counts a failure while it holds the lock.
CreateWithinLimit == \A t \in Threads : pc[t] = "create" => rapidFails <= RapidFailLimit

Window == RapidFailBound /\ CreateWithinLimit

LEMMA OccupiedFinite ==
    /\ IsFiniteSet(Occupied) /\ Cardinality(Occupied) \in Nat /\ Cardinality(Occupied) <= N
    /\ IsFiniteSet(Occupied') /\ Cardinality(Occupied') \in Nat /\ Cardinality(Occupied') <= N
<1>1. IsFiniteSet(Slots) /\ Cardinality(Slots) = N
  <2>1. 0 \in Int /\ N - 1 \in Int /\ ~(0 > N - 1) /\ N - 1 - 0 + 1 = N
    BY ProcessManagerAssumption
  <2> QED
    BY <2>1, FS_Interval DEF Slots
<1> QED
  BY <1>1, FS_Subset, FS_CardinalityType DEF Occupied

\* Entries that leave the list make room for as many failures.
LEMMA DelistedRoom ==
    ASSUME list \in [Slots -> Procs \cup {Null}], NEW S \in SUBSET Procs,
           \A p \in S : Listed(p), Delist(S)
    PROVE  Cardinality(Occupied') + Cardinality(S) <= Cardinality(Occupied)
<1> DEFINE G == {i \in Slots : list[i] \in S}
           g == [i \in G |-> list[i]]
<1>1. Occupied' = Occupied \ G /\ G \subseteq Occupied
  BY ProcessManagerAssumption DEF Occupied, Delist
<1>2. IsFiniteSet(G)
  BY <1>1, OccupiedFinite, FS_Subset
<1>3. g \in Surjection(G, S)
  BY DEF Surjection, Listed
<1> HIDE DEF G, g
<1>4. IsFiniteSet(S) /\ Cardinality(S) <= Cardinality(G)
  BY <1>2, <1>3, FS_Surjection
<1>5. Cardinality(Occupied \ G) = Cardinality(Occupied) - Cardinality(G)
  <2>1. Occupied \cap G = G
    BY <1>1
  <2> QED
    BY <2>1, OccupiedFinite, FS_Difference
<1>6. Cardinality(G) \in Nat /\ Cardinality(S) \in Nat /\ Cardinality(Occupied) \in Nat
  BY <1>2, <1>4, OccupiedFinite, FS_CardinalityType
<1> QED
  BY <1>1, <1>4, <1>5, <1>6

LEMMA WindowStep ==
    Core /\ Window /\ [Next]_vars => Window'
<1> SUFFICES ASSUME Core, Window, [Next]_vars PROVE Window' OBVIOUS
<1> USE ProcessManagerAssumption
<1>1. /\ list \in [Slots -> Procs \cup {Null}] /\ idx \in [Threads -> Slots]
      /\ pc \in [Threads -> ThreadPc] /\ rapidFails \in Nat /\ rapidFails' \in Nat
      /\ N \in Nat /\ RapidFailLimit \in Nat
  BY TypeStep DEF Core, TypeOK, ManagerType, ThreadType
<1>2. /\ rapidFails + Cardinality(Occupied) <= RapidFailLimit + N
      /\ \A t \in Threads : pc[t] = "create" => rapidFails <= RapidFailLimit
  BY DEF Window, RapidFailBound, CreateWithinLimit, Occupied
\* Failures are counted, one for each entry that leaves, by the lock's owner.
<1>3. ASSUME NEW S \in SUBSET Procs, \A p \in S : Listed(p), StopProcess(S), Delist(S),
             \A t \in Threads : pc'[t] # "create"
      PROVE  Window'
  <2>1. Cardinality(Occupied') + Cardinality(S) <= Cardinality(Occupied)
    BY <1>1, <1>3, DelistedRoom
  <2>2. Cardinality(S) \in Nat
    BY FS_Subset, FS_CardinalityType
  <2>3. rapidFails' + Cardinality(Occupied') <= RapidFailLimit + N
    BY <1>1, <1>2, <1>3, <2>1, <2>2, OccupiedFinite DEF StopProcess
  <2> QED
    BY <1>3, <2>3 DEF Window, RapidFailBound, CreateWithinLimit, Occupied
\* The count does not grow, nor does the list.
<1>4. ASSUME rapidFails' <= rapidFails, (\E S : Delist(S)) \/ list' = list,
             \A t \in Threads : pc'[t] = "create" => rapidFails' <= RapidFailLimit
      PROVE  Window'
  <2>1. Occupied' \subseteq Occupied
    BY <1>1, <1>4 DEF Occupied, Delist
  <2>2. Cardinality(Occupied') <= Cardinality(Occupied)
    BY <2>1, OccupiedFinite, FS_Subset
  <2>3. rapidFails' + Cardinality(Occupied') <= RapidFailLimit + N
    BY <1>1, <1>2, <1>4, <2>2, OccupiedFinite
  <2> QED
    BY <1>4, <2>3 DEF Window, RapidFailBound, CreateWithinLimit, Occupied
<1>5. ASSUME rapidFails' = rapidFails, (\E S : Delist(S)) \/ list' = list,
             \A t \in Threads : pc'[t] = "create" => pc[t] = "create"
      PROVE  Window'
  BY <1>1, <1>2, <1>4, <1>5
<1>6. ASSUME NEW t \in Threads,
             \/ EnterGetProcess(t) \/ InitList(t) \/ SharedLookup(t) \/ RecheckSlot(t)
             \/ RecheckReady(t) \/ AllocationFails(t) \/ InitializeFails(t)
             \/ (\E n \in Ports : StartProcess(t, n))
             \/ (\E r \in Registration : PollEnds(t, r))
             \/ (\E f \in [Children -> Registration \cup {"unopened"}] : RegisterChildren(t, f))
             \/ MarkReady(t) \/ ReleaseProcess(t) \/ ReturnWithout(t)
      PROVE  Window'
  <2>1. rapidFails' = rapidFails /\ ((\E S : Delist(S)) \/ list' = list)
    BY <1>6 DEF EnterGetProcess, InitList, SharedLookup, RecheckSlot, RecheckReady, IsReady,
       AllocationFails, InitializeFails, StartProcess, PollEnds, RegisterChildren,
       MarkReady, ReleaseProcess, ReturnWithout, mgrVars
  <2>2. \A u \in Threads : pc'[u] = "create" => pc[u] = "create"
    <3>1. CASE RecheckReady(t)
      BY <1>1, <3>1 DEF RecheckReady, IsReady, Goto, Return, Continue, Returned
    <3>2. CASE ~RecheckReady(t)
      BY <1>1, <1>6, <3>2 DEF EnterGetProcess, InitList, SharedLookup, RecheckSlot,
         AllocationFails, InitializeFails, StartProcess, PollEnds, RegisterChildren,
         MarkReady, ReleaseProcess, ReturnWithout, Goto, Return, Continue, Returned
    <3> QED
      BY <3>1, <3>2
  <2> QED
    BY <1>5, <2>1, <2>2
<1>7. ASSUME NEW t \in Threads, LockExclusive(t) PROVE Window'
  <2>1. \A u \in Threads : pc'[u] # "create"
    BY <1>1, <1>7 DEF LockExclusive, Goto, Return, Core, LockOwner, Locked
  <2>2. CASE list[idx[t]] # Null /\ fReady[list[idx[t]]]
    BY <1>5, <1>7, <2>1, <2>2 DEF LockExclusive, mgrVars
  <2>3. CASE ~(list[idx[t]] # Null /\ fReady[list[idx[t]]])
    <3> DEFINE S == IF list[idx[t]] = Null THEN {} ELSE SamePort(list[idx[t]])
    <3>1. S \in SUBSET Procs /\ \A p \in S : Listed(p)
      BY DEF SamePort, Listed
    <3>2. StopProcess(S) /\ Delist(S)
      BY <1>7, <2>3 DEF LockExclusive, ShutdownProcessNoLock
    <3> HIDE DEF S
    <3> QED
      BY <1>3, <2>1, <3>1, <3>2
  <2> QED
    BY <2>2, <2>3
<1>8. ASSUME NEW t \in Threads, NEW b \in BOOLEAN, RapidFailCheck(t, b) PROVE Window'
  <2>1. rapidFails' = (IF b THEN 0 ELSE rapidFails) /\ list' = list /\ pc[t] = "rapidfail"
        /\ Continue(t, IF rapidFails' > RapidFailLimit THEN "failed" ELSE "create")
    BY <1>8 DEF RapidFailCheck
  <2>2. \A u \in Threads \ {t} : pc'[u] = pc[u]
    BY <1>1, <2>1 DEF Continue, Returned, Return, Goto
  <2>3. pc'[t] = "create" => rapidFails' <= RapidFailLimit
    BY <1>1, <2>1 DEF Continue, Returned, Return, Goto
  <2>4. rapidFails' <= rapidFails
    BY <1>1, <2>1
  <2> QED
    BY <1>1, <1>2, <1>4, <2>1, <2>2, <2>3, <2>4
<1>9. ASSUME NEW t \in Threads, NEW p \in Procs, CreateServerProcess(t, p) PROVE Window'
  <2>1. rapidFails' = rapidFails /\ pc[t] = "create" /\ pc' = [pc EXCEPT ![t] = "start"]
    BY <1>9 DEF CreateServerProcess, Goto
  <2>2. rapidFails' + Cardinality(Occupied') <= RapidFailLimit + N
    BY <1>1, <1>2, <2>1, OccupiedFinite
  <2>3. \A u \in Threads : pc'[u] = "create" => rapidFails' <= RapidFailLimit
    BY <1>1, <1>2, <2>1
  <2> QED
    BY <2>2, <2>3 DEF Window, RapidFailBound, CreateWithinLimit, Occupied
<1>10. ASSUME NEW t \in Threads, LaunchFails(t) \/ ChildrenFail(t) \/ VerifyFails(t)
       PROVE  Window'
  <2>1. PICK p \in Procs : p = list[idx[t]] /\ Listed(p) /\ pc[t] \in Starting
    BY <1>1, <1>10 DEF LaunchFails, ChildrenFail, VerifyFails, Core, StartingSlot, Starting,
       InStart, Listed
  <2>2. StopProcess({p}) /\ Delist({p}) /\ pc' = [pc EXCEPT ![t] = "failed"]
    BY <1>10, <2>1 DEF LaunchFails, ChildrenFail, VerifyFails, StartFails, Return
  <2>3. \A u \in Threads : pc'[u] # "create"
    BY <1>1, <2>1, <2>2 DEF Core, LockOwner, Locked, Starting
  <2> QED
    BY <1>3, <2>1, <2>2, <2>3
<1>11. ASSUME NEW p \in Procs, NEW w \in OsProcs,
              \/ CallbackStep(p, w) \/ SpawnChild(p, w) \/ Listen(p, w)
              \/ ProcessExits(p, w)
       PROVE  Window'
  <2>1. UNCHANGED <<list, rapidFails, pc>>
    BY <1>11 DEF CallbackStep, WaitFires, CheckServer, TestStopping, SetStopping,
       LeaveCallback, SpawnChild, Listen, ProcessExits, mgrVars, thrVars
  <2> QED
    BY <1>5, <2>1
<1>12. ASSUME NEW p \in Procs, NEW w \in OsProcs, ShutdownProcess(p, w) PROVE Window'
  <2>1. SamePort(p) \in SUBSET Procs /\ \A q \in SamePort(p) : Listed(q)
    BY DEF SamePort, Listed
  <2>2. StopProcess(SamePort(p)) /\ Delist(SamePort(p)) /\ lock = Free /\ pc' = pc
    BY <1>12 DEF ShutdownProcess, ShutdownProcessNoLock, thrVars
  <2>3. \A u \in Threads : pc'[u] # "create"
    BY <2>2 DEF Core, LockOwner, Locked
  <2> QED
    BY <1>3, <2>1, <2>2, <2>3
<1>13. ASSUME (\E destroy \in BOOLEAN : StartSignal(destroy)) \/ SkipSlot \/ EndSignal
              \/ SignalObeyed \/ SignalTimesOut \/ UNCHANGED vars
       PROVE  Window'
  <2>1. UNCHANGED <<rapidFails, pc>> /\ ((\E S : Delist(S)) \/ list' = list)
    BY <1>13 DEF StartSignal, SkipSlot, EndSignal, SignalObeyed, SignalTimesOut,
       DropSignalled, vars, mgrVars, thrVars
  <2> QED
    BY <1>5, <2>1
<1> QED
  BY <1>6, <1>7, <1>8, <1>9, <1>10, <1>11, <1>12, <1>13
     DEF Next, LockStep, LocalStep, RecyclerStep

\* rapidFailsPerMinute bounds the failures of a window: at most the N
\* backends that were in the list can still push the count beyond.
THEOREM RapidFailBoundTheorem == Spec => []RapidFailBound
<1>1. Init => Window
  <2> SUFFICES ASSUME Init PROVE Window OBVIOUS
  <2>1. /\ list = [i \in Slots |-> Null] /\ rapidFails = 0
        /\ pc = [t \in Threads |-> "idle"]
    BY Zenon DEF Init
  <2>2. Occupied = {}
    BY <2>1 DEF Occupied
  <2>3. rapidFails + Cardinality(Occupied) <= RapidFailLimit + N
    BY <2>1, <2>2, FS_EmptySet, ProcessManagerAssumption
  <2> QED
    BY <2>1, <2>3 DEF Window, RapidFailBound, CreateWithinLimit, Occupied
<1>2. Window => RapidFailBound
  BY DEF Window
<1> QED
  BY <1>1, <1>2, WindowStep, CoreInit, CoreStep, PTL DEF Spec

=============================================================================
