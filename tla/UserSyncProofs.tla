---------------------------- MODULE UserSyncProofs ----------------------------
(***************************************************************************)
(* What holds of UserSync for any processes, whichever of them run code of *)
(* the kernel, and whatever the users do with their own locks.             *)
(***************************************************************************)
EXTENDS UserSync, CondsProofs

\* Why no mark is ever on a lock of the kernel: a mark is on a lock in use,
\* and P1_LockCreate takes a slot that is not.
MarkedInUse == \A l \in UserLockLID : locks[l].inuse

MarksTyped ==
  /\ UserLockLID \subseteq Lid /\ UserCondVID \subseteq CondId /\ kernelLocks \subseteq Lid

SyncInv == CondInv /\ MarksTyped /\ MarkedInUse /\ KernelLocksKept

------------------------------------------------------------------------------
(* The stubs make no other calls than those of phase1c.c.                    *)

LEMMA StubIsCall ==
  ASSUME NEW p \in Proc, Stub(p)
  PROVE  (LockCall(p) /\ UNCHANGED conditions) \/ CondTable(p) \/ CondUse(p)
<1>1. ASSUME NEW n \in Name, LockCreateStub(p, n) PROVE LockCall(p) /\ UNCHANGED conditions
  BY <1>1 DEF LockCreateStub, LockCall
<1>2. ASSUME NEW l \in Lid, LockAcquireStub(p, l) \/ LockReleaseStub(p, l) \/ LockFreeStub(p, l)
      PROVE  LockCall(p) /\ UNCHANGED conditions
  BY <1>2 DEF LockAcquireStub, LockReleaseStub, LockFreeStub, LockCall
<1>3. ASSUME NEW l \in Lid, NEW n \in Name, LockNameStub(p, l, n)
      PROVE  LockCall(p) /\ UNCHANGED conditions
  BY <1>3 DEF LockNameStub, LockCall
<1>4. ASSUME NEW l \in Lid, NEW n \in Name, CondCreateStub(p, n, l) PROVE CondTable(p)
  BY <1>4 DEF CondCreateStub, CondTable
<1>5. ASSUME NEW v \in CondId, CondUseStub(p, v) PROVE CondUse(p)
  BY <1>5 DEF CondUseStub, CondUse
<1>6. ASSUME NEW v \in CondId, CondFreeStub(p, v) PROVE CondTable(p)
  BY <1>6 DEF CondFreeStub, CondTable
<1>7. ASSUME NEW v \in CondId, NEW n \in Name, CondNameStub(p, v, n) PROVE CondTable(p)
  BY <1>7 DEF CondNameStub, CondTable
<1> QED BY <1>1, <1>2, <1>3, <1>4, <1>5, <1>6, <1>7 DEF Stub

LEMMA KernelIsCall ==
  ASSUME CondTypeOK, NEW p \in Proc, KernelCreates(p) \/ KernelUses(p)
  PROVE  (LockCall(p) /\ UNCHANGED conditions) \/ CondTable(p) \/ CondUse(p)
<1>1. CASE KernelCreates(p) BY <1>1 DEF KernelCreates, LockCall, CondTable
<1>2. CASE KernelUses(p)
  <2>1. held[p] \subseteq Lid BY DEF CondTypeOK
  <2> QED BY <1>2, <2>1 DEF KernelUses, LockUse, LockCall
<1> QED BY <1>1, <1>2

LEMMA SyncIsAnyCall == CondTypeOK /\ [SyncNext]_syncVars => [AnyCall]_condVars
<1> SUFFICES ASSUME CondTypeOK, [SyncNext]_syncVars PROVE AnyCall \/ UNCHANGED condVars
  OBVIOUS
<1>1. ASSUME NEW p \in KernelProc, KernelCreates(p) \/ KernelUses(p) PROVE AnyCall
  <2>1. p \in Proc BY UserSyncAssumption DEF UserSyncAssumption
  <2> QED BY <1>1, <2>1, KernelIsCall DEF AnyCall
<1>2. ASSUME NEW p \in UserProc, Stub(p) PROVE AnyCall
  <2>1. p \in Proc BY UserSyncAssumption DEF UserSyncAssumption
  <2> QED BY <1>2, <2>1, StubIsCall DEF AnyCall
<1>3. CASE Interrupted BY <1>3 DEF Interrupted, AnyCall
<1>4. CASE UNCHANGED syncVars BY <1>4 DEF syncVars
<1> QED BY <1>1, <1>2, <1>3, <1>4 DEF SyncNext

------------------------------------------------------------------------------
(* The marks.                                                                *)

InuseKept == \A l \in Lid : locks'[l].inuse = locks[l].inuse

\* No call but P1_LockCreate and P1_LockFree takes a slot into or out of use.
LEMMA CondCallsKeepInuse ==
  ASSUME CondTypeOK, NEW p \in Proc, CondTable(p) \/ CondUse(p)
  PROVE  InuseKept
<1>0. locks \in [Lid -> Lock] BY DEF CondTypeOK
<1>1. CASE UNCHANGED locks BY <1>1 DEF InuseKept
<1>2. ASSUME NEW v \in CondId, Waits(p, v) PROVE InuseKept
  <2>1. conditions[v].lock \in Lid BY DEF CondTypeOK, Condition
  <2> QED BY <1>0, <1>2, <2>1, WaitTable DEF Waits, InuseKept
<1>3. ASSUME WaitReturn(p) PROVE InuseKept
  <2>1. PICK m : locks' = [locks EXCEPT ![m].state = "BUSY"] BY <1>3 DEF WaitReturn
  <2> QED BY <1>0, <2>1 DEF InuseKept, Lock
<1> QED BY <1>1, <1>2, <1>3, CondUseCases
        DEF Refuse, Wake, SignalReturn, CondTable, P1_CondCreate, P1_CondFree, P1_CondName,
            lockVars

LEMMA LockCallsKeepInuse ==
  ASSUME CondTypeOK, NEW p \in Proc,
         \/ \E l \in Lid : P1_Lock(p, l) \/ P1_Unlock(p, l) \/ \E n \in Name : P1_LockName(p, l, n)
         \/ UnlockReturn(p)
  PROVE  InuseKept
<1>0. locks \in [Lid -> Lock] BY DEF CondTypeOK
<1>1. ASSUME NEW l \in Lid, P1_Lock(p, l) PROVE InuseKept
  <2>1. CASE locks' = [locks EXCEPT ![l] = [@ EXCEPT !.state = "BUSY", !.pid = p]]
    BY <1>0, <2>1 DEF InuseKept, Lock
  <2>2. CASE locks' = [locks EXCEPT ![l].pidQueue = Enqueue(l, p)]
    BY <1>0, <2>2 DEF InuseKept, Lock
  <2> QED BY <1>1, <2>1, <2>2 DEF P1_Lock
<1>2. ASSUME NEW l \in Lid, P1_Unlock(p, l) PROVE InuseKept
  <2>1. locks' = [locks EXCEPT ![l].state = "FREE"] BY <1>2 DEF P1_Unlock
  <2> QED BY <1>0, <2>1 DEF InuseKept, Lock
<1>3. ASSUME NEW l \in Lid, NEW n \in Name, P1_LockName(p, l, n) PROVE InuseKept
  BY <1>0, <1>3 DEF P1_LockName, InuseKept, Lock
<1>4. ASSUME UnlockReturn(p) PROVE InuseKept BY <1>4 DEF UnlockReturn, InuseKept
<1> QED BY <1>1, <1>2, <1>3, <1>4

\* A lock that P1_LockCreate creates had a free slot, and is in use afterwards.
LEMMA CreateInuse ==
  ASSUME CondTypeOK, NEW p \in Proc, NEW n \in Name, P1_LockCreate(p, n)
  PROVE  \/ locks' = locks
         \/ /\ Created /\ FirstFree \in Lid /\ ~locks[FirstFree].inuse
            /\ locks'[FirstFree].inuse
            /\ \A l \in Lid \ {FirstFree} : locks'[l].inuse = locks[l].inuse
<1>0. locks \in [Lid -> Lock] BY DEF CondTypeOK
<1>1. CASE CreateMaySucceed(n)
           /\ locks' = [locks EXCEPT ![FirstFree] = [@ EXCEPT !.inuse = TRUE, !.name = n]]
  <2>1. PICK m \in Lid : m = FirstFree /\ ~locks[m].inuse
    BY <1>1, FirstFreeIsFree DEF CreateMaySucceed, FreeSlots
  <2>2. locks'[m].inuse = TRUE /\ \A l \in Lid \ {m} : locks'[l].inuse = locks[l].inuse
    BY <1>0, <1>1, <2>1 DEF Lock
  <2>3. Created BY <2>1, <2>2 DEF Created
  <2> QED BY <2>1, <2>2, <2>3
<1> QED BY <1>1 DEF P1_LockCreate

LEMMA MarksStep ==
  SyncInv /\ [SyncNext]_syncVars => MarksTyped' /\ MarkedInUse' /\ KernelLocksKept'
<1> SUFFICES ASSUME SyncInv, [SyncNext]_syncVars
             PROVE  MarksTyped' /\ MarkedInUse' /\ KernelLocksKept'
  OBVIOUS
<1>0. CondTypeOK /\ MarksTyped /\ MarkedInUse /\ KernelLocksKept BY DEF SyncInv, CondInv
<1>1. ASSUME InuseKept, UNCHANGED <<UserLockLID, kernelLocks>>, UserCondVID' \subseteq CondId
      PROVE  MarksTyped' /\ MarkedInUse' /\ KernelLocksKept'
  BY <1>0, <1>1 DEF MarksTyped, MarkedInUse, KernelLocksKept, InuseKept
<1>2. CondIndex \in CondId BY CondsAssumption DEF CondsAssumption, CondIndex, CondId
<1>3. ASSUME NEW p \in Proc, Stub(p) PROVE MarksTyped' /\ MarkedInUse' /\ KernelLocksKept'
  <2>1. ASSUME NEW n \in Name, LockCreateStub(p, n)
        PROVE  MarksTyped' /\ MarkedInUse' /\ KernelLocksKept'
    <3>1. PICK m \in Lid : /\ m = FirstFree /\ ~locks[m].inuse /\ locks'[m].inuse
                           /\ \A l \in Lid \ {m} : locks'[l].inuse = locks[l].inuse
      BY <1>0, <2>1, CreateInuse DEF LockCreateStub, Created
    <3>2. /\ UserLockLID' = UserLockLID \cup {m}
          /\ UNCHANGED <<UserCondVID, kernelLocks>>
      BY <2>1, <3>1 DEF LockCreateStub
    <3>3. m \notin kernelLocks BY <1>0, <3>1 DEF KernelLocksKept
    <3> QED BY <1>0, <3>1, <3>2, <3>3 DEF MarksTyped, MarkedInUse, KernelLocksKept
  <2>2. ASSUME NEW l \in Lid, LockAcquireStub(p, l) \/ LockReleaseStub(p, l)
        PROVE  MarksTyped' /\ MarkedInUse' /\ KernelLocksKept'
    <3>1. InuseKept
      BY <1>0, <2>2, LockCallsKeepInuse DEF LockAcquireStub, LockReleaseStub
    <3>2. UNCHANGED markVars BY <2>2 DEF LockAcquireStub, LockReleaseStub
    <3> QED BY <1>0, <1>1, <3>1, <3>2 DEF markVars, MarksTyped
  <2>3. ASSUME NEW l \in Lid, LockFreeStub(p, l)
        PROVE  MarksTyped' /\ MarkedInUse' /\ KernelLocksKept'
    <3>1. l \in UserLockLID /\ l \notin kernelLocks
      BY <1>0, <2>3 DEF LockFreeStub, KernelLocksKept
    <3>2. locks' = [locks EXCEPT ![l] = FreeLock] BY <2>3 DEF LockFreeStub, P1_LockFree
    <3>3. UserLockLID' = UserLockLID \ {l} /\ UNCHANGED <<UserCondVID, kernelLocks>>
      BY <2>3 DEF LockFreeStub, Unmarked
    <3>4. \A k \in Lid \ {l} : locks'[k] = locks[k] BY <1>0, <3>2 DEF CondTypeOK
    <3> QED BY <1>0, <3>1, <3>3, <3>4 DEF MarksTyped, MarkedInUse, KernelLocksKept
  <2>4. ASSUME NEW l \in Lid, NEW n \in Name, LockNameStub(p, l, n)
        PROVE  MarksTyped' /\ MarkedInUse' /\ KernelLocksKept'
    <3>1. InuseKept BY <1>0, <2>4, LockCallsKeepInuse DEF LockNameStub
    <3>2. UNCHANGED markVars BY <2>4 DEF LockNameStub
    <3> QED BY <1>0, <1>1, <3>1, <3>2 DEF markVars, MarksTyped
  <2>5. ASSUME NEW l \in Lid, NEW n \in Name, CondCreateStub(p, n, l)
        PROVE  MarksTyped' /\ MarkedInUse' /\ KernelLocksKept'
    <3>1. InuseKept BY <1>0, <2>5, CondCallsKeepInuse DEF CondCreateStub, CondTable
    <3>2. UserCondVID' \subseteq CondId BY <1>0, <1>2, <2>5 DEF CondCreateStub, MarksTyped
    <3> QED BY <1>1, <2>5, <3>1, <3>2 DEF CondCreateStub
  <2>6. ASSUME NEW v \in CondId, CondUseStub(p, v)
        PROVE  MarksTyped' /\ MarkedInUse' /\ KernelLocksKept'
    <3>1. InuseKept BY <1>0, <2>6, CondCallsKeepInuse DEF CondUseStub, CondUse
    <3>2. UNCHANGED markVars BY <2>6 DEF CondUseStub
    <3> QED BY <1>0, <1>1, <3>1, <3>2 DEF markVars, MarksTyped
  <2>7. ASSUME NEW v \in CondId, CondFreeStub(p, v)
        PROVE  MarksTyped' /\ MarkedInUse' /\ KernelLocksKept'
    <3>1. InuseKept BY <1>0, <2>7, CondCallsKeepInuse DEF CondFreeStub, CondTable
    <3>2. UserCondVID' \subseteq CondId BY <1>0, <2>7 DEF CondFreeStub, MarksTyped
    <3> QED BY <1>1, <2>7, <3>1, <3>2 DEF CondFreeStub
  <2>8. ASSUME NEW v \in CondId, NEW n \in Name, CondNameStub(p, v, n)
        PROVE  MarksTyped' /\ MarkedInUse' /\ KernelLocksKept'
    <3>1. InuseKept BY <1>0, <2>8, CondCallsKeepInuse DEF CondNameStub, CondTable
    <3>2. UNCHANGED markVars BY <2>8 DEF CondNameStub
    <3> QED BY <1>0, <1>1, <3>1, <3>2 DEF markVars, MarksTyped
  <2> QED BY <1>3, <2>1, <2>2, <2>3, <2>4, <2>5, <2>6, <2>7, <2>8 DEF Stub
<1>4. ASSUME NEW p \in Proc, KernelCreates(p)
      PROVE  MarksTyped' /\ MarkedInUse' /\ KernelLocksKept'
  <2>1. ASSUME NEW n \in Name, P1_LockCreate(p, n), UNCHANGED <<UserLockLID, UserCondVID>>,
               kernelLocks' = IF Created THEN kernelLocks \cup {FirstFree} ELSE kernelLocks
        PROVE  MarksTyped' /\ MarkedInUse' /\ KernelLocksKept'
    <3>1. CASE locks' = locks
      <4>1. InuseKept /\ kernelLocks' = kernelLocks BY <2>1, <3>1 DEF InuseKept, Created
      <4> QED BY <1>0, <1>1, <2>1, <4>1 DEF MarksTyped
    <3>2. CASE locks' # locks
      <4>1. PICK m \in Lid : /\ m = FirstFree /\ ~locks[m].inuse /\ locks'[m].inuse
                             /\ \A l \in Lid \ {m} : locks'[l].inuse = locks[l].inuse
        BY <1>0, <2>1, <3>2, CreateInuse
      <4>2. kernelLocks' = kernelLocks \cup {m} BY <2>1, <3>2, <4>1 DEF Created
      <4>3. m \notin UserLockLID BY <1>0, <4>1 DEF MarkedInUse
      <4> QED BY <1>0, <2>1, <4>1, <4>2, <4>3 DEF MarksTyped, MarkedInUse, KernelLocksKept
    <3> QED BY <3>1, <3>2
  <2>2. ASSUME NEW n \in Name, NEW l \in Lid, P1_CondCreate(p, n, l), UNCHANGED markVars
        PROVE  MarksTyped' /\ MarkedInUse' /\ KernelLocksKept'
    <3>1. InuseKept BY <1>0, <2>2, CondCallsKeepInuse DEF CondTable
    <3> QED BY <1>0, <1>1, <2>2, <3>1 DEF markVars, MarksTyped
  <2> QED BY <1>4, <2>1, <2>2 DEF KernelCreates
<1>5. ASSUME NEW p \in Proc, KernelUses(p)
      PROVE  MarksTyped' /\ MarkedInUse' /\ KernelLocksKept'
  <2>1. held[p] \subseteq Lid BY <1>0 DEF CondTypeOK
  <2>2. InuseKept
    BY <1>0, <1>5, <2>1, CondCallsKeepInuse, LockCallsKeepInuse DEF KernelUses, LockUse
  <2> QED BY <1>0, <1>1, <1>5, <2>2 DEF KernelUses, markVars, MarksTyped
<1>6. CASE UNCHANGED locks /\ UNCHANGED markVars
  BY <1>0, <1>1, <1>6 DEF InuseKept, markVars, MarksTyped
<1>7. KernelProc \subseteq Proc /\ UserProc \subseteq Proc
  BY UserSyncAssumption DEF UserSyncAssumption
<1> QED BY <1>3, <1>4, <1>5, <1>6, <1>7
        DEF SyncNext, Interrupted, P1_NakedSignal, ClockDispatch, syncVars, condVars, lockVars

------------------------------------------------------------------------------
(* The theorems.                                                             *)

LEMMA SyncInvariance == SyncSpec => []SyncInv
<1>1. SyncInit => SyncInv
  BY CondInvInit DEF SyncInit, SyncInv, MarksTyped, MarkedInUse, KernelLocksKept
<1>2. SyncInv /\ [SyncNext]_syncVars => SyncInv'
  <2> SUFFICES ASSUME SyncInv, [SyncNext]_syncVars PROVE SyncInv'
    OBVIOUS
  <2>1. CondInv /\ CondTypeOK BY DEF SyncInv, CondInv
  <2>2. CondInv' BY <2>1, SyncIsAnyCall, CondInvStep
  <2> QED BY <2>2, MarksStep DEF SyncInv
<1> QED BY <1>1, <1>2, PTL DEF SyncSpec

\* Every variable of phases 1c and 2d keeps its type.
THEOREM SyncTypeCorrect == SyncSpec => []SyncTypeOK
<1>1. SyncInv => SyncTypeOK BY DEF SyncInv, CondInv, MarksTyped, SyncTypeOK
<1> QED BY <1>1, SyncInvariance, PTL

\* No user can lock, release, free or rename a lock that the kernel created
\* (phase2d.c), although slots are handed from one to the other.
THEOREM KernelLocksOutOfReach == SyncSpec => []KernelLocksKept
<1>1. SyncInv => KernelLocksKept BY DEF SyncInv
<1> QED BY <1>1, SyncInvariance, PTL

\* Whoever is blocked stands in the queue of a lock, with the stubs of phase2d.c
\* and the kernel as the clients of phase1c.c, and also when a wake-up reads
\* nextLock uninitialised (phase1c.c:520).
THEOREM UsersStayQueued == SyncSpec => []BlockedIsQueued
<1>1. SyncInv => BlockedIsQueued BY DEF SyncInv, CondInv
<1> QED BY <1>1, SyncInvariance, PTL

\* To kernel and users together phase1c.c is a Monitor.
THEOREM SyncRefinesMonitor == SyncSpec => ImplementsMonitor
<1>1. SyncInv => CondTypeOK BY DEF SyncInv, CondInv
<1>2. SyncInit => CondInit BY DEF SyncInit
<1>3. CondTypeOK /\ [SyncNext]_syncVars => [AnyCall]_condVars BY SyncIsAnyCall
<1>4. SyncSpec => AnyClients BY <1>1, <1>2, <1>3, SyncInvariance, PTL DEF SyncSpec, AnyClients
<1> QED BY <1>4, CallsRefineMonitor

===============================================================================
