----------------------------- MODULE LocksProofs -----------------------------
(***************************************************************************)
(* What holds of Locks for every set of processes, every number of locks   *)
(* and names, and both readings of P1SetState.                             *)
(***************************************************************************)
EXTENDS Locks, TLAPS

\* Only a ready process has the CPU.
RunningReady == running # Idle => pstate[running] = "READY"

\* A lock that is BUSY has been got by the process it names.
BusyHasOwner ==
  \A l \in Lid : locks[l].state = "BUSY"
                   => locks[l].pid \in Proc /\ l \in held[locks[l].pid]

\* OwnerRecorded is not inductive alone: P1_LockFree clears a lock that its
\* caller need not hold.  BusyHasOwner is what the refinement needs, and
\* RunningReady is why a process that takes a lock is not BLOCKED.
LockInv == LockTypeOK /\ OwnerRecorded /\ BusyHasOwner /\ WaiterQueued /\ RunningReady

LEMMA IdleNotProc == Idle \notin Proc
BY LocksAssumption DEF LocksAssumption, Idle

\* The calls of each process keep within the lock table.
LEMMA FreeLockType == FreeLock \in Lock
BY DEF FreeLock, Lock

LEMMA CallsType ==
  NoCall \in Calls /\ \A o \in {"lock", "unlock"}, l \in Lid : InCall(o, l) \in Calls
BY DEF Calls

LEMMA LockUpdates ==
  ASSUME NEW lock \in Lock
  PROVE  /\ [lock EXCEPT !.state = "FREE"] \in Lock
         /\ \A p \in Nat : [lock EXCEPT !.state = "BUSY", !.pid = p] \in Lock
         /\ \A q \in Seq(Proc) : [lock EXCEPT !.pidQueue = q] \in Lock
         /\ \A n \in Name : /\ [lock EXCEPT !.name = n] \in Lock
                            /\ [lock EXCEPT !.inuse = TRUE, !.name = n] \in Lock
<1>1. [lock EXCEPT !.state = "FREE"] \in Lock BY DEF Lock
<1>2. ASSUME NEW p \in Nat PROVE [lock EXCEPT !.state = "BUSY", !.pid = p] \in Lock
  BY DEF Lock
<1>3. ASSUME NEW q \in Seq(Proc) PROVE [lock EXCEPT !.pidQueue = q] \in Lock BY DEF Lock
<1>4. ASSUME NEW n \in Name PROVE [lock EXCEPT !.name = n] \in Lock BY DEF Lock
<1>5. ASSUME NEW n \in Name PROVE [lock EXCEPT !.inuse = TRUE, !.name = n] \in Lock
  BY DEF Lock
<1> QED BY <1>1, <1>2, <1>3, <1>4, <1>5

\* LockTypeOK holds at the start and every call keeps it.
LEMMA LockTypeInit == LockInit => LockTypeOK
BY FreeLockType, CallsType DEF LockInit, P1LockInit, LockTypeOK

LEMMA LockTypeStep == LockTypeOK /\ [LockNext]_lockVars => LockTypeOK'
<1> SUFFICES ASSUME LockTypeOK, [LockNext]_lockVars
             PROVE  LockTypeOK'
  OBVIOUS
<1>0. /\ locks \in [Lid -> Lock] /\ running \in Proc \cup {Idle}
      /\ pstate \in [Proc -> {"READY", "BLOCKED"}] /\ intr \in [Proc -> BOOLEAN]
      /\ call \in [Proc -> Calls] /\ held \in [Proc -> SUBSET Lid]
  BY DEF LockTypeOK
<1>1. ASSUME ClockDispatch PROVE LockTypeOK'
  BY <1>0, <1>1 DEF ClockDispatch, P1Dispatch, Ready, LockTypeOK
<1>2. ASSUME NEW p \in Proc, NEW l \in Lid, P1_Lock(p, l) PROVE LockTypeOK'
  <2>1. locks' \in [Lid -> Lock]
    <3>1. p \in Nat BY LocksAssumption DEF LocksAssumption
    <3>2. Enqueue(l, p) \in Seq(Proc) BY <1>0 DEF Enqueue, Lock
    <3>3. [locks EXCEPT ![l] = [@ EXCEPT !.state = "BUSY", !.pid = p]] \in [Lid -> Lock]
      BY <1>0, <3>1, LockUpdates
    <3>4. [locks EXCEPT ![l].pidQueue = Enqueue(l, p)] \in [Lid -> Lock]
      BY <1>0, <3>2, LockUpdates
    <3> QED BY <1>2, <3>3, <3>4 DEF P1_Lock
  <2>2. pstate' \in [Proc -> {"READY", "BLOCKED"}]
    BY <1>0, <1>2 DEF P1_Lock, P1SetState
  <2>3. running' \in Proc \cup {Idle} BY <1>0, <1>2 DEF P1_Lock, P1Dispatch, Ready
  <2>4. call' \in [Proc -> Calls]
    <3>1. call' = [call EXCEPT ![p] = InCall("lock", l)] \/ call' = [call EXCEPT ![p] = NoCall]
      BY <1>2 DEF P1_Lock
    <3> QED BY <1>0, <3>1, CallsType
  <2>5. held' \in [Proc -> SUBSET Lid] BY <1>0, <1>2 DEF P1_Lock
  <2>6. intr' \in [Proc -> BOOLEAN] BY <1>0, <1>2 DEF P1_Lock
  <2> QED BY <2>1, <2>2, <2>3, <2>4, <2>5, <2>6 DEF LockTypeOK
<1>3. ASSUME NEW p \in Proc, NEW l \in Lid \cup {BadLid}, P1_Unlock(p, l) PROVE LockTypeOK'
  <2>1. CASE l \notin Lid
    BY <1>0, <1>3, <2>1 DEF P1_Unlock, P1DisableInterrupts, LockTypeOK
  <2>2. CASE l \in Lid
    <3>1. locks' \in [Lid -> Lock]
      <4>1. locks' = [locks EXCEPT ![l].state = "FREE"] BY <1>3, <2>2 DEF P1_Unlock
      <4> QED BY <1>0, <2>2, <4>1, LockUpdates
    <3>2. pstate' \in [Proc -> {"READY", "BLOCKED"}]
      BY <1>0, <1>3, <2>2 DEF P1_Unlock, P1SetState
    <3>3. running' \in Proc \cup {Idle} BY <1>0, <1>3, <2>2 DEF P1_Unlock, P1Dispatch, Ready
    <3>4. intr' \in [Proc -> BOOLEAN]
      BY <1>0, <1>3, <2>2 DEF P1_Unlock, P1DisableInterrupts, P1EnableInterrupts
    <3>5. call' \in [Proc -> Calls]
      <4>1. call' = [call EXCEPT ![p] = InCall("unlock", l)] \/ call' = call
        BY <1>3, <2>2 DEF P1_Unlock
      <4> QED BY <1>0, <2>2, <4>1, CallsType
    <3>6. held' \in [Proc -> SUBSET Lid] BY <1>0, <1>3, <2>2 DEF P1_Unlock
    <3> QED BY <3>1, <3>2, <3>3, <3>4, <3>5, <3>6 DEF LockTypeOK
  <2> QED BY <2>1, <2>2
<1>4. ASSUME NEW p \in Proc, UnlockReturn(p) PROVE LockTypeOK'
  BY <1>0, <1>4, CallsType DEF UnlockReturn, P1EnableInterrupts, LockTypeOK
<1>5. ASSUME NEW p \in Proc, NEW n \in Name \cup {NullName}, P1_LockCreate(p, n)
      PROVE LockTypeOK'
  <2>1. intr' \in [Proc -> BOOLEAN] BY <1>0, <1>5 DEF P1_LockCreate, P1DisableInterrupts
  <2>2. locks' \in [Lid -> Lock]
    <3>1. CASE CreateMaySucceed(n)
               /\ locks' = [locks EXCEPT ![FirstFree] = [@ EXCEPT !.inuse = TRUE, !.name = n]]
      <4>1. n \in Name BY <3>1 DEF CreateMaySucceed
      <4> QED BY <1>0, <3>1, <4>1, LockUpdates
    <3> QED BY <1>0, <1>5, <3>1 DEF P1_LockCreate
  <2> QED BY <1>0, <1>5, <2>1, <2>2 DEF P1_LockCreate, LockTypeOK
<1>6. ASSUME NEW p \in Proc, NEW l \in Lid \cup {BadLid}, P1_LockFree(p, l)
      PROVE LockTypeOK'
  BY <1>0, <1>6, FreeLockType DEF P1_LockFree, P1DisableInterrupts, LockTypeOK
<1>7. ASSUME NEW p \in Proc, NEW l \in Lid, NEW n \in Name, P1_LockName(p, l, n)
      PROVE LockTypeOK'
  <2>1. locks' \in [Lid -> Lock] BY <1>0, <1>7, LockUpdates DEF P1_LockName
  <2> QED BY <1>0, <1>7, <2>1 DEF P1_LockName, LockTypeOK
<1>8. CASE UNCHANGED lockVars
  BY <1>0, <1>8 DEF lockVars, LockTypeOK
<1>9. ASSUME NEW p \in Proc, NEW l \in held[p] PROVE l \in Lid
  BY <1>0, <1>9
<1> QED
  BY <1>1, <1>2, <1>3, <1>4, <1>5, <1>6, <1>7, <1>8, <1>9
  DEF LockNext, LockUse, LockTable, LockRename

\* Every variable of the lock half of phase1c.c keeps its type.
THEOREM LockTypeCorrect == LockSpec => []LockTypeOK
<1>1. LockInit => LockTypeOK BY LockTypeInit
<1>2. LockTypeOK /\ [LockNext]_lockVars => LockTypeOK' BY LockTypeStep
<1> QED BY <1>1, <1>2, PTL DEF LockSpec

------------------------------------------------------------------------------
(* The invariant, one conjunct at a time. *)

LEMMA LockInvInit == LockInit => LockInv
<1> SUFFICES ASSUME LockInit PROVE LockInv
  OBVIOUS
<1>1. LockTypeOK BY LockTypeInit
<1>2. \A p \in Proc : held[p] = {} /\ call[p] = NoCall /\ pstate[p] = "READY"
  BY DEF LockInit
<1>3. \A l \in Lid : locks[l].state = "FREE" BY DEF LockInit, P1LockInit, FreeLock
<1>4. RunningReady BY <1>2 DEF LockInit, RunningReady
<1>5. WaiterQueued BY <1>2 DEF WaiterQueued, NoCall
<1> QED BY <1>1, <1>2, <1>3, <1>4, <1>5 DEF LockInv, OwnerRecorded, BusyHasOwner

\* Whoever the dispatcher picks is ready.
LEMMA DispatchReady ==
  P1Dispatch => (running' # Idle => pstate'[running'] = "READY")
BY DEF P1Dispatch, Ready

LEMMA RunningReadyStep == LockInv /\ [LockNext]_lockVars => RunningReady'
<1> SUFFICES ASSUME LockInv, [LockNext]_lockVars PROVE RunningReady'
  OBVIOUS
<1>1. CASE P1Dispatch BY <1>1, DispatchReady DEF RunningReady
<1>2. CASE UNCHANGED <<running, pstate>> BY <1>2 DEF LockInv, RunningReady
<1> QED BY <1>1, <1>2 DEF LockNext, ClockDispatch, LockUse, LockTable, LockRename, P1_Lock,
          P1_Unlock, UnlockReturn, P1_LockCreate, P1_LockFree, P1_LockName, lockVars

\* No call but P1_Lock, P1_Unlock and P1_LockFree touches the fields state
\* and pid of a lock, or the history.
OwnersKept ==
  /\ held' = held
  /\ \A l \in Lid : locks'[l].state = locks[l].state /\ locks'[l].pid = locks[l].pid

LEMMA OthersKeepOwners ==
  ASSUME LockTypeOK, NEW p \in Proc,
         \/ ClockDispatch \/ UnlockReturn(p) \/ P1_Unlock(p, BadLid) \/ UNCHANGED lockVars
         \/ \E n \in Name \cup {NullName} : P1_LockCreate(p, n)
         \/ \E l \in Lid, n \in Name : P1_LockName(p, l, n)
  PROVE  OwnersKept
<1>0. locks \in [Lid -> Lock] BY DEF LockTypeOK
<1>1. CASE UNCHANGED <<locks, held>> BY <1>1 DEF OwnersKept
<1>2. ASSUME NEW n \in Name \cup {NullName}, P1_LockCreate(p, n) PROVE OwnersKept
  <2>1. CASE locks' = [locks EXCEPT ![FirstFree] = [@ EXCEPT !.inuse = TRUE, !.name = n]]
    BY <1>0, <1>2, <2>1 DEF P1_LockCreate, OwnersKept, Lock
  <2> QED BY <1>1, <1>2, <2>1 DEF P1_LockCreate
<1>3. ASSUME NEW l \in Lid, NEW n \in Name, P1_LockName(p, l, n) PROVE OwnersKept
  BY <1>0, <1>3 DEF P1_LockName, OwnersKept, Lock
<1>4. BadLid \notin Lid BY LocksAssumption DEF LocksAssumption, BadLid, Lid
<1> QED BY <1>1, <1>2, <1>3, <1>4 DEF ClockDispatch, UnlockReturn, P1_Unlock, lockVars

\* What P1_Lock, P1_Unlock and P1_LockFree do to the owners.
LEMMA OwnerSteps ==
  ASSUME LockInv, NEW p \in Proc, NEW l \in Lid,
         P1_Lock(p, l) \/ (l \in held[p] /\ P1_Unlock(p, l))
           \/ ((\A q \in Proc \ {p} : l \notin held[q]) /\ P1_LockFree(p, l))
  PROVE  /\ \A k \in Lid \ {l} : locks'[k] = locks[k]
         /\ \/ OwnersKept
            \/ /\ locks[l].state = "FREE" /\ locks'[l].state = "BUSY" /\ locks'[l].pid = p
               /\ held' = [held EXCEPT ![p] = @ \cup {l}]
            \/ /\ \A q \in Proc \ {p} : l \notin held[q]
               /\ locks'[l].state = "FREE"
               /\ held' = [held EXCEPT ![p] = @ \ {l}]
<1>0. locks \in [Lid -> Lock] /\ held \in [Proc -> SUBSET Lid] BY DEF LockInv, LockTypeOK
<1>1. CASE P1_Lock(p, l)
  <2>1. CASE IsFree(l) /\ held' = [held EXCEPT ![p] = @ \cup {l}]
             /\ locks' = [locks EXCEPT ![l] = [@ EXCEPT !.state = "BUSY", !.pid = p]]
    BY <1>0, <2>1 DEF IsFree, Lock
  <2>2. CASE locks' = [locks EXCEPT ![l].pidQueue = Enqueue(l, p)] /\ UNCHANGED held
    BY <1>0, <2>2 DEF OwnersKept, Lock
  <2> QED BY <1>1, <2>1, <2>2 DEF P1_Lock
<1>2. CASE l \in held[p] /\ P1_Unlock(p, l)
  <2>1. locks' = [locks EXCEPT ![l].state = "FREE"] /\ held' = [held EXCEPT ![p] = @ \ {l}]
    BY <1>2 DEF P1_Unlock
  <2>2. \A q \in Proc \ {p} : l \notin held[q] BY <1>2 DEF LockInv, OwnerRecorded
  <2> QED BY <1>0, <2>1, <2>2 DEF Lock
<1>3. CASE (\A q \in Proc \ {p} : l \notin held[q]) /\ P1_LockFree(p, l)
  <2>1. CASE locks' = [locks EXCEPT ![l] = FreeLock] /\ held' = [held EXCEPT ![p] = @ \ {l}]
    BY <1>0, <1>3, <2>1 DEF FreeLock
  <2>2. CASE UNCHANGED <<locks, held>> BY <2>2 DEF OwnersKept
  <2> QED BY <1>3, <2>1, <2>2 DEF P1_LockFree
<1> QED BY <1>1, <1>2, <1>3

\* Every step is one of those.
LEMMA OwnerCases ==
  ASSUME LockInv, [LockNext]_lockVars
  PROVE  \/ OwnersKept
         \/ \E p \in Proc, l \in Lid :
              \/ P1_Lock(p, l) \/ (l \in held[p] /\ P1_Unlock(p, l))
              \/ (\A q \in Proc \ {p} : l \notin held[q]) /\ P1_LockFree(p, l)
<1>1. LockTypeOK /\ held \in [Proc -> SUBSET Lid] BY DEF LockInv, LockTypeOK
<1>2. CASE UNCHANGED lockVars BY <1>2 DEF lockVars, OwnersKept
<1>3. CASE ClockDispatch BY <1>3 DEF ClockDispatch, OwnersKept
<1>4. ASSUME NEW p \in Proc, P1_LockFree(p, BadLid) PROVE OwnersKept
  <2>1. BadLid \notin Lid BY LocksAssumption DEF LocksAssumption, BadLid, Lid
  <2> QED BY <1>4, <2>1 DEF P1_LockFree, RefusesToFree, OwnersKept
<1>5. ASSUME NEW p \in Proc, LockUse(p) \/ LockTable(p) \/ LockRename(p)
      PROVE  \/ OwnersKept
             \/ \E l \in Lid :
                  \/ P1_Lock(p, l) \/ (l \in held[p] /\ P1_Unlock(p, l))
                  \/ (\A q \in Proc \ {p} : l \notin held[q]) /\ P1_LockFree(p, l)
  BY <1>1, <1>4, <1>5, OthersKeepOwners DEF LockUse, LockTable, LockRename
<1> QED BY <1>2, <1>3, <1>5 DEF LockNext

LEMMA OwnerStep ==
  LockInv /\ [LockNext]_lockVars => OwnerRecorded' /\ BusyHasOwner'
<1> SUFFICES ASSUME LockInv, [LockNext]_lockVars PROVE OwnerRecorded' /\ BusyHasOwner'
  OBVIOUS
<1>0. /\ held \in [Proc -> SUBSET Lid] /\ OwnerRecorded /\ BusyHasOwner
      /\ held' \in [Proc -> SUBSET Lid]
  BY LockTypeStep DEF LockInv, LockTypeOK
<1>1. CASE OwnersKept
  <2>1. OwnerRecorded' BY <1>0, <1>1 DEF OwnersKept, OwnerRecorded
  <2>2. BusyHasOwner' BY <1>0, <1>1 DEF OwnersKept, BusyHasOwner
  <2> QED BY <2>1, <2>2
<1>2. ASSUME NEW p \in Proc, NEW l \in Lid,
             P1_Lock(p, l) \/ (l \in held[p] /\ P1_Unlock(p, l))
               \/ ((\A q \in Proc \ {p} : l \notin held[q]) /\ P1_LockFree(p, l))
      PROVE  OwnerRecorded' /\ BusyHasOwner'
  <2>1. \A k \in Lid \ {l} : locks'[k] = locks[k] BY <1>2, OwnerSteps
  <2>2. CASE /\ locks[l].state = "FREE" /\ locks'[l].state = "BUSY" /\ locks'[l].pid = p
             /\ held' = [held EXCEPT ![p] = @ \cup {l}]
    <3>1. \A q \in Proc : l \notin held[q] BY <1>0, <2>2 DEF OwnerRecorded
    <3>2. OwnerRecorded' BY <1>0, <2>1, <2>2, <3>1 DEF OwnerRecorded
    <3>3. BusyHasOwner' BY <1>0, <2>1, <2>2 DEF BusyHasOwner
    <3> QED BY <3>2, <3>3
  <2>3. CASE /\ \A q \in Proc \ {p} : l \notin held[q]
             /\ locks'[l].state = "FREE"
             /\ held' = [held EXCEPT ![p] = @ \ {l}]
    <3>1. OwnerRecorded' BY <1>0, <2>1, <2>3 DEF OwnerRecorded
    <3>2. BusyHasOwner' BY <1>0, <2>1, <2>3 DEF BusyHasOwner
    <3> QED BY <3>1, <3>2
  <2> QED BY <1>1, <1>2, <2>2, <2>3, OwnerSteps
<1> QED BY <1>1, <1>2, OwnerCases

\* Standing in a queue: an Append keeps those in it and adds one.
LEMMA QueuedAppend ==
  ASSUME NEW s \in Seq(Proc), NEW p \in Proc
  PROVE  {Append(s, p)[i] : i \in 1 .. Len(Append(s, p))} = {s[i] : i \in 1 .. Len(s)} \cup {p}
<1>1. Append(s, p)[Len(s) + 1] = p /\ \A i \in 1 .. Len(s) : Append(s, p)[i] = s[i]
  OBVIOUS
<1>2. Len(Append(s, p)) = Len(s) + 1 /\ Len(s) \in Nat
  OBVIOUS
<1>3. 1 .. Len(s) + 1 = 1 .. Len(s) \cup {Len(s) + 1} BY <1>2
<1> QED BY <1>1, <1>2, <1>3

QueuesKept == \A l \in Lid : locks'[l].pidQueue = locks[l].pidQueue

\* A process that is ready or leaves its call alone keeps its place in line.
LEMMA KeepsPlace ==
  ASSUME LockInv, QueuesKept, NEW p \in Proc, call' = call \/ running = p,
         \A q \in Proc \ {p} : call'[q] = call[q],
         call'[p].op = "lock" => call'[p] = call[p],
         \A q \in Proc : pstate'[q] = "BLOCKED" => pstate[q] = "BLOCKED"
  PROVE  WaiterQueued'
<1>1. \A l \in Lid : Queued(l)' = Queued(l) BY DEF QueuesKept, Queued
<1>2. \A q \in Proc : call[q].op = "lock" => call[q].lid \in Lid
  BY DEF LockInv, LockTypeOK, Calls, NoCall, InCall
<1>3. running = p => pstate[p] # "BLOCKED"
  BY IdleNotProc DEF LockInv, RunningReady
<1> QED BY <1>1, <1>2, <1>3 DEF LockInv, WaiterQueued

LEMMA WaiterStep == LockInv /\ [LockNext]_lockVars => WaiterQueued'
<1> SUFFICES ASSUME LockInv, [LockNext]_lockVars PROVE WaiterQueued'
  OBVIOUS
<1>0. /\ locks \in [Lid -> Lock] /\ call \in [Proc -> Calls]
      /\ pstate \in [Proc -> {"READY", "BLOCKED"}] /\ WaiterQueued
      /\ \A p \in Proc : running = p => pstate[p] = "READY"
      /\ \A p \in Proc : call[p].op = "lock" => call[p].lid \in Lid
  BY IdleNotProc DEF LockInv, LockTypeOK, RunningReady, Calls, NoCall, InCall
<1>1. CASE QueuesKept /\ UNCHANGED <<pstate, call>>
  <2>1. \A l \in Lid : Queued(l)' = Queued(l) BY <1>1 DEF QueuesKept, Queued
  <2> QED BY <1>0, <1>1, <2>1 DEF WaiterQueued
<1>2. ASSUME NEW p \in Proc, NEW l \in Lid, P1_Lock(p, l) PROVE WaiterQueued'
  <2>1. running = p BY <1>2 DEF P1_Lock
  <2>2. CASE /\ locks' = [locks EXCEPT ![l] = [@ EXCEPT !.state = "BUSY", !.pid = p]]
             /\ call' = [call EXCEPT ![p] = NoCall] /\ UNCHANGED pstate
    <3>1. QueuesKept BY <1>0, <2>2 DEF QueuesKept, Lock
    <3>2. call'[p].op # "lock" BY <1>0, <2>2 DEF NoCall
    <3> QED BY <1>0, <2>1, <2>2, <3>1, <3>2, KeepsPlace
  <2>3. CASE /\ pstate' \in P1SetState(p, "BLOCKED")
             /\ locks' = [locks EXCEPT ![l].pidQueue = Enqueue(l, p)]
             /\ call' = [call EXCEPT ![p] = InCall("lock", l)]
    <3>1. locks[l].pidQueue \in Seq(Proc) BY <1>0 DEF Lock
    <3>2. locks'[l].pidQueue = Append(locks[l].pidQueue, p)
      BY <1>0, <2>3 DEF Enqueue, Lock
    <3>3. \A k \in Lid \ {l} : Queued(k)' = Queued(k) BY <1>0, <2>3 DEF Queued
    <3>4. Queued(l)' = Queued(l) \cup {p} BY <3>1, <3>2, QueuedAppend DEF Queued
    <3>5. \A q \in Proc \ {p} : call'[q] = call[q] /\ pstate'[q] = pstate[q]
      BY <1>0, <2>3 DEF P1SetState
    <3>6. call'[p].op = "lock" /\ call'[p].lid = l BY <1>0, <2>3 DEF InCall
    <3> QED BY <1>0, <3>3, <3>4, <3>5, <3>6 DEF WaiterQueued
  <2> QED BY <1>2, <2>2, <2>3 DEF P1_Lock
<1>3. ASSUME NEW p \in Proc, NEW l \in Lid \cup {BadLid}, P1_Unlock(p, l) PROVE WaiterQueued'
  <2>1. running = p /\ call[p] = NoCall BY <1>3 DEF P1_Unlock, InClient
  <2>2. QueuesKept
    <3>1. locks' = locks \/ (l \in Lid /\ locks' = [locks EXCEPT ![l].state = "FREE"])
      BY <1>3 DEF P1_Unlock
    <3>2. CASE l \in Lid /\ locks' = [locks EXCEPT ![l].state = "FREE"]
      <4> SUFFICES ASSUME NEW k \in Lid PROVE locks'[k].pidQueue = locks[k].pidQueue
        BY DEF QueuesKept
      <4> QED BY <1>0, <3>2 DEF Lock
    <3> QED BY <3>1, <3>2 DEF QueuesKept
  <2>3. call' = call \/ call' = [call EXCEPT ![p] = InCall("unlock", l)]
    BY <1>3 DEF P1_Unlock
  <2>4. \A q \in Proc : pstate'[q] = "BLOCKED" => pstate[q] = "BLOCKED"
    BY <1>0, <1>3 DEF P1_Unlock, P1SetState
  <2>5. call'[p].op # "lock" BY <1>0, <2>1, <2>3 DEF InCall, NoCall
  <2> QED BY <1>0, <2>1, <2>2, <2>3, <2>4, <2>5, KeepsPlace
<1>4. ASSUME NEW p \in Proc, UnlockReturn(p) PROVE WaiterQueued'
  <2>1. QueuesKept /\ UNCHANGED pstate /\ running = p BY <1>4 DEF UnlockReturn, QueuesKept
  <2>2. call' = [call EXCEPT ![p] = NoCall] BY <1>4 DEF UnlockReturn
  <2>3. call'[p].op # "lock" BY <1>0, <2>2 DEF NoCall
  <2> QED BY <1>0, <2>1, <2>2, <2>3, KeepsPlace
<1>5. ASSUME NEW p \in Proc, NEW l \in Lid \cup {BadLid}, P1_LockFree(p, l) PROVE WaiterQueued'
  <2>1. CASE UNCHANGED locks BY <1>1, <1>5, <2>1 DEF P1_LockFree, QueuesKept
  <2>2. CASE ~RefusesToFree(l) /\ locks' = [locks EXCEPT ![l] = FreeLock]
    <3>1. l \in Lid /\ locks[l].pidQueue = <<>> BY <2>2 DEF RefusesToFree, HasWaiters
    <3>2. Queued(l) = {} BY <3>1 DEF Queued
    <3>3. \A k \in Lid \ {l} : Queued(k)' = Queued(k) BY <1>0, <2>2 DEF Queued
    <3>4. UNCHANGED <<pstate, call>> BY <1>5 DEF P1_LockFree
    <3> QED BY <1>0, <3>1, <3>2, <3>3, <3>4 DEF WaiterQueued
  <2> QED BY <1>5, <2>1, <2>2 DEF P1_LockFree
<1>6. ASSUME NEW p \in Proc, NEW n \in Name \cup {NullName}, P1_LockCreate(p, n)
      PROVE WaiterQueued'
  <2>1. locks' = locks
        \/ locks' = [locks EXCEPT ![FirstFree] = [@ EXCEPT !.inuse = TRUE, !.name = n]]
    BY <1>6 DEF P1_LockCreate
  <2>2. QueuesKept
    <3> SUFFICES ASSUME NEW k \in Lid PROVE locks'[k].pidQueue = locks[k].pidQueue
      BY DEF QueuesKept
    <3>1. CASE locks' = [locks EXCEPT ![FirstFree] = [@ EXCEPT !.inuse = TRUE, !.name = n]]
      BY <1>0, <3>1 DEF Lock
    <3> QED BY <2>1, <3>1
  <2> QED BY <1>1, <1>6, <2>2 DEF P1_LockCreate
<1>7. ASSUME NEW p \in Proc, NEW l \in Lid, NEW n \in Name, P1_LockName(p, l, n)
      PROVE WaiterQueued'
  <2>1. QueuesKept BY <1>0, <1>7 DEF P1_LockName, QueuesKept, Lock
  <2> QED BY <1>1, <1>7, <2>1 DEF P1_LockName
<1>8. CASE ClockDispatch \/ UNCHANGED lockVars
  BY <1>1, <1>8 DEF ClockDispatch, QueuesKept, lockVars
<1>9. \A p \in Proc : held[p] \subseteq Lid BY DEF LockInv, LockTypeOK
<1> QED BY <1>2, <1>3, <1>4, <1>5, <1>6, <1>7, <1>8, <1>9
        DEF LockNext, LockUse, LockTable, LockRename

------------------------------------------------------------------------------
(* The theorems. *)

LEMMA LockInvariance == LockSpec => []LockInv
<1>1. LockInit => LockInv BY LockInvInit
<1>2. LockInv /\ [LockNext]_lockVars => LockInv'
  BY LockTypeStep, OwnerStep, WaiterStep, RunningReadyStep DEF LockInv
<1> QED BY <1>1, <1>2, PTL DEF LockSpec

\* A lock a process has is BUSY and names it (phase1c.c:174-178), for clients
\* that unlock only what they hold.
THEOREM OwnerAlwaysRecorded == LockSpec => []OwnerRecorded
<1>1. LockInv => OwnerRecorded BY DEF LockInv
<1> QED BY <1>1, LockInvariance, PTL

\* Hence no two processes ever have the same lock.
THEOREM LocksExclude == LockSpec => []MutualExclusion
<1>1. OwnerRecorded => MutualExclusion BY DEF OwnerRecorded, MutualExclusion
<1> QED BY <1>1, OwnerAlwaysRecorded, PTL

\* Every process blocked in P1_Lock stands in that lock's queue, so the lock is
\* not freed under it.  It need not be the head of the queue, which is the only
\* one that P1_Unlock wakes (phase1c.c:237).
THEOREM WaitersStayQueued == LockSpec => []WaiterQueued
<1>1. LockInv => WaiterQueued BY DEF LockInv
<1> QED BY <1>1, LockInvariance, PTL

\* P1_LockFree (phase1c.c:132-137) takes no lock from a process that is
\* inside P1_Lock for it, however stale the queue it tests.
THEOREM FreeSparesWaiters == LockSpec => FreedLockHasNoWaiter
<1> DEFINE Spared == \A l \in Lid : locks[l].inuse /\ ~locks'[l].inuse
                                      => \A p \in Proc : call[p] # InCall("lock", l)
<1>1. LockInv /\ [LockNext]_lockVars => [Spared]_lockVars
  <2> SUFFICES ASSUME LockInv, LockNext, NEW l \in Lid, locks[l].inuse, ~locks'[l].inuse,
                      NEW p \in Proc
               PROVE  call[p] # InCall("lock", l)
    OBVIOUS
  <2>1. locks \in [Lid -> Lock] /\ (\A q \in Proc : held[q] \subseteq Lid)
    BY DEF LockInv, LockTypeOK
  <2>2. CASE ClockDispatch BY <2>2 DEF ClockDispatch
  <2>3. ASSUME NEW q \in Proc, NEW k \in Lid \cup {BadLid}, P1_LockFree(q, k)
        PROVE  call[p] # InCall("lock", l)
    <3>1. k = l /\ ~RefusesToFree(l) BY <2>1, <2>3 DEF P1_LockFree
    <3>2. Queued(l) = {} BY <3>1 DEF RefusesToFree, HasWaiters, Queued
    <3> QED BY <3>2 DEF LockInv, WaiterQueued, InCall
  <2>4. ASSUME NEW q \in Proc, NEW k \in Lid, P1_Lock(q, k) PROVE FALSE
    <3>1. \/ locks' = [locks EXCEPT ![k] = [@ EXCEPT !.state = "BUSY", !.pid = q]]
          \/ locks' = [locks EXCEPT ![k].pidQueue = Enqueue(k, q)]
      BY <2>4 DEF P1_Lock
    <3>2. locks'[l].inuse = locks[l].inuse
      <4>1. CASE locks' = [locks EXCEPT ![k] = [@ EXCEPT !.state = "BUSY", !.pid = q]]
        BY <2>1, <4>1 DEF Lock
      <4>2. CASE locks' = [locks EXCEPT ![k].pidQueue = Enqueue(k, q)]
        BY <2>1, <4>2 DEF Lock
      <4> QED BY <3>1, <4>1, <4>2
    <3> QED BY <3>2
  <2>5. ASSUME NEW q \in Proc, NEW k \in Lid \cup {BadLid}, P1_Unlock(q, k) PROVE FALSE
    <3>1. locks' = locks \/ (k \in Lid /\ locks' = [locks EXCEPT ![k].state = "FREE"])
      BY <2>5 DEF P1_Unlock
    <3>2. locks'[l].inuse = locks[l].inuse BY <2>1, <3>1 DEF Lock
    <3> QED BY <3>2
  <2>6. ASSUME NEW q \in Proc, NEW n \in Name \cup {NullName}, P1_LockCreate(q, n)
        PROVE  FALSE
    <3>1. locks' = locks
          \/ locks' = [locks EXCEPT ![FirstFree] = [@ EXCEPT !.inuse = TRUE, !.name = n]]
      BY <2>6 DEF P1_LockCreate
    <3>2. locks'[l].inuse = locks[l].inuse \/ locks'[l].inuse = TRUE BY <2>1, <3>1 DEF Lock
    <3> QED BY <3>2
  <2>7. ASSUME NEW q \in Proc, NEW k \in Lid, NEW n \in Name, P1_LockName(q, k, n)
        PROVE  FALSE
    <3>1. locks'[l].inuse = locks[l].inuse BY <2>1, <2>7 DEF P1_LockName, Lock
    <3> QED BY <3>1
  <2>8. ASSUME NEW q \in Proc, UnlockReturn(q) PROVE FALSE BY <2>8 DEF UnlockReturn
  <2> QED BY <2>1, <2>2, <2>3, <2>4, <2>5, <2>6, <2>7, <2>8
          DEF LockNext, LockUse, LockTable, LockRename
<1> QED BY <1>1, LockInvariance, PTL DEF LockSpec, FreedLockHasNoWaiter

\* P1_LockCreate (phase1c.c:60-105) gives no two locks in use one name: it
\* compares the new name with those of all slots.
THEOREM CreatedNamesDiffer == LockSpec => CreatedNameIsNew
<1> DEFINE New == \A k, l \in Lid :
                    k # l /\ locks[k].inuse /\ ~locks[l].inuse /\ locks'[l].inuse
                      => locks'[k].name # locks'[l].name
<1>1. LockTypeOK /\ [LockNext]_lockVars => [New]_lockVars
  <2> SUFFICES ASSUME LockTypeOK, LockNext, NEW k \in Lid, NEW l \in Lid, k # l,
                      locks[k].inuse, ~locks[l].inuse, locks'[l].inuse
               PROVE  locks'[k].name # locks'[l].name
    OBVIOUS
  <2>1. locks \in [Lid -> Lock] /\ (\A q \in Proc : held[q] \subseteq Lid) BY DEF LockTypeOK
  <2>2. locks' # locks OBVIOUS
  <2>3. ASSUME NEW q \in Proc, NEW n \in Name \cup {NullName}, P1_LockCreate(q, n)
        PROVE  locks'[k].name # locks'[l].name
    <3>1. /\ ~DuplicateName(n)
          /\ locks' = [locks EXCEPT ![FirstFree] = [@ EXCEPT !.inuse = TRUE, !.name = n]]
      BY <2>2, <2>3 DEF P1_LockCreate, CreateMaySucceed
    <3>2. l = FirstFree BY <2>1, <3>1
    <3>3. locks'[l].name = n /\ locks'[k] = locks[k] BY <2>1, <3>1, <3>2 DEF Lock
    <3> QED BY <3>1, <3>3 DEF DuplicateName
  <2>4. ASSUME NEW q \in Proc, NEW m \in Lid \cup {BadLid}, P1_LockFree(q, m) PROVE FALSE
    <3>1. locks' = locks \/ locks' = [locks EXCEPT ![m] = FreeLock] BY <2>4 DEF P1_LockFree
    <3> QED BY <2>1, <2>2, <3>1 DEF FreeLock
  <2>5. ASSUME NEW q \in Proc, NEW m \in Lid, P1_Lock(q, m) PROVE FALSE
    <3>1. CASE locks' = [locks EXCEPT ![m] = [@ EXCEPT !.state = "BUSY", !.pid = q]]
      BY <2>1, <3>1 DEF Lock
    <3>2. CASE locks' = [locks EXCEPT ![m].pidQueue = Enqueue(m, q)] BY <2>1, <3>2 DEF Lock
    <3> QED BY <2>5, <3>1, <3>2 DEF P1_Lock
  <2>6. ASSUME NEW q \in Proc, NEW m \in Lid \cup {BadLid}, P1_Unlock(q, m) PROVE FALSE
    <3>1. m \in Lid /\ locks' = [locks EXCEPT ![m].state = "FREE"]
      BY <2>2, <2>6 DEF P1_Unlock
    <3> QED BY <2>1, <3>1 DEF Lock
  <2>7. ASSUME NEW q \in Proc, NEW m \in Lid, NEW n \in Name, P1_LockName(q, m, n)
        PROVE  FALSE
    BY <2>1, <2>7 DEF P1_LockName, Lock
  <2> QED BY <2>1, <2>2, <2>3, <2>4, <2>5, <2>6, <2>7
          DEF LockNext, ClockDispatch, LockUse, LockTable, LockRename, UnlockReturn
<1> QED BY <1>1, LockTypeCorrect, PTL DEF LockSpec, CreatedNameIsNew

------------------------------------------------------------------------------
(* The refinement: seen through pid and state, the table is a Mutex.       *)

\* The owner that Mutex sees is the process that has the lock.
LEMMA OwnerOfHeld ==
  ASSUME LockInv, NEW p \in Proc, NEW l \in held[p]
  PROVE  OwnerOf(l) = p
BY DEF LockInv, OwnerRecorded, OwnerOf, IsFree

LEMMA OwnersKeptStutters ==
  ASSUME OwnersKept
  PROVE  [l \in Lid |-> OwnerOf(l)]' = [l \in Lid |-> OwnerOf(l)]
BY DEF OwnersKept, OwnerOf, IsFree

LEMMA MutexStep == LockInv /\ [LockNext]_lockVars => [M!MutexNext]_([l \in Lid |-> OwnerOf(l)])
<1> SUFFICES ASSUME LockInv, [LockNext]_lockVars
             PROVE  M!MutexNext \/ UNCHANGED [l \in Lid |-> OwnerOf(l)]
  OBVIOUS
<1>1. CASE OwnersKept BY <1>1, OwnersKeptStutters
<1>2. ASSUME NEW p \in Proc, NEW l \in Lid,
             P1_Lock(p, l) \/ (l \in held[p] /\ P1_Unlock(p, l))
               \/ ((\A q \in Proc \ {p} : l \notin held[q]) /\ P1_LockFree(p, l))
      PROVE  M!MutexNext \/ UNCHANGED [k \in Lid |-> OwnerOf(k)]
  <2>1. \A k \in Lid \ {l} : OwnerOf(k)' = OwnerOf(k)
    <3>1. \A k \in Lid \ {l} : locks'[k] = locks[k] BY <1>2, OwnerSteps
    <3> QED BY <3>1 DEF OwnerOf, IsFree
  <2>2. CASE locks[l].state = "FREE" /\ locks'[l].state = "BUSY" /\ locks'[l].pid = p
    <3>1. OwnerOf(l) = Idle /\ OwnerOf(l)' = p BY <2>2 DEF OwnerOf, IsFree
    <3>2. M!Acquire(p, l) BY <2>1, <3>1 DEF M!Acquire
    <3> QED BY <3>2 DEF M!MutexNext
  <2>3. CASE locks'[l].state = "FREE"
    <3>1. OwnerOf(l)' = Idle BY <2>3 DEF OwnerOf, IsFree
    <3>2. CASE IsFree(l)
      <4>1. \A k \in Lid : OwnerOf(k)' = OwnerOf(k) BY <2>1, <3>1, <3>2 DEF OwnerOf, IsFree
      <4> QED BY <4>1
    <3>3. CASE ~IsFree(l)
      <4>1. locks[l].state = "BUSY" BY <3>3 DEF LockInv, LockTypeOK, IsFree, Lock
      <4>2. PICK q \in Proc : OwnerOf(l) = q
        BY <3>3, <4>1 DEF LockInv, BusyHasOwner, OwnerOf
      <4>3. M!Release(q, l) BY <2>1, <3>1, <4>2 DEF M!Release
      <4> QED BY <4>3 DEF M!MutexNext
    <3> QED BY <3>2, <3>3
  <2> QED BY <1>1, <1>2, <2>2, <2>3, OwnerSteps
<1> QED BY <1>1, <1>2, OwnerCases

\* P1_Lock, P1_Unlock and P1_LockFree implement Mutex, with the pid of a BUSY
\* lock as its owner: Devices may use Mutex in their place.
THEOREM LocksRefineMutex == LockSpec => ImplementsMutex
<1>1. LockInit => M!MutexInit
  BY DEF LockInit, P1LockInit, FreeLock, M!MutexInit, OwnerOf, IsFree
<1>2. LockInv /\ [LockNext]_lockVars => [M!MutexNext]_([l \in Lid |-> OwnerOf(l)])
  BY MutexStep
<1> QED BY <1>1, <1>2, LockInvariance, PTL DEF LockSpec, ImplementsMutex, M!MutexSpec

==============================================================================
