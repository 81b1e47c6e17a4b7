----------------------------- MODULE CondsProofs -----------------------------
(***************************************************************************)
(* What holds of the locks and condition variables of phase1c.c whatever   *)
(* calls their clients make: any process, any order, locks freed, renamed  *)
(* and released by whoever likes, interrupts wherever they are enabled.    *)
(***************************************************************************)
EXTENDS Conds, LocksProofs, FiniteSetTheorems, WellFoundedInduction

LockCall(p) ==
  \/ \E n \in Name \cup {NullName} : P1_LockCreate(p, n)
  \/ \E l \in Lid : P1_Lock(p, l)
  \/ \E l \in Lid \cup {BadLid} : P1_Unlock(p, l) \/ P1_LockFree(p, l)
  \/ \E l \in Lid, n \in Name : P1_LockName(p, l, n)
  \/ UnlockReturn(p)

CondTable(p) ==
  \/ \E n \in Name, l \in Lid : P1_CondCreate(p, n, l)
  \/ \E v \in CondId : P1_CondFree(p, v)
  \/ \E v \in CondId, n \in Name : P1_CondName(p, v, n)

AnyCall ==
  \/ \E v \in CondId : P1_NakedSignal(v)
  \/ ClockDispatch /\ UNCHANGED conditions
  \/ \E p \in Proc : (LockCall(p) /\ UNCHANGED conditions) \/ CondTable(p) \/ CondUse(p)

\* The calls of phase1c.c in every order the scheduler allows.
AnyClients == CondInit /\ [][AnyCall]_condVars

\* Why BlockedIsQueued is kept: only the process on the CPU moves within its
\* call, and that one is ready.
CondInv == CondTypeOK /\ BlockedIsQueued /\ RunningReady

------------------------------------------------------------------------------
(* The helpers of the model. *)

\* A set of numbers that is not empty has a least.
LEMMA LeastElement ==
  ASSUME NEW T \in SUBSET Nat, T # {}
  PROVE  \E x \in T : \A y \in T : x <= y
<1> DEFINE R == StrictSubsetOrdering(Nat)
           U == {0 .. x : x \in T}
<1>1. \A x \in T : 0 .. x \in FiniteSubsetsOf(Nat)
  <2>1. \A x \in T : IsFiniteSet(0 .. x) BY FS_Interval
  <2>2. \A x \in T : 0 .. x \in SUBSET Nat OBVIOUS
  <2> QED BY <2>1, <2>2 DEF FiniteSubsetsOf
<1>2. PICK s \in U : \A t \in U : ~(<<t, s>> \in R)
  <2>1. U \subseteq FiniteSubsetsOf(Nat) /\ U # {} BY <1>1
  <2>2. IsWellFoundedOn(R, FiniteSubsetsOf(Nat)) BY FS_StrictSubsetOrderingWellFounded
  <2> HIDE DEF R, U
  <2> QED BY <2>1, <2>2, WFMin
<1>3. PICK x \in T : s = 0 .. x BY <1>2
<1>4. ASSUME NEW y \in T, y < x PROVE FALSE
  <2>1. 0 .. y \subseteq 0 .. x /\ x \notin 0 .. y /\ x \in 0 .. x BY <1>4
  <2>2. 0 .. y # 0 .. x BY <2>1
  <2>3. 0 .. y \in SUBSET Nat /\ 0 .. x \in SUBSET Nat OBVIOUS
  <2>4. <<0 .. y, 0 .. x>> \in R BY <2>1, <2>2, <2>3 DEF StrictSubsetOrdering
  <2> QED BY <1>2, <1>3, <2>4
<1> QED BY <1>4

LEMMA LidsAreNat == Lid \in SUBSET Nat
BY LocksAssumption DEF LocksAssumption, Lid

\* The search of P1_LockCreate ends at a slot that is free.
LEMMA FirstFreeIsFree == FreeSlots # {} => FirstFree \in FreeSlots
<1>1. FreeSlots \in SUBSET Nat BY LidsAreNat DEF FreeSlots
<1> QED BY <1>1, LeastElement DEF FirstFree

\* The search of P1_Wait ends at a lock that names the caller.
LEMMA FirstRecorded ==
  ASSUME NEW p, Recorded(p) # {} PROVE Min(Recorded(p)) \in Recorded(p)
<1>1. Recorded(p) \in SUBSET Nat BY LidsAreNat DEF Recorded
<1> QED BY <1>1, LeastElement DEF Min

\* What P1_Wait does to the lock table.
LEMMA WaitTable ==
  ASSUME locks \in [Lid -> Lock], NEW p \in Proc, NEW v, conditions[v].lock \in Lid,
         LockHeld(p, v), NEW lids, lids = ReleaseAndQueue(p, v)
  PROVE  /\ lids \in [Lid -> Lock]
         /\ lids[Min(Recorded(p))].pidQueue = Append(locks[Min(Recorded(p))].pidQueue, p)
         /\ \A l \in Lid \ {Min(Recorded(p))} : lids[l].pidQueue = locks[l].pidQueue
         /\ \A l \in Lid : lids[l].state = IF l = conditions[v].lock THEN "FREE"
                                           ELSE locks[l].state
         /\ \A l \in Lid : lids[l].inuse = locks[l].inuse /\ lids[l].name = locks[l].name
<1> DEFINE m == Min(Recorded(p))
           released == [locks EXCEPT ![conditions[v].lock].state = "FREE"]
<1>1. m \in Lid BY FirstRecorded DEF LockHeld, Recorded
<1>2. released \in [Lid -> Lock] BY LockUpdates
<1>3. /\ released[conditions[v].lock] = [locks[conditions[v].lock] EXCEPT !.state = "FREE"]
      /\ \A l \in Lid \ {conditions[v].lock} : released[l] = locks[l]
  OBVIOUS
<1>4. \A l \in Lid : /\ released[l].pidQueue = locks[l].pidQueue
                     /\ released[l].inuse = locks[l].inuse
                     /\ released[l].name = locks[l].name
                     /\ released[l].state = IF l = conditions[v].lock THEN "FREE"
                                            ELSE locks[l].state
  BY <1>3 DEF Lock
<1>5. lids = [released EXCEPT ![m].pidQueue = Append(@, p)] BY DEF ReleaseAndQueue
<1> HIDE DEF m, released
<1>6. released[m].pidQueue \in Seq(Proc) BY <1>1, <1>2 DEF Lock
<1>7. /\ lids[m] = [released[m] EXCEPT !.pidQueue = Append(released[m].pidQueue, p)]
      /\ \A l \in Lid \ {m} : lids[l] = released[l]
  BY <1>1, <1>2, <1>5
<1>8. lids \in [Lid -> Lock]
  <2>0. Append(released[m].pidQueue, p) \in Seq(Proc) BY <1>6
  <2>1. [released[m] EXCEPT !.pidQueue = Append(released[m].pidQueue, p)] \in Lock
    BY <1>1, <1>2, <2>0, LockUpdates
  <2> QED BY <1>2, <1>5, <2>1
<1>9. \A l \in Lid : /\ lids[l].inuse = released[l].inuse /\ lids[l].name = released[l].name
                     /\ lids[l].state = released[l].state
                     /\ l # m => lids[l].pidQueue = released[l].pidQueue
  BY <1>1, <1>2, <1>7 DEF Lock
<1>10. lids[m].pidQueue = Append(locks[m].pidQueue, p)
  BY <1>1, <1>2, <1>4, <1>7 DEF Lock
<1> QED BY <1>4, <1>8, <1>9, <1>10 DEF m

------------------------------------------------------------------------------
(* Types. *)

CallTyped == call \in [Proc -> Calls \cup CondCalls]
SchedTyped == /\ running \in Proc \cup {Idle}
              /\ pstate \in [Proc -> {"READY", "BLOCKED"}]

LEMMA FreeCondType == FreeCond \in Condition
<1>1. 0 \in Lid BY CondsAssumption DEF CondsAssumption
<1> QED BY <1>1 DEF FreeCond, Condition

LEMMA CondUpdates ==
  ASSUME NEW c \in Condition
  PROVE  /\ \A n \in Name : [c EXCEPT !.name = n] \in Condition
         /\ \A q \in Seq(Proc) : [c EXCEPT !.lockQueue = q] \in Condition
         /\ \A l \in Lid, q \in Seq(Proc) : [c EXCEPT !.lock = l, !.lockQueue = q] \in Condition
<1>1. ASSUME NEW n \in Name PROVE [c EXCEPT !.name = n] \in Condition BY DEF Condition
<1>2. ASSUME NEW q \in Seq(Proc) PROVE [c EXCEPT !.lockQueue = q] \in Condition
  BY DEF Condition
<1>3. ASSUME NEW l \in Lid, NEW q \in Seq(Proc)
      PROVE [c EXCEPT !.lock = l, !.lockQueue = q] \in Condition
  BY DEF Condition
<1> QED BY <1>1, <1>2, <1>3

\* A call that changes at most the entry of its caller keeps the calls typed.
LEMMA CallUpdate ==
  ASSUME CallTyped, NEW p \in Proc,
         \/ call' = call
         \/ \E c \in Calls \cup CondCalls : call' = [call EXCEPT ![p] = c]
  PROVE  CallTyped'
BY DEF CallTyped

\* P1SetState and P1Dispatch keep the scheduler's state typed.
LEMMA SchedUpdate ==
  ASSUME SchedTyped,
         \/ pstate' = pstate \/ (\E t : pstate' \in P1SetState(t, "READY"))
         \/ \E t : pstate' \in P1SetState(t, "BLOCKED"),
         running' = running \/ P1Dispatch
  PROVE  SchedTyped'
<1>1. pstate' \in [Proc -> {"READY", "BLOCKED"}]
  <2>1. ASSUME NEW t, NEW s \in {"READY", "BLOCKED"}, pstate' \in P1SetState(t, s)
        PROVE  pstate' \in [Proc -> {"READY", "BLOCKED"}]
    BY <2>1 DEF P1SetState, SchedTyped
  <2> QED BY <2>1 DEF SchedTyped
<1>2. running' \in Proc \cup {Idle} BY DEF SchedTyped, P1Dispatch, Ready
<1> QED BY <1>1, <1>2 DEF SchedTyped

LEMMA LockCallType ==
  ASSUME CondTypeOK, NEW p \in Proc, LockCall(p), UNCHANGED conditions
  PROVE  CondTypeOK'
<1>0. /\ locks \in [Lid -> Lock] /\ intr \in [Proc -> BOOLEAN]
      /\ held \in [Proc -> SUBSET Lid] /\ conditions' \in [CondId -> Condition]
  BY DEF CondTypeOK
<1>1. SchedTyped /\ CallTyped BY DEF CondTypeOK, SchedTyped, CallTyped
<1>2. ASSUME NEW n \in Name \cup {NullName}, P1_LockCreate(p, n) PROVE CondTypeOK'
  <2>1. intr' \in [Proc -> BOOLEAN] BY <1>0, <1>2 DEF P1_LockCreate, P1DisableInterrupts
  <2>2. locks' \in [Lid -> Lock]
    <3>1. CASE CreateMaySucceed(n)
               /\ locks' = [locks EXCEPT ![FirstFree] = [@ EXCEPT !.inuse = TRUE, !.name = n]]
      <4>1. n \in Name BY <3>1 DEF CreateMaySucceed
      <4> QED BY <1>0, <3>1, <4>1, LockUpdates
    <3> QED BY <1>0, <1>2, <3>1 DEF P1_LockCreate
  <2> QED BY <1>0, <1>2, <2>1, <2>2 DEF P1_LockCreate, CondTypeOK
<1>3. ASSUME NEW l \in Lid, P1_Lock(p, l) PROVE CondTypeOK'
  <2>1. locks' \in [Lid -> Lock]
    <3>1. p \in Nat BY LocksAssumption DEF LocksAssumption
    <3>2. Enqueue(l, p) \in Seq(Proc) BY <1>0 DEF Enqueue, Lock
    <3>3. [locks EXCEPT ![l] = [@ EXCEPT !.state = "BUSY", !.pid = p]] \in [Lid -> Lock]
      BY <1>0, <3>1, LockUpdates
    <3>4. [locks EXCEPT ![l].pidQueue = Enqueue(l, p)] \in [Lid -> Lock]
      BY <1>0, <3>2, LockUpdates
    <3> QED BY <1>3, <3>3, <3>4 DEF P1_Lock
  <2>2. SchedTyped'
    <3>1. \/ UNCHANGED <<running, pstate>>
          \/ pstate' \in P1SetState(p, "BLOCKED") /\ P1Dispatch
      BY <1>3 DEF P1_Lock
    <3> QED BY <1>1, <3>1, SchedUpdate
  <2>3. CallTyped' BY <1>1, <1>3, CallsType, CallUpdate DEF P1_Lock
  <2>4. held' \in [Proc -> SUBSET Lid] /\ intr' \in [Proc -> BOOLEAN] BY <1>0, <1>3 DEF P1_Lock
  <2> QED BY <1>0, <2>1, <2>2, <2>3, <2>4 DEF CondTypeOK, SchedTyped, CallTyped
<1>4. ASSUME NEW l \in Lid \cup {BadLid}, P1_Unlock(p, l) PROVE CondTypeOK'
  <2>1. intr' \in [Proc -> BOOLEAN]
    BY <1>0, <1>4 DEF P1_Unlock, P1DisableInterrupts, P1EnableInterrupts
  <2>2. locks' \in [Lid -> Lock]
    <3>1. locks' = locks \/ (l \in Lid /\ locks' = [locks EXCEPT ![l].state = "FREE"])
      BY <1>4 DEF P1_Unlock
    <3>2. CASE l \in Lid /\ locks' = [locks EXCEPT ![l].state = "FREE"]
      BY <1>0, <3>2, LockUpdates
    <3> QED BY <1>0, <3>1, <3>2
  <2>3. SchedTyped'
    <3>1. \/ UNCHANGED <<running, pstate>>
          \/ pstate' \in P1SetState(NextWaiter(l), "READY") /\ P1Dispatch
      BY <1>4 DEF P1_Unlock
    <3> QED BY <1>1, <3>1, SchedUpdate
  <2>4. CallTyped'
    <3>1. call' = call \/ (l \in Lid /\ call' = [call EXCEPT ![p] = InCall("unlock", l)])
      BY <1>4 DEF P1_Unlock
    <3> QED BY <1>1, <3>1, CallsType, CallUpdate
  <2>5. held' \in [Proc -> SUBSET Lid] BY <1>0, <1>4 DEF P1_Unlock
  <2> QED BY <1>0, <2>1, <2>2, <2>3, <2>4, <2>5 DEF CondTypeOK, SchedTyped, CallTyped
<1>5. ASSUME NEW l \in Lid \cup {BadLid}, P1_LockFree(p, l) PROVE CondTypeOK'
  BY <1>0, <1>5, FreeLockType DEF P1_LockFree, P1DisableInterrupts, CondTypeOK
<1>6. ASSUME NEW l \in Lid, NEW n \in Name, P1_LockName(p, l, n) PROVE CondTypeOK'
  <2>1. locks' \in [Lid -> Lock] BY <1>0, <1>6, LockUpdates DEF P1_LockName
  <2> QED BY <1>0, <1>6, <2>1 DEF P1_LockName, CondTypeOK
<1>7. ASSUME UnlockReturn(p) PROVE CondTypeOK'
  <2>1. CallTyped' BY <1>1, <1>7, CallsType, CallUpdate DEF UnlockReturn
  <2> QED BY <1>0, <1>7, <2>1 DEF UnlockReturn, P1EnableInterrupts, CondTypeOK, CallTyped
<1> QED BY <1>2, <1>3, <1>4, <1>5, <1>6, <1>7 DEF LockCall

LEMMA CondTableType ==
  ASSUME CondTypeOK, NEW p \in Proc, CondTable(p)
  PROVE  CondTypeOK'
<1>0. conditions \in [CondId -> Condition] BY DEF CondTypeOK
<1>1. conditions' \in [CondId -> Condition]
  <2>1. ASSUME NEW n \in Name, NEW l \in Lid, P1_CondCreate(p, n, l)
        PROVE  conditions' \in [CondId -> Condition]
    <3>1. [inuse |-> FALSE, name |-> n, lock |-> l, lockQueue |-> <<>>] \in Condition
      BY DEF Condition
    <3> QED BY <1>0, <2>1, <3>1 DEF P1_CondCreate
  <2>2. ASSUME NEW v \in CondId, P1_CondFree(p, v) PROVE conditions' \in [CondId -> Condition]
    BY <1>0, <2>2, FreeCondType DEF P1_CondFree
  <2>3. ASSUME NEW v \in CondId, NEW n \in Name, P1_CondName(p, v, n)
        PROVE  conditions' \in [CondId -> Condition]
    BY <1>0, <2>3, CondUpdates DEF P1_CondName
  <2> QED BY <2>1, <2>2, <2>3 DEF CondTable
<1>2. UNCHANGED lockVars BY DEF CondTable, P1_CondCreate, P1_CondFree, P1_CondName
<1> QED BY <1>1, <1>2 DEF CondTypeOK, lockVars

\* A wake-up keeps the types: the pid it takes from the queue, which it
\* writes into the lock field, is small enough to be a lid.
LEMMA WakeFirstType ==
  ASSUME CondTypeOK, NEW v \in CondId, conditions[v].lockQueue # <<>>, WakeFirst(v)
  PROVE  SchedTyped' /\ conditions' \in [CondId -> Condition]
<1>0. SchedTyped /\ conditions \in [CondId -> Condition] BY DEF CondTypeOK, SchedTyped
<1>1. conditions[v].lockQueue \in Seq(Proc) BY <1>0 DEF Condition
<1>2. Head(conditions[v].lockQueue) \in Lid /\ Tail(conditions[v].lockQueue) \in Seq(Proc)
  BY <1>1, CondsAssumption DEF CondsAssumption
<1>3. conditions' \in [CondId -> Condition]
  <2>1. conditions' = [conditions EXCEPT ![v].lock = Head(conditions[v].lockQueue),
                                         ![v].lockQueue = Tail(@)]
    BY DEF WakeFirst
  <2>2. conditions' = [conditions EXCEPT ![v] =
          [@ EXCEPT !.lock = Head(conditions[v].lockQueue),
                    !.lockQueue = Tail(conditions[v].lockQueue)]]
    BY <1>0, <2>1 DEF Condition
  <2> QED BY <1>0, <1>2, <2>2, CondUpdates
<1>4. SchedTyped'
  <2>1. PICK t \in WakeTargets(Head(conditions[v].lockQueue)) :
          IF t \in Proc THEN pstate' \in P1SetState(t, "READY") ELSE pstate' = pstate
    BY DEF WakeFirst
  <2>2. pstate' = pstate \/ pstate' \in P1SetState(t, "READY") BY <2>1
  <2>3. P1Dispatch BY DEF WakeFirst
  <2> QED BY <1>0, <2>2, <2>3, SchedUpdate
<1> QED BY <1>3, <1>4

\* What P1_Wait, P1_Signal and P1_Broadcast do, refusals aside.
Waits(p, v) ==
  /\ running = p /\ call[p] = NoCall /\ LockHeld(p, v)
  /\ conditions' = [conditions EXCEPT ![v].lockQueue = Append(@, p)]
  /\ locks' = ReleaseAndQueue(p, v)
  /\ pstate' \in P1SetState(p, "BLOCKED")
  /\ call' = [call EXCEPT ![p] = InCond("wait", p, v)]
  /\ held' = [held EXCEPT ![p] = @ \ {conditions[v].lock}]
  /\ intr' = [intr EXCEPT ![p] = FALSE]
  /\ P1Dispatch

LEMMA CondUseCases ==
  ASSUME CondTypeOK, NEW p \in Proc, CondUse(p)
  PROVE  \/ running = p /\ Refuse(p)
         \/ \E v \in CondId : Waits(p, v)
         \/ \E v \in CondId, o \in {"signal", "broadcast"} :
              running = p /\ (call[p] = NoCall \/ call[p].op = "broadcast") /\ Wake(p, v, o)
         \/ WaitReturn(p) \/ SignalReturn(p)
<1>1. BadCond \notin CondId
  BY CondsAssumption DEF CondsAssumption, BadCond, CondId
<1>2. ASSUME NEW v \in CondId \cup {BadCond}, P1_Wait(p, v)
      PROVE  (running = p /\ Refuse(p)) \/ (v \in CondId /\ Waits(p, v))
  BY <1>2 DEF P1_Wait, InClient, Waits, P1DisableInterrupts
<1>3. ASSUME NEW v \in CondId \cup {BadCond}, P1_Signal(p, v)
      PROVE  \/ running = p /\ Refuse(p)
             \/ v \in CondId /\ running = p /\ call[p] = NoCall /\ Wake(p, v, "signal")
  BY <1>3 DEF P1_Signal, InClient
<1>4. ASSUME NEW v \in CondId \cup {BadCond}, P1_Broadcast(p, v), v \in CondId
      PROVE  \/ running = p /\ Refuse(p)
             \/ running = p /\ (call[p] = NoCall \/ call[p].op = "broadcast")
                            /\ Wake(p, v, "broadcast")
  BY <1>4 DEF P1_Broadcast, InClient
<1>5. P1_Broadcast(p, BadCond) => running = p /\ Refuse(p)
  <2>1. call[p].op = "broadcast" => call[p].vid \in CondId
    BY DEF CondTypeOK, Calls, NoCall, InCall, CondCalls
  <2> QED BY <1>1, <2>1 DEF P1_Broadcast, InClient
<1> QED BY <1>1, <1>2, <1>3, <1>4, <1>5 DEF CondUse

LEMMA InCondType ==
  ASSUME CondTypeOK, NEW p \in Proc, NEW v \in CondId, NEW o \in {"wait", "signal", "broadcast"}
  PROVE  InCond(o, p, v) \in CondCalls
BY DEF CondTypeOK, Condition, InCond, CondCalls

LEMMA WakeType ==
  ASSUME CondTypeOK, NEW p \in Proc, NEW v \in CondId, NEW o \in {"signal", "broadcast"},
         Wake(p, v, o)
  PROVE  CondTypeOK'
<1>1. SchedTyped' /\ conditions' \in [CondId -> Condition] BY WakeFirstType DEF Wake
<1>2. CallTyped'
  <2>1. call' = [call EXCEPT ![p] = IF call[p] = NoCall THEN InCond(o, p, v) ELSE call[p]]
    BY DEF Wake
  <2>2. InCond(o, p, v) \in CondCalls /\ CallTyped BY InCondType DEF CondTypeOK, CallTyped
  <2> QED BY <2>1, <2>2 DEF CallTyped
<1>3. UNCHANGED <<locks, held>> /\ intr' = [intr EXCEPT ![p] = FALSE]
  BY DEF Wake, P1DisableInterrupts
<1> QED BY <1>1, <1>2, <1>3 DEF CondTypeOK, SchedTyped, CallTyped

LEMMA WaitsType ==
  ASSUME CondTypeOK, NEW p \in Proc, NEW v \in CondId, Waits(p, v)
  PROVE  CondTypeOK'
<1>0. /\ locks \in [Lid -> Lock] /\ conditions \in [CondId -> Condition]
      /\ SchedTyped /\ CallTyped
  BY DEF CondTypeOK, SchedTyped, CallTyped
<1>1. locks' \in [Lid -> Lock]
  <2>1. conditions[v].lock \in Lid BY <1>0 DEF Condition
  <2> QED BY <1>0, <2>1, WaitTable DEF Waits
<1>2. conditions' \in [CondId -> Condition]
  <2>1. Append(conditions[v].lockQueue, p) \in Seq(Proc) BY <1>0 DEF Condition
  <2> QED BY <1>0, <2>1, CondUpdates DEF Waits
<1>3. SchedTyped' BY <1>0, SchedUpdate DEF Waits
<1>4. CallTyped' BY <1>0, InCondType, CallUpdate DEF Waits
<1>5. held' \in [Proc -> SUBSET Lid] /\ intr' \in [Proc -> BOOLEAN] BY DEF CondTypeOK, Waits
<1> QED BY <1>1, <1>2, <1>3, <1>4, <1>5 DEF CondTypeOK, SchedTyped, CallTyped

\* Coming back from the dispatch: the caller's interrupt bit and its lid are
\* those it left behind.
LEMMA ReturnType ==
  ASSUME CondTypeOK, NEW p \in Proc, WaitReturn(p) \/ SignalReturn(p)
  PROVE  CondTypeOK'
<1>0. /\ locks \in [Lid -> Lock] /\ intr \in [Proc -> BOOLEAN] /\ held \in [Proc -> SUBSET Lid]
      /\ CallTyped
  BY DEF CondTypeOK, CallTyped
<1>1. call[p].op \in {"wait", "signal", "broadcast"} BY DEF WaitReturn, SignalReturn
<1>2. call[p] \in CondCalls BY <1>0, <1>1 DEF CallTyped, Calls, NoCall, InCall
<1>3. call[p].intr \in BOOLEAN /\ call[p].lid \in Lid /\ call[p].vid \in CondId
  BY <1>2 DEF CondCalls
<1>4. call' = [call EXCEPT ![p] = NoCall] /\ intr' = [intr EXCEPT ![p] = call[p].intr]
  BY DEF WaitReturn, SignalReturn, Returned
<1>5. CallTyped' BY <1>0, <1>4, CallsType DEF CallTyped
<1>6. intr' \in [Proc -> BOOLEAN] BY <1>0, <1>3, <1>4
<1>7. UNCHANGED <<running, pstate, conditions>> BY DEF WaitReturn, SignalReturn
<1>8. locks' \in [Lid -> Lock] /\ held' \in [Proc -> SUBSET Lid]
  <2>1. CASE WaitReturn(p)
    <3>1. held' \in [Proc -> SUBSET Lid] BY <1>0, <1>3, <2>1 DEF WaitReturn
    <3>2. \A lock \in Lock : [lock EXCEPT !.state = "BUSY"] \in Lock BY DEF Lock
    <3>3. locks' \in [Lid -> Lock] BY <1>0, <2>1, <3>2 DEF WaitReturn
    <3> QED BY <3>1, <3>3
  <2>2. CASE SignalReturn(p) BY <1>0, <2>2 DEF SignalReturn
  <2> QED BY <2>1, <2>2
<1> QED BY <1>5, <1>6, <1>7, <1>8 DEF CondTypeOK, CallTyped

LEMMA CondTypeStep == CondTypeOK /\ [AnyCall]_condVars => CondTypeOK'
<1> SUFFICES ASSUME CondTypeOK, [AnyCall]_condVars PROVE CondTypeOK'
  OBVIOUS
<1>1. ASSUME NEW v \in CondId, P1_NakedSignal(v) PROVE CondTypeOK'
  <2>1. SchedTyped' /\ conditions' \in [CondId -> Condition]
    BY <1>1, WakeFirstType DEF P1_NakedSignal
  <2>2. UNCHANGED <<locks, intr, call, held>> BY <1>1 DEF P1_NakedSignal
  <2> QED BY <2>1, <2>2 DEF CondTypeOK, SchedTyped
<1>2. ASSUME ClockDispatch, UNCHANGED conditions PROVE CondTypeOK'
  <2>1. SchedTyped BY DEF CondTypeOK, SchedTyped
  <2>2. SchedTyped' BY <1>2, <2>1, SchedUpdate DEF ClockDispatch
  <2> QED BY <1>2, <2>2 DEF ClockDispatch, CondTypeOK, SchedTyped
<1>3. ASSUME NEW p \in Proc, CondUse(p) PROVE CondTypeOK'
  <2>1. CASE Refuse(p)
    BY <2>1 DEF Refuse, P1DisableInterrupts, CondTypeOK
  <2> QED BY <1>3, <2>1, CondUseCases, WaitsType, WakeType, ReturnType
<1>4. CASE UNCHANGED condVars BY <1>4 DEF condVars, lockVars, CondTypeOK
<1> QED BY <1>1, <1>2, <1>3, <1>4, LockCallType, CondTableType DEF AnyCall

------------------------------------------------------------------------------
(* Blocked processes stay in line. *)

QueuesGrow == \A l \in Lid : Queued(l) \subseteq Queued(l)'

\* A process that runs is not blocked, so its own call may change; everybody
\* else keeps the call and the place in line.
LEMMA BlockedKept ==
  ASSUME CondInv, QueuesGrow, NEW p \in Proc,
         call' = call \/ (running = p /\ \A q \in Proc \ {p} : call'[q] = call[q]),
         \A q \in Proc : pstate'[q] = "BLOCKED" => pstate[q] = "BLOCKED"
  PROVE  BlockedIsQueued'
<1>1. running = p => pstate[p] # "BLOCKED" BY IdleNotProc DEF CondInv, RunningReady
<1> QED BY <1>1 DEF CondInv, BlockedIsQueued, QueuesGrow

\* One process more blocks, and stands in a queue.
LEMMA BlockedJoins ==
  ASSUME CondInv, QueuesGrow, NEW p \in Proc, running = p,
         \A q \in Proc \ {p} : call'[q] = call[q],
         \A q \in Proc \ {p} : pstate'[q] = "BLOCKED" => pstate[q] = "BLOCKED",
         call'[p].op \in {"lock", "wait"}, \E l \in Lid : p \in Queued(l)'
  PROVE  BlockedIsQueued'
BY DEF CondInv, BlockedIsQueued, QueuesGrow

\* The queues of a table of which one queue got longer, or of the same queues.
LEMMA OneQueueGrows ==
  ASSUME locks \in [Lid -> Lock], NEW m \in Lid, NEW p \in Proc,
         locks'[m].pidQueue = Append(locks[m].pidQueue, p),
         \A l \in Lid \ {m} : locks'[l].pidQueue = locks[l].pidQueue
  PROVE  QueuesGrow /\ p \in Queued(m)'
<1>1. locks[m].pidQueue \in Seq(Proc) BY DEF Lock
<1>2. Queued(m)' = Queued(m) \cup {p} BY <1>1, QueuedAppend DEF Queued
<1>3. \A l \in Lid \ {m} : Queued(l)' = Queued(l) BY DEF Queued
<1> QED BY <1>2, <1>3 DEF QueuesGrow

LEMMA SameQueues ==
  ASSUME \A l \in Lid : locks'[l].pidQueue = locks[l].pidQueue
  PROVE  QueuesGrow
BY DEF Queued, QueuesGrow

LEMMA LockCallBlocked ==
  ASSUME CondInv, NEW p \in Proc, LockCall(p)
  PROVE  BlockedIsQueued'
<1>0. /\ locks \in [Lid -> Lock] /\ call \in [Proc -> Calls \cup CondCalls]
      /\ pstate \in [Proc -> {"READY", "BLOCKED"}]
  BY DEF CondInv, CondTypeOK
<1>1. ASSUME NEW n \in Name \cup {NullName}, P1_LockCreate(p, n) PROVE BlockedIsQueued'
  <2>1. \A l \in Lid : locks'[l].pidQueue = locks[l].pidQueue
    <3>1. CASE locks' = [locks EXCEPT ![FirstFree] = [@ EXCEPT !.inuse = TRUE, !.name = n]]
      BY <1>0, <3>1 DEF Lock
    <3> QED BY <1>1, <3>1 DEF P1_LockCreate
  <2> QED BY <1>1, <2>1, SameQueues, BlockedKept DEF P1_LockCreate
<1>2. ASSUME NEW l \in Lid, P1_Lock(p, l) PROVE BlockedIsQueued'
  <2>1. CASE /\ locks' = [locks EXCEPT ![l] = [@ EXCEPT !.state = "BUSY", !.pid = p]]
             /\ call' = [call EXCEPT ![p] = NoCall] /\ UNCHANGED pstate
    <3>1. \A k \in Lid : locks'[k].pidQueue = locks[k].pidQueue BY <1>0, <2>1 DEF Lock
    <3>2. running = p /\ \A q \in Proc \ {p} : call'[q] = call[q]
      BY <1>0, <1>2, <2>1 DEF P1_Lock
    <3> QED BY <2>1, <3>1, <3>2, SameQueues, BlockedKept
  <2>2. CASE /\ pstate' \in P1SetState(p, "BLOCKED")
             /\ locks' = [locks EXCEPT ![l].pidQueue = Enqueue(l, p)]
             /\ call' = [call EXCEPT ![p] = InCall("lock", l)]
    <3>1. /\ locks'[l].pidQueue = Append(locks[l].pidQueue, p)
          /\ \A k \in Lid \ {l} : locks'[k].pidQueue = locks[k].pidQueue
      BY <1>0, <2>2 DEF Lock, Enqueue
    <3>2. running = p /\ call'[p].op = "lock" /\ \A q \in Proc \ {p} : call'[q] = call[q]
      BY <1>0, <1>2, <2>2 DEF P1_Lock, InCall
    <3>3. \A q \in Proc \ {p} : pstate'[q] = pstate[q] BY <1>0, <2>2 DEF P1SetState
    <3>4. QueuesGrow /\ p \in Queued(l)' BY <1>0, <3>1, OneQueueGrows
    <3> QED BY <3>2, <3>3, <3>4, BlockedJoins
  <2> QED BY <1>2, <2>1, <2>2 DEF P1_Lock
<1>3. ASSUME NEW l \in Lid \cup {BadLid}, P1_Unlock(p, l) PROVE BlockedIsQueued'
  <2>1. locks' = locks \/ (l \in Lid /\ locks' = [locks EXCEPT ![l].state = "FREE"])
    BY <1>3 DEF P1_Unlock
  <2>2. \A k \in Lid : locks'[k].pidQueue = locks[k].pidQueue
    <3>1. CASE l \in Lid /\ locks' = [locks EXCEPT ![l].state = "FREE"]
      BY <1>0, <3>1 DEF Lock
    <3> QED BY <2>1, <3>1
  <2>3. running = p /\ \A q \in Proc \ {p} : call'[q] = call[q]
    BY <1>0, <1>3 DEF P1_Unlock, InClient
  <2>4. \A q \in Proc : pstate'[q] = "BLOCKED" => pstate[q] = "BLOCKED"
    BY <1>0, <1>3 DEF P1_Unlock, P1SetState
  <2> QED BY <2>2, <2>3, <2>4, SameQueues, BlockedKept
<1>4. ASSUME NEW l \in Lid \cup {BadLid}, P1_LockFree(p, l) PROVE BlockedIsQueued'
  <2>1. QueuesGrow
    <3>1. CASE UNCHANGED locks BY <3>1, SameQueues
    <3>2. CASE ~RefusesToFree(l) /\ locks' = [locks EXCEPT ![l] = FreeLock]
      <4>1. l \in Lid /\ locks[l].pidQueue = <<>> BY <3>2 DEF RefusesToFree, HasWaiters
      <4>2. Queued(l) = {} BY <4>1 DEF Queued
      <4>3. \A k \in Lid \ {l} : Queued(k)' = Queued(k) BY <1>0, <3>2 DEF Queued
      <4> QED BY <4>2, <4>3 DEF QueuesGrow
    <3> QED BY <1>4, <3>1, <3>2 DEF P1_LockFree
  <2>2. UNCHANGED <<pstate, call>> BY <1>4 DEF P1_LockFree
  <2> QED BY <2>1, <2>2, BlockedKept
<1>5. ASSUME NEW l \in Lid, NEW n \in Name, P1_LockName(p, l, n) PROVE BlockedIsQueued'
  <2>1. \A k \in Lid : locks'[k].pidQueue = locks[k].pidQueue
    BY <1>0, <1>5 DEF P1_LockName, Lock
  <2>2. UNCHANGED <<pstate, call>> BY <1>5 DEF P1_LockName
  <2> QED BY <2>1, <2>2, SameQueues, BlockedKept
<1>6. ASSUME UnlockReturn(p) PROVE BlockedIsQueued'
  <2>1. UNCHANGED <<locks, pstate>> /\ running = p BY <1>6 DEF UnlockReturn
  <2>2. \A q \in Proc \ {p} : call'[q] = call[q] BY <1>0, <1>6 DEF UnlockReturn
  <2> QED BY <2>1, <2>2, SameQueues, BlockedKept
<1> QED BY <1>1, <1>2, <1>3, <1>4, <1>5, <1>6 DEF LockCall

\* A wake-up blocks nobody.
LEMMA WakesOnly ==
  ASSUME pstate \in [Proc -> {"READY", "BLOCKED"}], NEW v, WakeFirst(v)
  PROVE  \A q \in Proc : pstate'[q] = "BLOCKED" => pstate[q] = "BLOCKED"
<1>1. pstate' = pstate \/ \E t : pstate' \in P1SetState(t, "READY") BY DEF WakeFirst
<1> QED BY <1>1 DEF P1SetState

LEMMA CondUseBlocked ==
  ASSUME CondInv, NEW p \in Proc, CondUse(p)
  PROVE  BlockedIsQueued'
<1>0. /\ locks \in [Lid -> Lock] /\ call \in [Proc -> Calls \cup CondCalls]
      /\ pstate \in [Proc -> {"READY", "BLOCKED"}] /\ CondTypeOK
  BY DEF CondInv, CondTypeOK
<1>1. CASE Refuse(p) BY <1>1, SameQueues, BlockedKept DEF Refuse
<1>2. ASSUME NEW v \in CondId, Waits(p, v) PROVE BlockedIsQueued'
  <2>1. conditions[v].lock \in Lid BY <1>0 DEF CondTypeOK, Condition
  <2>2. PICK m \in Lid : m = Min(Recorded(p))
    BY <1>2, FirstRecorded DEF Waits, LockHeld, Recorded
  <2>3. QueuesGrow /\ p \in Queued(m)'
    <3>1. /\ locks'[m].pidQueue = Append(locks[m].pidQueue, p)
          /\ \A l \in Lid \ {m} : locks'[l].pidQueue = locks[l].pidQueue
      BY <1>0, <1>2, <2>1, <2>2, WaitTable DEF Waits
    <3> QED BY <1>0, <2>2, <3>1, OneQueueGrows
  <2>4. running = p /\ call'[p].op = "wait" /\ \A q \in Proc \ {p} : call'[q] = call[q]
    BY <1>0, <1>2 DEF Waits, InCond
  <2>5. \A q \in Proc \ {p} : pstate'[q] = pstate[q] BY <1>0, <1>2 DEF Waits, P1SetState
  <2> QED BY <2>2, <2>3, <2>4, <2>5, BlockedJoins
<1>3. ASSUME NEW v \in CondId, NEW o, running = p, Wake(p, v, o) PROVE BlockedIsQueued'
  <2>1. UNCHANGED locks /\ \A q \in Proc \ {p} : call'[q] = call[q] BY <1>0, <1>3 DEF Wake
  <2>2. \A q \in Proc : pstate'[q] = "BLOCKED" => pstate[q] = "BLOCKED"
    BY <1>0, <1>3, WakesOnly DEF Wake
  <2> QED BY <1>3, <2>1, <2>2, SameQueues, BlockedKept
<1>4. ASSUME WaitReturn(p) \/ SignalReturn(p) PROVE BlockedIsQueued'
  <2>1. \A l \in Lid : locks'[l].pidQueue = locks[l].pidQueue
    <3>1. CASE WaitReturn(p)
      <4>1. PICK m : locks' = [locks EXCEPT ![m].state = "BUSY"] BY <3>1 DEF WaitReturn
      <4> QED BY <1>0, <4>1 DEF Lock
    <3> QED BY <1>4, <3>1 DEF SignalReturn
  <2>2. running = p /\ UNCHANGED pstate /\ \A q \in Proc \ {p} : call'[q] = call[q]
    BY <1>0, <1>4 DEF WaitReturn, SignalReturn, Returned
  <2> QED BY <2>1, <2>2, SameQueues, BlockedKept
<1> QED BY <1>0, <1>1, <1>2, <1>3, <1>4, CondUseCases

LEMMA BlockedStep == CondInv /\ [AnyCall]_condVars => BlockedIsQueued'
<1> SUFFICES ASSUME CondInv, [AnyCall]_condVars PROVE BlockedIsQueued'
  OBVIOUS
<1>0. pstate \in [Proc -> {"READY", "BLOCKED"}] /\ 0 \in Proc
  BY CondsAssumption DEF CondsAssumption, CondInv, CondTypeOK
<1>1. ASSUME NEW v \in CondId, P1_NakedSignal(v) PROVE BlockedIsQueued'
  <2>1. UNCHANGED <<locks, call>> BY <1>1 DEF P1_NakedSignal
  <2>2. \A q \in Proc : pstate'[q] = "BLOCKED" => pstate[q] = "BLOCKED"
    BY <1>0, <1>1, WakesOnly DEF P1_NakedSignal
  <2> QED BY <1>0, <2>1, <2>2, SameQueues, BlockedKept
<1>2. CASE UNCHANGED <<locks, call, pstate>> BY <1>0, <1>2, SameQueues, BlockedKept
<1> QED BY <1>1, <1>2, LockCallBlocked, CondUseBlocked
        DEF AnyCall, ClockDispatch, CondTable, P1_CondCreate, P1_CondFree, P1_CondName,
            lockVars, condVars

LEMMA CondReadyStep == CondInv /\ [AnyCall]_condVars => RunningReady'
<1> SUFFICES ASSUME CondInv, [AnyCall]_condVars PROVE RunningReady'
  OBVIOUS
<1>1. CASE P1Dispatch BY <1>1, DispatchReady DEF RunningReady
<1>2. CASE UNCHANGED <<running, pstate>> BY <1>2 DEF CondInv, RunningReady
<1>3. ASSUME NEW p \in Proc, CondUse(p) PROVE P1Dispatch \/ UNCHANGED <<running, pstate>>
  BY <1>3, CondUseCases DEF CondInv, Refuse, Waits, Wake, WakeFirst, WaitReturn, SignalReturn
<1>4. ASSUME NEW p \in Proc, LockCall(p) PROVE P1Dispatch \/ UNCHANGED <<running, pstate>>
  BY <1>4 DEF LockCall, P1_LockCreate, P1_Lock, P1_Unlock, P1_LockFree, P1_LockName, UnlockReturn
<1> QED BY <1>1, <1>2, <1>3, <1>4
        DEF AnyCall, ClockDispatch, P1_NakedSignal, WakeFirst, CondTable, P1_CondCreate,
            P1_CondFree, P1_CondName, lockVars, condVars

LEMMA CondInvInit == CondInit => CondInv
<1> SUFFICES ASSUME CondInit PROVE CondInv
  OBVIOUS
<1>1. conditions \in [CondId -> Condition] BY FreeCondType DEF CondInit, P1CondInit
<1>2. LockInv BY LockInvInit DEF CondInit
<1>3. CondTypeOK BY <1>1, <1>2 DEF LockInv, LockTypeOK, CondTypeOK
<1>4. BlockedIsQueued BY DEF CondInit, LockInit, BlockedIsQueued
<1> QED BY <1>2, <1>3, <1>4 DEF CondInv, LockInv

LEMMA CondInvStep == CondInv /\ [AnyCall]_condVars => CondInv'
<1>1. CondInv => CondTypeOK BY DEF CondInv
<1> QED BY <1>1, CondTypeStep, BlockedStep, CondReadyStep DEF CondInv

------------------------------------------------------------------------------
(* The refinement: seen through the state field and the places in P1_Wait,  *)
(* the calls are a Monitor.                                                 *)

\* What leaves every state and every wait as it was is nothing to a monitor.
LEMMA MonitorStutters ==
  ASSUME \A l \in Lid : locks'[l].state = locks[l].state,
         \A p \in Proc : call'[p].op = "wait" <=> call[p].op = "wait"
  PROVE  UNCHANGED <<Busy, Waiters>>
BY DEF Busy, Waiters

LEMMA LockCallMonitor ==
  ASSUME CondTypeOK, NEW p \in Proc, LockCall(p)
  PROVE  UNCHANGED <<Busy, Waiters>> \/ \E l \in Lid : Calls1C!Lock(l) \/ Calls1C!Unlock(l)
<1>0. locks \in [Lid -> Lock] /\ call \in [Proc -> Calls \cup CondCalls] BY DEF CondTypeOK
<1>1. Waiters' = Waiters
  <2>1. \A q \in Proc \ {p} : call'[q] = call[q]
    BY <1>0 DEF LockCall, P1_LockCreate, P1_Lock, P1_Unlock, P1_LockFree, P1_LockName, UnlockReturn
  <2>2. call' = call \/ (call[p].op # "wait" /\ call'[p].op # "wait")
    <3>1. ASSUME NEW l \in Lid, P1_Lock(p, l) PROVE call[p].op # "wait" /\ call'[p].op # "wait"
      BY <1>0, <3>1 DEF P1_Lock, NoCall, InCall
    <3>2. ASSUME NEW l \in Lid \cup {BadLid}, P1_Unlock(p, l)
          PROVE  call' = call \/ (call[p].op # "wait" /\ call'[p].op # "wait")
      BY <1>0, <3>2 DEF P1_Unlock, InClient, NoCall, InCall
    <3>3. ASSUME UnlockReturn(p) PROVE call[p].op # "wait" /\ call'[p].op # "wait"
      BY <1>0, <3>3 DEF UnlockReturn, NoCall
    <3> QED BY <3>1, <3>2, <3>3 DEF LockCall, P1_LockCreate, P1_LockFree, P1_LockName
  <2> QED BY <2>1, <2>2 DEF Waiters
<1>2. ASSUME NEW l \in Lid, locks[l].state = "FREE", locks'[l].state = "BUSY",
             \A k \in Lid \ {l} : locks'[k].state = locks[k].state
      PROVE  Calls1C!Lock(l)
  <2>1. l \notin Busy BY <1>2 DEF Busy
  <2>2. Busy' = Busy \cup {l} BY <1>2 DEF Busy
  <2> QED BY <1>1, <2>1, <2>2 DEF Calls1C!Lock
<1>3. ASSUME NEW l \in Lid, locks'[l].state = "FREE",
             \A k \in Lid \ {l} : locks'[k].state = locks[k].state
      PROVE  Calls1C!Unlock(l)
  <2>1. Busy' = Busy \ {l} BY <1>3 DEF Busy
  <2> QED BY <1>1, <2>1 DEF Calls1C!Unlock
<1>4. ASSUME \A l \in Lid : locks'[l].state = locks[l].state
      PROVE  UNCHANGED <<Busy, Waiters>>
  BY <1>1, <1>4 DEF Busy
<1>5. ASSUME NEW n \in Name \cup {NullName}, P1_LockCreate(p, n)
      PROVE  \A l \in Lid : locks'[l].state = locks[l].state
  <2>1. CASE locks' = [locks EXCEPT ![FirstFree] = [@ EXCEPT !.inuse = TRUE, !.name = n]]
    BY <1>0, <2>1 DEF Lock
  <2> QED BY <1>5, <2>1 DEF P1_LockCreate
<1>6. ASSUME NEW l \in Lid, P1_Lock(p, l)
      PROVE  (\A k \in Lid : locks'[k].state = locks[k].state) \/ Calls1C!Lock(l)
  <2>1. CASE IsFree(l) /\ locks' = [locks EXCEPT ![l] = [@ EXCEPT !.state = "BUSY", !.pid = p]]
    BY <1>0, <1>2, <2>1 DEF IsFree, Lock
  <2>2. CASE locks' = [locks EXCEPT ![l].pidQueue = Enqueue(l, p)] BY <1>0, <2>2 DEF Lock
  <2> QED BY <1>6, <2>1, <2>2 DEF P1_Lock
<1>7. ASSUME NEW l \in Lid \cup {BadLid}, P1_Unlock(p, l)
      PROVE  locks' = locks \/ (l \in Lid /\ Calls1C!Unlock(l))
  <2>1. CASE l \in Lid /\ locks' = [locks EXCEPT ![l].state = "FREE"]
    BY <1>0, <1>3, <2>1 DEF Lock
  <2> QED BY <1>7, <2>1 DEF P1_Unlock
<1>8. ASSUME NEW l \in Lid \cup {BadLid}, P1_LockFree(p, l)
      PROVE  locks' = locks \/ (l \in Lid /\ Calls1C!Unlock(l))
  <2>1. CASE ~RefusesToFree(l) /\ locks' = [locks EXCEPT ![l] = FreeLock]
    <3>1. l \in Lid BY <2>1 DEF RefusesToFree
    <3>2. locks'[l].state = "FREE" BY <1>0, <2>1, <3>1 DEF FreeLock
    <3> QED BY <1>0, <1>3, <2>1, <3>1, <3>2
  <2> QED BY <1>8, <2>1 DEF P1_LockFree
<1>9. ASSUME NEW l \in Lid, NEW n \in Name, P1_LockName(p, l, n)
      PROVE  \A k \in Lid : locks'[k].state = locks[k].state
  BY <1>0, <1>9 DEF P1_LockName, Lock
<1>10. ASSUME UnlockReturn(p) PROVE locks' = locks BY <1>10 DEF UnlockReturn
<1> QED BY <1>4, <1>5, <1>6, <1>7, <1>8, <1>9, <1>10 DEF LockCall

LEMMA WakeMonitor ==
  ASSUME CondTypeOK, NEW p \in Proc, NEW v, NEW o \in {"signal", "broadcast"}, Wake(p, v, o)
  PROVE  UNCHANGED <<Busy, Waiters>>
<1>0. call \in [Proc -> Calls \cup CondCalls] BY DEF CondTypeOK
<1>1. \A q \in Proc : call'[q].op = "wait" <=> call[q].op = "wait"
  BY <1>0 DEF Wake, InCond, NoCall
<1>2. locks' = locks BY DEF Wake
<1> QED BY <1>1, <1>2, MonitorStutters

LEMMA CondUseMonitor ==
  ASSUME CondTypeOK, NEW p \in Proc, CondUse(p)
  PROVE  UNCHANGED <<Busy, Waiters>> \/ Calls1C!Wait(p) \/ Calls1C!Return(p)
<1>0. /\ locks \in [Lid -> Lock] /\ call \in [Proc -> Calls \cup CondCalls]
      /\ conditions \in [CondId -> Condition]
  BY DEF CondTypeOK
<1>1. CASE Refuse(p) BY <1>1, MonitorStutters DEF Refuse
<1>2. ASSUME NEW v \in CondId, Waits(p, v) PROVE Calls1C!Wait(p)
  <2>1. PICK m \in Lid : m = conditions[v].lock BY <1>0 DEF Condition
  <2>2. \A l \in Lid : locks'[l].state = IF l = m THEN "FREE" ELSE locks[l].state
    BY <1>0, <1>2, <2>1, WaitTable DEF Waits
  <2>3. Busy' = Busy \ {m} BY <2>2 DEF Busy
  <2>4. p \notin Waiters BY <1>2 DEF Waits, NoCall, Waiters
  <2>5. Waiters' = Waiters \cup {p} BY <1>0, <1>2 DEF Waits, InCond, Waiters
  <2> QED BY <2>1, <2>3, <2>4, <2>5 DEF Calls1C!Wait
<1>3. ASSUME WaitReturn(p) PROVE Calls1C!Return(p)
  <2>1. p \in Waiters BY <1>3 DEF WaitReturn, Waiters
  <2>2. Waiters' = Waiters \ {p}
    BY <1>0, <1>3 DEF WaitReturn, Returned, NoCall, Waiters
  <2>3. call[p].vid \in CondId
    BY <1>0, <1>3 DEF WaitReturn, Calls, NoCall, InCall, CondCalls
  <2>4. PICK m \in Lid : m = conditions[call[p].vid].lock BY <1>0, <2>3 DEF Condition
  <2>5. locks' = [locks EXCEPT ![m].state = "BUSY"] BY <1>3, <2>4 DEF WaitReturn
  <2>6. Busy' = Busy \cup {m} BY <1>0, <2>5 DEF Busy, Lock
  <2> QED BY <2>1, <2>2, <2>6 DEF Calls1C!Return
<1>4. ASSUME SignalReturn(p) PROVE UNCHANGED <<Busy, Waiters>>
  <2>1. \A q \in Proc : call'[q].op = "wait" <=> call[q].op = "wait"
    BY <1>0, <1>4 DEF SignalReturn, Returned, NoCall
  <2>2. locks' = locks BY <1>4 DEF SignalReturn
  <2> QED BY <2>1, <2>2, MonitorStutters
<1> QED BY <1>1, <1>2, <1>3, <1>4, CondUseCases, WakeMonitor

LEMMA MonitorStep ==
  CondTypeOK /\ [AnyCall]_condVars => [Calls1C!MonitorNext]_<<Busy, Waiters>>
<1> SUFFICES ASSUME CondTypeOK, [AnyCall]_condVars
             PROVE  Calls1C!MonitorNext \/ UNCHANGED <<Busy, Waiters>>
  OBVIOUS
<1>1. CASE UNCHANGED <<locks, call>> BY <1>1, MonitorStutters
<1> QED BY <1>1, LockCallMonitor, CondUseMonitor
        DEF AnyCall, ClockDispatch, P1_NakedSignal, CondTable, P1_CondCreate, P1_CondFree,
            P1_CondName, lockVars, condVars, Calls1C!MonitorNext

LEMMA MonitorInitially == CondInit => Calls1C!MonitorInit
BY DEF CondInit, LockInit, P1LockInit, FreeLock, NoCall, Busy, Waiters, Calls1C!MonitorInit

------------------------------------------------------------------------------
(* The theorems. *)

LEMMA CondInvariance == AnyClients => []CondInv
<1>1. CondInit => CondInv BY CondInvInit
<1>2. CondInv /\ [AnyCall]_condVars => CondInv' BY CondInvStep
<1> QED BY <1>1, <1>2, PTL DEF AnyClients

\* Every variable of phase1c.c keeps its type, the lock field of a condition
\* included, into which a wake-up writes a pid (phase1c.c:303).
THEOREM CondTypeCorrect == AnyClients => []CondTypeOK
<1>1. CondInv => CondTypeOK BY DEF CondInv
<1> QED BY <1>1, CondInvariance, PTL

\* Whoever is blocked in P1_Lock or P1_Wait stands in the queue of a lock, which
\* P1_LockFree then refuses (phase1c.c:132), although conditions change their
\* lock.  It is woken only if it stands at the head.
THEOREM BlockedStayQueued == AnyClients => []BlockedIsQueued
<1>1. CondInv => BlockedIsQueued BY DEF CondInv
<1> QED BY <1>1, CondInvariance, PTL

\* A lock becomes BUSY by one P1_Lock that found it FREE or by one return from
\* P1_Wait (phase1c.c:470), never by a wake-up, whoever calls what.
THEOREM CallsRefineMonitor == AnyClients => ImplementsMonitor
<1>1. CondInit => Calls1C!MonitorInit BY MonitorInitially
<1>2. CondTypeOK /\ [AnyCall]_condVars => [Calls1C!MonitorNext]_<<Busy, Waiters>>
  BY MonitorStep
<1> QED BY <1>1, <1>2, CondTypeCorrect, PTL
        DEF AnyClients, ImplementsMonitor, Calls1C!MonitorSpec, Calls1C!monitorVars

\* The same holds of the clients that hold a condition's lock when they use it.
THEOREM CarefulRefinesMonitor == CarefulSpec => ImplementsMonitor
<1>1. CondTypeOK /\ [CarefulNext]_condVars => [AnyCall]_condVars
  <2> SUFFICES ASSUME CondTypeOK, CarefulNext PROVE AnyCall
    OBVIOUS
  <2>1. ASSUME NEW p \in Proc, OrderlyUse(p), UNCHANGED conditions PROVE AnyCall
    BY <2>1 DEF OrderlyUse, CondTypeOK, AnyCall, LockCall
  <2>2. ASSUME NEW p \in Proc, CarefulUse(p) PROVE AnyCall
    BY <2>2 DEF CarefulUse, AnyCall, CondUse, CondTable
  <2> QED BY <2>1, <2>2 DEF CarefulNext, AnyCall
<1>2. CondInit => CondTypeOK BY CondInvInit DEF CondInv
<1>3. CondTypeOK /\ [AnyCall]_condVars => CondTypeOK' BY CondTypeStep
<1>4. CarefulSpec => AnyClients BY <1>1, <1>2, <1>3, PTL DEF CarefulSpec, AnyClients
<1> QED BY <1>4, CallsRefineMonitor

==============================================================================
