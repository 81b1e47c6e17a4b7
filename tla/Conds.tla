-------------------------------- MODULE Conds --------------------------------
(***************************************************************************)
(* The condition variables of phase1c.c, over its locks.                   *)
(*                                                                         *)
(* P1_Wait, P1_Signal and P1_Broadcast are cut at their P1Dispatch, like   *)
(* the lock calls; P1_NakedSignal runs in the interrupt handler.  The code *)
(* stores pids in a queue it reads as lids, and the model does the same.   *)
(***************************************************************************)
EXTENDS Locks, FiniteSetsExt

CONSTANT P1_MAXCONDS

CondId == 0 .. P1_MAXCONDS - 1
BadCond == -1

\* A pid indexes the lock table; one past its end would read foreign memory.
ASSUME CondsAssumption ==
  /\ P1_MAXCONDS \in Nat \ {0, 1} /\ P1_MAXCONDS <= P1_MAXLOCKS
  /\ 0 \in Proc /\ Proc \subseteq Lid

VARIABLE conditions

condVars == <<lockVars, conditions>>

Condition == [inuse: BOOLEAN, name: Name \cup {NoName}, lock: Lid, lockQueue: Seq(Proc)]

\* Mutation: a free condition names no lock.
FreeCondUnlocked == [inuse |-> FALSE, name |-> NoName, lock |-> BadLid, lockQueue |-> <<>>]

FreeCond == [inuse |-> FALSE, name |-> NoName, lock |-> 0, lockQueue |-> <<>>]

\* Where p is in P1_Wait, P1_Signal or P1_Broadcast of v: the lock it gave up
\* or signals under, and the interrupt bit to restore.
InCond(o, p, v) == [op |-> o, lid |-> conditions[v].lock, vid |-> v, intr |-> intr[p]]

P1CondInit == conditions = [v \in CondId |-> FreeCond]

CondInit == LockInit /\ P1CondInit

------------------------------------------------------------------------------
(* The table of conditions. *)

\* The code counts from 0 to the first free slot, but adds one only once.
CondIndex == 1

CondCreateMaySucceed(n, l) ==
  /\ n # NullName /\ l \in Lid
  /\ \A v \in CondId : conditions[v].name # n
  /\ \E v \in CondId : ~conditions[v].inuse

\* A refused call changes nothing that is read later.
P1_CondCreate(p, n, l) ==
  /\ InClient(p)
  /\ CondCreateMaySucceed(n, l)
  /\ conditions' = [conditions EXCEPT ![CondIndex] =
                      [inuse |-> FALSE, name |-> n, lock |-> l, lockQueue |-> <<>>]]
  /\ UNCHANGED lockVars

P1_CondFree(p, v) ==
  /\ InClient(p)
  /\ v \in CondId /\ conditions[v].lockQueue = <<>>
  /\ conditions' = [conditions EXCEPT ![v] = FreeCond]
  /\ UNCHANGED lockVars

P1_CondName(p, v, n) ==
  /\ InClient(p)
  /\ v \in CondId
  /\ conditions' = [conditions EXCEPT ![v].name = n]
  /\ UNCHANGED lockVars

------------------------------------------------------------------------------
(* Waiting. *)

Recorded(p) == {l \in Lid : locks[l].pid = p}

\* "Confirm lock is held": pid is compared, state is not.
LockHeld(p, v) ==
  /\ Recorded(p) # {}
  /\ locks[conditions[v].lock].pid = p

\* Refused: interrupts stay off.
Refuse(p) ==
  /\ P1DisableInterrupts(p)
  /\ UNCHANGED <<locks, running, pstate, call, held, conditions>>

\* Mutation: the waiter is not put in the lock's queue.
ReleaseOnly(p, v) == [locks EXCEPT ![conditions[v].lock].state = "FREE"]

\* Mutation: every lock that names the caller is released.
ReleaseAll(p, v) ==
  LET released == [l \in Lid |-> IF l \in Recorded(p) THEN [locks[l] EXCEPT !.state = "FREE"] ELSE locks[l]]
  IN [released EXCEPT ![Min(Recorded(p))].pidQueue = Append(@, p)]

\* The lock table once p has released the lock of v and queued up for the
\* first lock that names it.
ReleaseAndQueue(p, v) ==
  LET released == [locks EXCEPT ![conditions[v].lock].state = "FREE"]
  IN [released EXCEPT ![Min(Recorded(p))].pidQueue = Append(@, p)]

P1_Wait(p, v) ==
  /\ InClient(p)
  /\ \/ v \notin CondId /\ Refuse(p)
     \/ v \in CondId /\ ~LockHeld(p, v) /\ Refuse(p)
     \/ /\ v \in CondId /\ LockHeld(p, v)
        /\ conditions' = [conditions EXCEPT ![v].lockQueue = Append(@, p)]
        /\ locks' = ReleaseAndQueue(p, v)
        /\ pstate' \in P1SetState(p, "BLOCKED")
        /\ call' = [call EXCEPT ![p] = InCond("wait", p, v)]
        /\ held' = [held EXCEPT ![p] = @ \ {conditions[v].lock}]
        /\ P1DisableInterrupts(p)
        /\ P1Dispatch

Returned(p) ==
  /\ intr' = [intr EXCEPT ![p] = call[p].intr]
  /\ call' = [call EXCEPT ![p] = NoCall]

\* Back from the dispatch in P1_Wait: whatever lock the condition now names
\* becomes BUSY, and the caller goes on as if it had its own again.
WaitReturn(p) ==
  /\ running = p /\ call[p].op = "wait"
  /\ locks' = [locks EXCEPT ![conditions[call[p].vid].lock].state = "BUSY"]
  /\ held' = [held EXCEPT ![p] = @ \cup {call[p].lid}]
  /\ Returned(p)
  /\ UNCHANGED <<running, pstate, conditions>>

------------------------------------------------------------------------------
(* Waking. *)

\* Whom a wake-up makes ready: the pid field of the lock whose lid equals the
\* queued pid.  Where the search finds none, nextLock is uninitialized.
WakeTargets(q) == IF q \in CondId THEN {locks[q].pid} ELSE Proc \cup {Idle}

\* Remove_Process_From_Cond, P1SetState and P1Dispatch.
WakeFirst(v) ==
  LET first == Head(conditions[v].lockQueue) IN
  /\ conditions' = [conditions EXCEPT ![v].lock = first, ![v].lockQueue = Tail(@)]
  /\ \E t \in WakeTargets(first) :
       IF t \in Proc THEN pstate' \in P1SetState(t, "READY") ELSE pstate' = pstate
  /\ P1Dispatch

Wake(p, v, o) ==
  /\ conditions[v].lockQueue # <<>>
  /\ WakeFirst(v)
  /\ call' = [call EXCEPT ![p] = IF call[p] = NoCall THEN InCond(o, p, v) ELSE call[p]]
  /\ P1DisableInterrupts(p)
  /\ UNCHANGED <<locks, held>>

\* With no waiter a signal restores the interrupt bit and changes nothing.
P1_Signal(p, v) ==
  /\ InClient(p)
  /\ \/ v \notin CondId /\ Refuse(p)
     \/ v \in CondId /\ ~LockHeld(p, v) /\ Refuse(p)
     \/ v \in CondId /\ LockHeld(p, v) /\ Wake(p, v, "signal")

\* One round of the loop of P1_Broadcast.
P1_Broadcast(p, v) ==
  \/ /\ InClient(p)
     /\ \/ v \notin CondId /\ Refuse(p)
        \/ v \in CondId /\ ~LockHeld(p, v) /\ Refuse(p)
        \/ v \in CondId /\ LockHeld(p, v) /\ Wake(p, v, "broadcast")
  \/ /\ running = p /\ call[p].op = "broadcast" /\ call[p].vid = v
     /\ Wake(p, v, "broadcast")

SignalReturn(p) ==
  /\ running = p
  /\ \/ call[p].op = "signal"
     \/ call[p].op = "broadcast" /\ conditions[call[p].vid].lockQueue = <<>>
  /\ Returned(p)
  /\ UNCHANGED <<locks, running, pstate, held, conditions>>

\* From DeviceHandler: an interrupt of whoever runs, no lock asked for.
P1_NakedSignal(v) ==
  /\ running # Idle => intr[running]
  /\ conditions[v].lockQueue # <<>>
  /\ WakeFirst(v)
  /\ UNCHANGED <<locks, intr, call, held>>

------------------------------------------------------------------------------
(* Clients. *)

CondOverflow == Overflowed \/ \E v \in CondId : Len(conditions[v].lockQueue) > P1_MAXLOCKS

CondUse(p) ==
  \/ \E v \in CondId \cup {BadCond} : P1_Wait(p, v) \/ P1_Signal(p, v) \/ P1_Broadcast(p, v)
  \/ WaitReturn(p) \/ SignalReturn(p)

\* Clients that hold the lock of a condition they created whenever they wait
\* for it or signal it, and that ask for no lock they have.
CarefulUse(p) ==
  \/ \E v \in CondId :
       /\ InClient(p) => conditions[v].name # NoName /\ conditions[v].lock \in held[p]
       /\ P1_Wait(p, v) \/ P1_Signal(p, v) \/ P1_Broadcast(p, v)
  \/ WaitReturn(p) \/ SignalReturn(p)
  \/ \E n \in Name, l \in Lid : P1_CondCreate(p, n, l)

CarefulNext ==
  /\ ~CondOverflow
  /\ \/ \E v \in CondId : P1_NakedSignal(v)
     \/ \E p \in Proc : CarefulUse(p)
     \/ /\ ClockDispatch \/ \E p \in Proc : OrderlyUse(p)
        /\ UNCHANGED conditions

CarefulSpec == CondInit /\ [][CarefulNext]_condVars

------------------------------------------------------------------------------
(* Properties. *)

CondCalls == [op: {"wait", "signal", "broadcast"}, lid: Lid, vid: CondId, intr: BOOLEAN]

\* Every variable keeps its type: phase1c.c:22-39 and 282-294.
CondTypeOK ==
  /\ locks \in [Lid -> Lock]
  /\ running \in Proc \cup {Idle}
  /\ pstate \in [Proc -> {"READY", "BLOCKED"}]
  /\ intr \in [Proc -> BOOLEAN]
  /\ call \in [Proc -> Calls \cup CondCalls]
  /\ held \in [Proc -> SUBSET Lid]
  /\ conditions \in [CondId -> Condition]

\* A blocked process is inside P1_Lock or P1_Wait and stands in the queue of
\* some lock, whatever happens to the condition it waits for (created anew,
\* freed, signalled for another), so that this lock is not freed under it.  It
\* need not be woken: P1_Unlock wakes only the head of the queue, which stays
\* there: phase1c.c:132, 237 and 435-452.
BlockedIsQueued ==
  \A p \in Proc :
    pstate[p] = "BLOCKED" => /\ call[p].op \in {"lock", "wait"}
                             /\ \E l \in Lid : p \in Queued(l)

\* "Acquire(cv->lock)": P1_Wait returns with a lock no other process has.
WaitReacquires == MutualExclusion

------------------------------------------------------------------------------
(* The calls implement Monitor: that is all phases 2 and 3 assume of them.   *)

Busy == {l \in Lid : locks[l].state = "BUSY"}
Waiters == {p \in Proc : call[p].op = "wait"}

Calls1C == INSTANCE Monitor WITH busy <- Busy, waiting <- Waiters

\* No lock becomes BUSY but by a P1_Lock that found it FREE or by a process
\* that comes back from its wait, one at a time, whatever was signalled in
\* between: a wake-up hands no lock over.
ImplementsMonitor == Calls1C!MonitorSpec

==============================================================================
