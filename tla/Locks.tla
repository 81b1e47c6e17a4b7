-------------------------------- MODULE Locks --------------------------------
(***************************************************************************)
(* The lock half of phase1c.c, run by several processes on one CPU.        *)
(*                                                                         *)
(* A call runs with interrupts off from P1DisableInterrupts to the next    *)
(* P1Dispatch, so the code between two dispatches is one action.  What a   *)
(* process still has to do after a dispatch is kept in call[p].            *)
(*                                                                         *)
(* P1SetState and P1Dispatch are the scheduler that phase1c.c is written   *)
(* against: a state change and a switch to some ready process.  phase1b.c  *)
(* has P1SetState as an empty stub; StubSetState = TRUE adds that outcome. *)
(***************************************************************************)
EXTENDS Integers, Sequences, FiniteSets

CONSTANTS
  Proc,         (* pids, small integers: the code compares them with lids     *)
  P1_MAXLOCKS,
  PidQueueLen,  (* slots of Lock.pidQueue, 10 in the code                     *)
  Name,         (* lock names that are not empty                              *)
  Newline,      (* those with a newline in their first P1_MAXNAME characters  *)
  StubSetState  (* may P1SetState return without changing the state?          *)

Lid == 0 .. P1_MAXLOCKS - 1
BadLid == -1   \* a lid no lock has
Idle == -1     \* the CPU has no ready process but the sentinel
NoName == "no name"
NullName == "null name"

ASSUME LocksAssumption ==
  /\ Proc \subseteq Nat
  /\ P1_MAXLOCKS \in Nat \ {0}
  /\ PidQueueLen \in Nat \ {0}
  /\ NoName \notin Name /\ NullName \notin Name
  /\ Newline \subseteq Name
  /\ StubSetState \in BOOLEAN

VARIABLES
  locks,    (* the lock table                                             *)
  running,  (* the process on the CPU                                     *)
  pstate,   (* scheduler state of each process                            *)
  intr,     (* interrupt-enable bit of each process's PSR                 *)
  call,     (* where each process is inside a blocking call               *)
  held      (* history: the locks each process got and did not give back  *)

lockVars == <<locks, running, pstate, intr, call, held>>

Lock == [inuse: BOOLEAN, name: Name \cup {NoName}, state: {"FREE", "BUSY"},
         pid: Nat, pidQueue: Seq(Proc)]
NoCall == [op |-> "none", lid |-> BadLid]
InCall(o, l) == [op |-> o, lid |-> l]
Calls == {NoCall} \cup {InCall(o, l) : o \in {"lock", "unlock"}, l \in Lid}

FreeLock == [inuse |-> FALSE, name |-> NoName, state |-> "FREE", pid |-> 0, pidQueue |-> <<>>]

\* Mutation: pid starts as "nobody".
LockInitNobody == locks = [l \in Lid |-> [FreeLock EXCEPT !.pid = Idle]]

\* The lock table is static, hence zeroed, before P1LockInit runs.
P1LockInit ==
  locks = [l \in Lid |-> FreeLock]

LockInit ==
  /\ P1LockInit
  /\ running \in Proc
  /\ pstate = [p \in Proc |-> "READY"]
  /\ intr = [p \in Proc |-> TRUE]
  /\ call = [p \in Proc |-> NoCall]
  /\ held = [p \in Proc |-> {}]

------------------------------------------------------------------------------
(* The scheduler. *)

Ready(ps) == {p \in Proc : ps[p] = "READY"}

\* The values pstate may have after P1SetState(p, s).
P1SetState(p, s) ==
  {[pstate EXCEPT ![p] = s]} \cup (IF StubSetState THEN {pstate} ELSE {})

\* The CPU goes to a ready process, to the caller perhaps.
P1Dispatch ==
  running' \in (IF Ready(pstate') = {} THEN {Idle} ELSE Ready(pstate'))

\* A clock interrupt makes DeviceHandler call P1Dispatch(TRUE).
ClockDispatch ==
  /\ running # Idle => intr[running]
  /\ UNCHANGED <<locks, pstate, intr, call, held>>
  /\ P1Dispatch

------------------------------------------------------------------------------
(* The calls.  Process p makes them from its own code, not within another. *)

InClient(p) == running = p /\ call[p] = NoCall

P1DisableInterrupts(p) == intr' = [intr EXCEPT ![p] = FALSE]
P1EnableInterrupts(p) == intr' = [intr EXCEPT ![p] = TRUE]

FreeSlots == {l \in Lid : ~locks[l].inuse}
FirstFree == CHOOSE l \in FreeSlots : \A k \in FreeSlots : l <= k

\* Mutation: only the first slot is compared.
DuplicateOfFirst(n) == locks[0].name = n

DuplicateName(n) == \E l \in Lid : locks[l].name = n

\* The scan for the newline reads past a name that has none, so such a name
\* is refused or not depending on what the memory behind it holds.
CreateMayFail(n) ==
  n = NullName \/ n \notin Newline \/ FreeSlots = {} \/ DuplicateName(n)
CreateMaySucceed(n) ==
  n # NullName /\ FreeSlots # {} /\ ~DuplicateName(n)

P1_LockCreate(p, n) ==
  /\ InClient(p)
  /\ \/ /\ CreateMayFail(n)
        /\ P1DisableInterrupts(p)     \* the early returns do not restore them
        /\ UNCHANGED locks
     \/ /\ CreateMaySucceed(n)
        /\ locks' = [locks EXCEPT ![FirstFree] = [@ EXCEPT !.inuse = TRUE, !.name = n]]
        /\ UNCHANGED intr
  /\ UNCHANGED <<running, pstate, call, held>>

HasWaiters(l) == locks[l].pidQueue # <<>>

\* Mutation: the test of queueIndex is gone.
RefusesUnknown(l) == l \notin Lid

RefusesToFree(l) == l \in Lid => HasWaiters(l)

P1_LockFree(p, l) ==
  /\ InClient(p)
  /\ \/ /\ RefusesToFree(l)
        /\ P1DisableInterrupts(p)
        /\ UNCHANGED <<locks, held>>
     \/ /\ ~RefusesToFree(l)
        /\ locks' = [locks EXCEPT ![l] = FreeLock]
        /\ held' = [held EXCEPT ![p] = @ \ {l}]
        /\ UNCHANGED intr
  /\ UNCHANGED <<running, pstate, call>>

\* The name is copied into the lock; a short len leaves a mix of two names.
P1_LockName(p, l, n) ==
  /\ InClient(p)
  /\ l \in Lid
  /\ locks' = [locks EXCEPT ![l].name = n]
  /\ UNCHANGED <<running, pstate, intr, call, held>>

\* Mutation: the wrong flag is tested.
IsUnused(l) == ~locks[l].inuse

IsFree(l) == locks[l].state = "FREE"

\* Mutation: queueIndex does not advance.
EnqueueInPlace(l, p) == <<p>>

\* The queue of lock l with p behind the others: it only ever grows.
Enqueue(l, p) == Append(locks[l].pidQueue, p)

\* One round of the loop of P1_Lock: take the lock, or queue up and dispatch.
P1_Lock(p, l) ==
  /\ running = p /\ call[p] \in {NoCall, InCall("lock", l)}
  /\ \/ /\ IsFree(l)
        /\ locks' = [locks EXCEPT ![l] = [@ EXCEPT !.state = "BUSY", !.pid = p]]
        /\ call' = [call EXCEPT ![p] = NoCall]
        /\ held' = [held EXCEPT ![p] = @ \cup {l}]
        /\ UNCHANGED <<running, pstate>>
     \/ /\ ~IsFree(l)
        /\ pstate' \in P1SetState(p, "BLOCKED")
        /\ locks' = [locks EXCEPT ![l].pidQueue = Enqueue(l, p)]
        /\ call' = [call EXCEPT ![p] = InCall("lock", l)]
        /\ P1Dispatch
        /\ UNCHANGED held
  /\ UNCHANGED intr

\* The process P1_Unlock makes ready: the first that ever queued up.
NextWaiter(l) == Head(locks[l].pidQueue)

P1_Unlock(p, l) ==
  /\ InClient(p)
  /\ \/ /\ l \notin Lid
        /\ P1DisableInterrupts(p)
        /\ UNCHANGED <<locks, running, pstate, call, held>>
     \/ /\ l \in Lid
        /\ locks' = [locks EXCEPT ![l].state = "FREE"]
        /\ held' = [held EXCEPT ![p] = @ \ {l}]
        /\ IF HasWaiters(l)
           THEN /\ pstate' \in P1SetState(NextWaiter(l), "READY")
                /\ call' = [call EXCEPT ![p] = InCall("unlock", l)]
                /\ P1DisableInterrupts(p)
                /\ P1Dispatch
           ELSE /\ P1EnableInterrupts(p)
                /\ UNCHANGED <<running, pstate, call>>

\* Mutation: the state is set after the dispatch.
UnlockAfterDispatch(p) ==
  /\ running = p /\ call[p].op = "unlock"
  /\ locks' = [locks EXCEPT ![call[p].lid].state = "FREE"]
  /\ P1EnableInterrupts(p)
  /\ call' = [call EXCEPT ![p] = NoCall]
  /\ UNCHANGED <<running, pstate, held>>

\* Back from the dispatch in P1_Unlock.
UnlockReturn(p) ==
  /\ running = p /\ call[p].op = "unlock"
  /\ P1EnableInterrupts(p)
  /\ call' = [call EXCEPT ![p] = NoCall]
  /\ UNCHANGED <<locks, running, pstate, held>>

------------------------------------------------------------------------------
(* Clients give back only locks they hold and free no lock another holds.  *)

\* A queue that outgrew its array has overwritten the fields behind it.
Overflowed == \E l \in Lid : Len(locks[l].pidQueue) > PidQueueLen

LockUse(p) ==
  \/ \E l \in Lid : P1_Lock(p, l)
  \/ \E l \in held[p] : P1_Unlock(p, l)
  \/ UnlockReturn(p)

LockTable(p) ==
  \/ \E n \in Name \cup {NullName} : P1_LockCreate(p, n)
  \/ \E l \in Lid \cup {BadLid} :
       (\A q \in Proc \ {p} : l \notin held[q]) /\ P1_LockFree(p, l)
  \/ P1_Unlock(p, BadLid)

LockRename(p) == \E l \in Lid, n \in Name : P1_LockName(p, l, n)

LockNext ==
  /\ ~Overflowed
  /\ \/ ClockDispatch
     \/ \E p \in Proc : LockUse(p) \/ LockTable(p) \/ LockRename(p)

LockSpec == LockInit /\ [][LockNext]_lockVars

\* Of LockUse, what clients do that ask for no lock they have already and give
\* back no other.
OrderlyUse(p) ==
  \/ \E l \in Lid \ held[p] : P1_Lock(p, l)
  \/ \E l \in held[p] : P1_Unlock(p, l)
  \/ UnlockReturn(p)

------------------------------------------------------------------------------
(* Properties. *)

\* Every variable keeps its type: phase1c.c:22-39.
LockTypeOK ==
  /\ locks \in [Lid -> Lock]
  /\ running \in Proc \cup {Idle}
  /\ pstate \in [Proc -> {"READY", "BLOCKED"}]
  /\ intr \in [Proc -> BOOLEAN]
  /\ call \in [Proc -> Calls]
  /\ held \in [Proc -> SUBSET Lid]

\* Two processes never both have a lock that P1_Lock gave them, whatever
\* the clock interrupts, wake-ups and retries in between.
MutualExclusion == \A p, q \in Proc : p # q => held[p] \cap held[q] = {}

\* A lock some process has is BUSY in the table and names that process, so
\* the ownership test of P1_Wait and P1_Signal (locks[i].pid) can succeed.
OwnerRecorded ==
  \A p \in Proc : \A l \in held[p] : locks[l].state = "BUSY" /\ locks[l].pid = p

Queued(l) == {locks[l].pidQueue[i] : i \in 1 .. Len(locks[l].pidQueue)}

\* A process inside P1_Lock stands in the queue of that lock, and only such
\* a process is blocked, so the test of P1_LockFree sees every waiter: phase1c.c:132 and
\* 179-185.  It need not be served: P1_Unlock wakes the head of the queue
\* alone, and nobody ever leaves the queue (phase1c.c:237).
WaiterQueued ==
  \A p \in Proc :
    /\ call[p].op = "lock" => p \in Queued(call[p].lid)
    /\ pstate[p] = "BLOCKED" => call[p].op = "lock"

\* P1_LockFree never takes a lock away under a process that waits for it,
\* nor under one that was woken and has yet to try again.
FreedLockHasNoWaiter ==
  [][\A l \in Lid : locks[l].inuse /\ ~locks'[l].inuse
                      => \A p \in Proc : call[p] # InCall("lock", l)]_lockVars

\* "Locks are created with a unique name": a lock that comes into use has a
\* name no other lock in use has, whatever was renamed and freed before.
CreatedNameIsNew ==
  [][\A k, l \in Lid :
       k # l /\ locks[k].inuse /\ ~locks[l].inuse /\ locks'[l].inuse
         => locks'[k].name # locks'[l].name]_lockVars

------------------------------------------------------------------------------
(* The table implements Mutex: the owner of a BUSY lock is its pid field.  *)

OwnerOf(l) == IF locks[l].state = "FREE" THEN Idle ELSE locks[l].pid

M == INSTANCE Mutex WITH NoOwner <- Idle, owner <- [l \in Lid |-> OwnerOf(l)]

\* Seen through the pid and state fields, P1_Lock, P1_Unlock and P1_LockFree
\* only acquire a free lock or release one on behalf of its owner.
ImplementsMutex == M!MutexSpec

==============================================================================
