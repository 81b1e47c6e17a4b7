------------------------------- MODULE UserSync -------------------------------
(***************************************************************************)
(* phase2d.c: the locks and conditions of user processes, over phase1c.c.  *)
(*                                                                         *)
(* A stub makes the call of the kernel if the lock or condition is marked  *)
(* as the users'; if it is not, it returns an error and changes nothing.   *)
(* If the call is refused an assertion stops the machine, so nothing       *)
(* follows.  User processes are trusted with their own locks: they release *)
(* and free any of them, whoever holds it.                                 *)
(***************************************************************************)
EXTENDS Conds

CONSTANTS
  KernelProc, (* the processes that run code of the kernel, system calls included *)
  UserProc    (* the processes that make the calls of phase2d.c                   *)

ASSUME UserSyncAssumption == KernelProc \subseteq Proc /\ UserProc \subseteq Proc

VARIABLES
  UserLockLID, (* the locks that are marked                              *)
  UserCondVID, (* the conditions that are marked                         *)
  kernelLocks  (* history: the locks the kernel created for itself       *)

markVars == <<UserLockLID, UserCondVID, kernelLocks>>
syncVars == <<condVars, markVars>>

SyncInit ==
  /\ CondInit
  /\ UserLockLID = {} /\ UserCondVID = {} /\ kernelLocks = {}

------------------------------------------------------------------------------
(* The stubs. *)

Created == locks' # locks

LockCreateStub(p, n) ==
  /\ P1_LockCreate(p, n) /\ Created
  /\ UserLockLID' = UserLockLID \cup {FirstFree}
  /\ UNCHANGED <<conditions, UserCondVID, kernelLocks>>

\* A lock that is busy makes the caller wait inside P1_Lock.
LockAcquireStub(p, l) ==
  /\ InClient(p) /\ l \in UserLockLID
  /\ P1_Lock(p, l)
  /\ UNCHANGED <<conditions, markVars>>

LockReleaseStub(p, l) ==
  /\ l \in UserLockLID
  /\ P1_Unlock(p, l)
  /\ UNCHANGED <<conditions, markVars>>

\* Mutation: the mark stays.
StaysMarked(l) == UserLockLID

Unmarked(l) == UserLockLID \ {l}

LockFreeStub(p, l) ==
  /\ l \in UserLockLID /\ ~RefusesToFree(l)
  /\ P1_LockFree(p, l)
  /\ UserLockLID' = Unmarked(l)
  /\ UNCHANGED <<conditions, UserCondVID, kernelLocks>>

LockNameStub(p, l, n) ==
  /\ l \in UserLockLID
  /\ P1_LockName(p, l, n)
  /\ UNCHANGED <<conditions, markVars>>

CondCreateStub(p, n, l) ==
  /\ l \in UserLockLID
  /\ P1_CondCreate(p, n, l)
  /\ UserCondVID' = UserCondVID \cup {CondIndex}
  /\ UNCHANGED <<UserLockLID, kernelLocks>>

\* The three calls need the condition's lock; without it they are refused.
CondUseStub(p, v) ==
  /\ v \in UserCondVID /\ LockHeld(p, v) /\ InClient(p)
  /\ P1_Wait(p, v) \/ P1_Signal(p, v) \/ P1_Broadcast(p, v)
  /\ UNCHANGED markVars

CondFreeStub(p, v) ==
  /\ v \in UserCondVID
  /\ P1_CondFree(p, v)
  /\ UserCondVID' = UserCondVID \ {v}
  /\ UNCHANGED <<UserLockLID, kernelLocks>>

CondNameStub(p, v, n) ==
  /\ v \in UserCondVID
  /\ P1_CondName(p, v, n)
  /\ UNCHANGED markVars

Stub(p) ==
  \/ \E n \in Name : LockCreateStub(p, n)
  \/ \E l \in Lid : LockAcquireStub(p, l) \/ LockReleaseStub(p, l) \/ LockFreeStub(p, l)
  \/ \E l \in Lid, n \in Name : LockNameStub(p, l, n) \/ CondCreateStub(p, n, l)
  \/ \E v \in CondId : CondUseStub(p, v) \/ CondFreeStub(p, v)
  \/ \E v \in CondId, n \in Name : CondNameStub(p, v, n)

------------------------------------------------------------------------------
(* The kernel, on behalf of any process.  It creates locks and conditions    *)
(* and uses them; it frees and renames none.                                 *)

KernelCreates(p) ==
  \/ \E n \in Name : /\ P1_LockCreate(p, n)
                     /\ kernelLocks' = IF Created THEN kernelLocks \cup {FirstFree} ELSE kernelLocks
                     /\ UNCHANGED <<conditions, UserLockLID, UserCondVID>>
  \/ \E n \in Name, l \in Lid : P1_CondCreate(p, n, l) /\ UNCHANGED markVars

KernelUses(p) ==
  /\ \/ CondUse(p)
     \/ LockUse(p) /\ UNCHANGED conditions
  /\ UNCHANGED markVars

Interrupted ==
  /\ \/ \E v \in CondId : P1_NakedSignal(v)
     \/ ClockDispatch /\ UNCHANGED conditions
  /\ UNCHANGED markVars

SyncNext ==
  /\ ~CondOverflow
  /\ \/ Interrupted
     \/ \E p \in KernelProc : KernelCreates(p) \/ KernelUses(p)
     \/ \E p \in UserProc : Stub(p)

SyncSpec == SyncInit /\ [][SyncNext]_syncVars

------------------------------------------------------------------------------
(* Properties. *)

\* Every variable keeps its type: phase2d.c:29-30.
SyncTypeOK ==
  /\ CondTypeOK
  /\ UserLockLID \subseteq Lid /\ UserCondVID \subseteq CondId
  /\ kernelLocks \subseteq Lid

\* A lock the kernel created stays in use and out of the users' reach,
\* although its slot may have been a user's before.
KernelLocksKept == \A l \in kernelLocks : locks[l].inuse /\ l \notin UserLockLID

==============================================================================
