-------------------------------- MODULE Mutex --------------------------------
(***************************************************************************)
(* What a lock table promises to its clients, with no queue, scheduler or  *)
(* interrupt bit in sight: every lock has at most one owner, a free lock   *)
(* may be taken, and only its owner gives a lock back.  Locks.tla (the     *)
(* code of phase1c.c) implements this for clients that give back what they *)
(* have; Devices.tla uses it in place of the device locks.                 *)
(***************************************************************************)
CONSTANTS
  Proc,   (* the processes that take locks  *)
  Lid,    (* the locks                      *)
  NoOwner (* the owner of a free lock, not a process *)

VARIABLE owner

MutexInit == owner = [l \in Lid |-> NoOwner]

Acquire(p, l) ==
  /\ owner[l] = NoOwner
  /\ owner' = [owner EXCEPT ![l] = p]

Release(p, l) ==
  /\ owner[l] = p
  /\ owner' = [owner EXCEPT ![l] = NoOwner]

MutexNext == \E p \in Proc, l \in Lid : Acquire(p, l) \/ Release(p, l)

MutexSpec == MutexInit /\ [][MutexNext]_owner

==============================================================================
