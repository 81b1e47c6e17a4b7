------------------------------- MODULE Clients -------------------------------
(***************************************************************************)
(* The processes of phases 2b and 2c and what they share: the lock lid and *)
(* its condition, which both files declare as the same global variables    *)
(* and create one after the other, and the devices they wait for.          *)
(*                                                                         *)
(* A system call runs with interrupts off, so a user process is one step   *)
(* from one call of phase 1 to the next; the drivers and P2_Startup have   *)
(* interrupts on and are cut between any two accesses to shared data.  Of  *)
(* phase 1 they know what Monitor says: a call that is refused, a signal   *)
(* or a broadcast changes nothing here, and a failed assertion is a step   *)
(* that is not taken.                                                      *)
(***************************************************************************)
EXTENDS FiniteSets, Integers

CONSTANTS
  User, (* the processes that P2_Spawn may create *)
  Unit  (* the disks; each names its driver       *)

Driver == Unit \cup {"clock"}
Proc == {"startup"} \cup Driver \cup User

ASSUME ClientsAssumption ==
  /\ User \cap ({"startup"} \cup Driver) = {}
  /\ Unit \cap {"startup", "clock"} = {}
  /\ IsFiniteSet(User)

VARIABLES
  pc,      (* where each process is                             *)
  lid,     (* "zero" as the program begins, "own" once created  *)
  busy,    (* {"lid"} while the lock lid names is BUSY          *)
  waiting, (* the processes in P1_Wait(vid)                     *)
  abort,   (* the drivers whose device has its abort flag set   *)
  toAbort  (* the disks P2DiskShutdown has not aborted yet      *)

lockVars == <<lid, busy, waiting>>
deviceVars == <<abort, toAbort>>
clientVars == <<pc, lockVars, deviceVars>>

Phase1 == INSTANCE Monitor WITH Lid <- {"lid"}

\* P2_Startup begins.  The abort flags are those malloc left.
ClientsInit ==
  /\ pc = [p \in Proc |-> IF p = "startup" THEN "init" ELSE "none"]
  /\ lid = "zero" /\ Phase1!MonitorInit
  /\ abort \in SUBSET Driver /\ toAbort = Unit

At(p, a) == pc[p] = a /\ p \notin waiting
GoTo(p, a) == pc' = [pc EXCEPT ![p] = a]

\* A lock that cannot be created leaves lid as it was, and nobody is told.
P1_LockCreate ==
  /\ \/ lid' = "own" /\ busy' = {}
     \/ UNCHANGED <<lid, busy>>
  /\ UNCHANGED waiting

P1_Lock == Phase1!Lock("lid") /\ UNCHANGED lid
P1_Unlock == Phase1!Unlock("lid") /\ UNCHANGED lid

\* Lock 0 is the first that phase1d.c creates, and also what every lock that
\* could not be created goes by: its other users take it and give it back.
LockOfOthers == lid = "zero" /\ (P1_Lock \/ P1_Unlock) /\ UNCHANGED <<pc, deviceVars>>

\* p comes back at next, where it tests again what it waits for.
P1_Wait(p, next) == Phase1!Wait(p) /\ GoTo(p, next) /\ UNCHANGED <<lid, deviceVars>>
WaitReturns(p) == Phase1!Return(p) /\ UNCHANGED <<pc, lid, deviceVars>>

\* Refused once the flag is set, as the assertion or test that follows says.
StartDeviceWait(d) ==
  /\ d \notin abort
  /\ GoTo(d, "device")
  /\ UNCHANGED <<lockVars, deviceVars>>

\* An abort does not end a wait, and is cleared with the interrupt.
DeviceWaitReturns(d, next) ==
  /\ At(d, "device") /\ GoTo(d, next)
  /\ abort' = abort \ {d}
  /\ UNCHANGED <<lockVars, toAbort>>

==============================================================================
