-------------------------------- MODULE Sleep --------------------------------
(***************************************************************************)
(* phase2b.c: P2_Sleep and the driver of the clock.                        *)
(***************************************************************************)
EXTENDS Clients

CONSTANT Second (* the seconds a clock may show or a user may ask for *)

ASSUME SecondAssumption == Second \subseteq Int /\ 0 \in Second

VARIABLES
  now,          (* what the driver read last, in seconds *)
  sleeperPIDSec (* the seconds each user asked for       *)

sleepVars == <<now, sleeperPIDSec>>

SleepInit ==
  /\ now = 0
  /\ sleeperPIDSec = [u \in User |-> 0]

------------------------------------------------------------------------------
(* P2ClockInit, the first thing P2_Startup does.  That the driver could not  *)
(* be forked goes unnoticed.                                                 *)

P2ClockInit ==
  /\ \/ At("startup", "init") /\ P1_LockCreate /\ GoTo("startup", "fork")
     \/ /\ At("startup", "fork")
        /\ \E a \in {"none", "enter"} : pc' = [pc EXCEPT !["startup"] = "disk", !["clock"] = a]
        /\ UNCHANGED lockVars
  /\ UNCHANGED <<deviceVars, sleepVars>>

(* The driver.  A broadcast changes nothing here. *)

ClockEnter ==
  /\ At("clock", "enter")
  /\ \/ StartDeviceWait("clock")
     \/ /\ "clock" \in abort
        /\ GoTo("clock", "over")
        /\ UNCHANGED <<lockVars, deviceVars>>
  /\ UNCHANGED sleepVars

\* The reading may be that of another device, or missing after an abort.
ClockRead ==
  /\ DeviceWaitReturns("clock", "lock")
  /\ now' \in IF "clock" \in abort THEN {now} ELSE Second
  /\ UNCHANGED sleeperPIDSec

ClockBroadcast ==
  /\ \/ At("clock", "lock") /\ P1_Lock /\ GoTo("clock", "broadcast")
     \/ At("clock", "broadcast") /\ P1_Unlock /\ GoTo("clock", "enter")
  /\ UNCHANGED <<deviceVars, sleepVars>>

ClockDriver == ClockEnter \/ ClockRead \/ ClockBroadcast

------------------------------------------------------------------------------
(* P2_Sleep. *)

P2_Sleep(u, seconds) ==
  /\ At(u, "user") /\ seconds >= 0
  /\ P1_Lock
  /\ sleeperPIDSec' = [sleeperPIDSec EXCEPT ![u] = seconds]
  /\ GoTo(u, "sleep")
  /\ UNCHANGED <<now, deviceVars>>

SleepIsOver(u) == now >= sleeperPIDSec[u]

SleepReturns(u) ==
  /\ At(u, "sleep") /\ SleepIsOver(u)
  /\ sleeperPIDSec' = [sleeperPIDSec EXCEPT ![u] = 0]
  /\ P1_Unlock
  /\ GoTo(u, "user")
  /\ UNCHANGED <<now, deviceVars>>

SleepTest(u) ==
  \/ At(u, "sleep") /\ ~SleepIsOver(u) /\ P1_Wait(u, "sleep") /\ UNCHANGED sleepVars
  \/ pc[u] = "sleep" /\ WaitReturns(u) /\ UNCHANGED sleepVars
  \/ SleepReturns(u)

SleepNext ==
  \/ P2ClockInit \/ ClockDriver
  \/ \E u \in User : SleepTest(u) \/ \E s \in Second : P2_Sleep(u, s)

==============================================================================
