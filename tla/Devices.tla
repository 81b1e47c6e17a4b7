------------------------------- MODULE Devices -------------------------------
(***************************************************************************)
(* phase1d.c: processes that wait for device interrupts.                   *)
(*                                                                         *)
(* P1_DeviceWait polls the interrupt flag of its device with interrupts    *)
(* on, so DeviceHandler may run, and dispatch, between any two of its      *)
(* steps.  The device locks are those of Mutex, which Locks implements;    *)
(* P1Dispatch goes to any process that does not wait for a lock.  A call   *)
(* refused for its type or unit, or because the device was aborted,        *)
(* changes nothing.  Of a status only matters here that it was read.       *)
(***************************************************************************)
EXTENDS Integers, FiniteSets

CONSTANTS
  Proc,          (* the processes                                         *)
  Dev,           (* the devices processes wait for, as <<type, unit>>     *)
  NoProc,        (* the owner of a free lock                              *)
  SIGNALTICKS,   (* clock interrupts per wake-up, 5 in the code            *)
  DISPATCHTICKS, (* clock interrupts per dispatch, 4 in the code           *)
  MAXTICKS       (* bound: the counters of both are kept exactly up to here *)

Type == {"clock", "alarm", "disk", "term"}
Clock == <<"clock", 0>>
NoDev == <<"none", 0>>

ASSUME DevicesAssumption ==
  /\ Dev \subseteq {<<"clock", 0>>, <<"alarm", 0>>} \cup ({"disk"} \X {0, 1}) \cup ({"term"} \X (0 .. 3))
  /\ (\E d \in Dev : d[1] = "term") => <<"term", 0>> \in Dev
  /\ NoProc \notin Proc
  /\ {SIGNALTICKS, DISPATCHTICKS} \subseteq Nat \ {0}
  /\ MAXTICKS \in Nat /\ MAXTICKS > SIGNALTICKS /\ MAXTICKS > DISPATCHTICKS

VARIABLES
  lidOf,         (* the lock of each device type                          *)
  owner,         (* the owner of each lock                                *)
  interrupt,     (* the interrupt flag of each device                     *)
  abort,         (* the abort flag of each device                         *)
  clockSignal, clockDispatch,
  running,       (* the process on the CPU                                *)
  intr,          (* the interrupt bit of each process's PSR               *)
  wait,          (* where each process is in P1_DeviceWait, and for what  *)
  handler,       (* what is left to do of a DeviceHandler each is in      *)
  fresh          (* history: the devices with an interrupt whose status   *)
                 (* no process has read                                   *)

flagVars == <<interrupt, abort>>
tickVars == <<clockSignal, clockDispatch>>
devVars == <<lidOf, owner, flagVars, tickVars, running, intr, wait, handler, fresh>>

SharedLid == "lid 0"
DeviceLid == Type \cup {SharedLid}

M == INSTANCE Mutex WITH Lid <- DeviceLid, NoOwner <- NoProc

------------------------------------------------------------------------------
(* Start-up. *)

\* Mutation: a lid that was refused is no lid at all.
LidsLeftOut ==
  \E refused \in SUBSET Type :
    lidOf = [t \in {d[1] : d \in Dev} |-> IF t \in refused THEN "no lid" ELSE t]

\* P1_LockCreate may refuse any of the names, which end in no newline; the
\* lid is then the 0 of a global variable.  A lid stands for its type here.
createLockAndCond ==
  \E refused \in SUBSET Type :
    lidOf = [t \in {d[1] : d \in Dev} |-> IF t \in refused THEN SharedLid ELSE t]

\* The abort flag that Update_Status tests and clears: that of a disk for a
\* terminal.
AbortCell(d) == IF d[1] = "term" THEN <<"disk", d[2]>> ELSE d

Cell == Dev \cup {AbortCell(d) : d \in Dev}

\* malloc does not clear the flags.
createDevices == interrupt \in [Dev -> BOOLEAN] /\ abort \in [Cell -> BOOLEAN]

startup ==
  /\ createLockAndCond /\ createDevices
  /\ M!MutexInit
  /\ clockSignal = 0 /\ clockDispatch = 0
  /\ running \in Proc
  /\ intr = [p \in Proc |-> TRUE]
  /\ wait = [p \in Proc |-> [at |-> "no", dev |-> NoDev]]
  /\ handler = [p \in Proc |-> "none"]
  /\ fresh = {d \in Dev : interrupt[d]}

------------------------------------------------------------------------------
(* The scheduler. *)

At(p, a) == running = p /\ handler[p] = "none" /\ wait[p].at = a
GoTo(p, a) == wait' = [wait EXCEPT ![p].at = a]

LockOf(p) == lidOf[wait[p].dev[1]]
Runnable == {p \in Proc : wait[p].at = "lock" => owner[LockOf(p)] = NoProc}

P1Dispatch == running' \in Runnable'

------------------------------------------------------------------------------
(* P1_DeviceWait and P1_DeviceAbort. *)

StartWait(p, d) ==
  /\ At(p, "no") /\ ~abort[d]
  /\ wait' = [wait EXCEPT ![p] = [at |-> "lock", dev |-> d]]
  /\ intr' = [intr EXCEPT ![p] = FALSE]
  /\ UNCHANGED <<lidOf, owner, flagVars, tickVars, running, handler, fresh>>

\* P1_Lock, and the USLOSS_PsrSet after it.
Locked(p) ==
  /\ At(p, "lock")
  /\ M!Acquire(p, LockOf(p))
  /\ GoTo(p, "poll")
  /\ intr' = [intr EXCEPT ![p] = TRUE]
  /\ UNCHANGED <<lidOf, flagVars, tickVars, running, handler, fresh>>

Blocked(p) ==
  /\ At(p, "lock") /\ owner[LockOf(p)] # NoProc
  /\ UNCHANGED <<lidOf, owner, flagVars, tickVars, intr, wait, handler, fresh>>
  /\ P1Dispatch

\* The flag that Wait_For_Interrupt_Or_Abort looks at: for a terminal that
\* of unit 0.  It looks at no abort flag.
Polled(d) == IF d[1] = "term" THEN <<"term", 0>> ELSE d

Wait_For_Interrupt_Or_Abort(p) ==
  /\ At(p, "poll") /\ interrupt[Polled(wait[p].dev)]
  /\ GoTo(p, "read")
  /\ UNCHANGED <<lidOf, owner, flagVars, tickVars, running, intr, handler, fresh>>

\* Update_Status: first the status is read, then the flags are cleared.  The
\* status is that of whatever device interrupted last, or is left alone if the
\* device was aborted.
ReadStatus(p) ==
  /\ At(p, "read")
  /\ GoTo(p, "clear")
  /\ fresh' = fresh \ {wait[p].dev}
  /\ UNCHANGED <<lidOf, owner, flagVars, tickVars, running, intr, handler>>

\* Mutation: the interrupt flag is left as it is.
ClearAbortOnly(p) ==
  /\ At(p, "clear")
  /\ GoTo(p, "unlock")
  /\ abort' = [abort EXCEPT ![AbortCell(wait[p].dev)] = FALSE]
  /\ UNCHANGED <<lidOf, owner, interrupt, tickVars, running, intr, handler, fresh>>

ClearFlags(p) ==
  /\ At(p, "clear")
  /\ GoTo(p, "unlock")
  /\ interrupt' = [interrupt EXCEPT ![wait[p].dev] = FALSE]
  /\ abort' = [abort EXCEPT ![AbortCell(wait[p].dev)] = FALSE]
  /\ UNCHANGED <<lidOf, owner, tickVars, running, intr, handler, fresh>>

\* P1_Unlock enables interrupts, and dispatches if its queue is not empty.
Unlocked(p) ==
  /\ At(p, "unlock")
  /\ M!Release(p, LockOf(p))
  /\ wait' = [wait EXCEPT ![p] = [at |-> "no", dev |-> NoDev]]
  /\ intr' = [intr EXCEPT ![p] = TRUE]
  /\ UNCHANGED <<lidOf, flagVars, tickVars, handler, fresh>>
  /\ P1Dispatch \/ UNCHANGED running

\* The type of a terminal is compared with the number of terminals, so a
\* terminal is never aborted.
P1_DeviceAbort(p, d) ==
  /\ At(p, "no") /\ d[1] # "term"
  /\ abort' = [abort EXCEPT ![d] = TRUE]
  /\ UNCHANGED <<lidOf, owner, interrupt, tickVars, running, intr, wait, handler, fresh>>

------------------------------------------------------------------------------
(* DeviceHandler, on the stack of the process that was interrupted.  A      *)
(* dispatch within it may come back much later.                             *)

Counted(n) == IF n < MAXTICKS THEN n + 1 ELSE n

Interruptible == handler[running] = "none" /\ intr[running]

\* P1_NakedSignal dispatches if some process waits for the condition.
Interrupt(d) ==
  /\ Interruptible /\ d # Clock
  /\ interrupt' = [interrupt EXCEPT ![d] = TRUE]
  /\ fresh' = fresh \cup {d}
  /\ UNCHANGED <<lidOf, owner, abort, tickVars, intr, wait, handler>>
  /\ P1Dispatch \/ UNCHANGED running

Tick ==
  /\ Interruptible
  /\ clockSignal' = Counted(clockSignal) /\ clockDispatch' = Counted(clockDispatch)
  /\ UNCHANGED <<lidOf, owner, flagVars, intr, wait, fresh>>
  /\ \/ /\ clockSignal' >= SIGNALTICKS
        /\ handler' = [handler EXCEPT ![running] = "signalled"]
        /\ P1Dispatch \/ UNCHANGED running
     \/ /\ clockSignal' < SIGNALTICKS
        /\ handler' = [handler EXCEPT ![running] = "counted"]
        /\ UNCHANGED running

\* Mutation: the flag is not set.
ClockUnflagged(p) ==
  /\ running = p /\ handler[p] = "signalled"
  /\ handler' = [handler EXCEPT ![p] = "counted"]
  /\ clockSignal' = 0
  /\ UNCHANGED <<lidOf, owner, flagVars, clockDispatch, running, intr, wait, fresh>>

\* Back from P1_NakedSignal.
ClockSignalled(p) ==
  /\ running = p /\ handler[p] = "signalled"
  /\ handler' = [handler EXCEPT ![p] = "counted"]
  /\ interrupt' = [d \in Dev |-> d = Clock \/ interrupt[d]]
  /\ fresh' = fresh \cup (Dev \cap {Clock})
  /\ clockSignal' = 0
  /\ UNCHANGED <<lidOf, owner, abort, clockDispatch, running, intr, wait>>

Rotates(p) == running = p /\ handler[p] = "counted" /\ clockDispatch >= DISPATCHTICKS

Rotate(p) ==
  /\ Rotates(p)
  /\ handler' = [handler EXCEPT ![p] = "dispatched"]
  /\ UNCHANGED <<lidOf, owner, flagVars, tickVars, intr, wait, fresh>>
  /\ P1Dispatch

\* The counter is cleared only when the interrupted process runs again.
HandlerReturn(p) ==
  /\ running = p
  /\ \/ handler[p] = "counted" /\ clockDispatch < DISPATCHTICKS /\ UNCHANGED clockDispatch
     \/ handler[p] = "dispatched" /\ clockDispatch' = 0
  /\ handler' = [handler EXCEPT ![p] = "none"]
  /\ UNCHANGED <<lidOf, owner, flagVars, clockSignal, running, intr, wait, fresh>>

------------------------------------------------------------------------------

DeviceHandler(p) == ClockSignalled(p) \/ Rotate(p) \/ HandlerReturn(p)

P1_DeviceWait(p) ==
  \/ Locked(p) \/ Blocked(p) \/ Wait_For_Interrupt_Or_Abort(p)
  \/ ReadStatus(p) \/ ClearFlags(p) \/ Unlocked(p)

DevNext ==
  \/ Tick \/ \E d \in Dev : Interrupt(d)
  \/ \E p \in Proc :
       \/ DeviceHandler(p) \/ P1_DeviceWait(p)
       \/ \E d \in Dev : StartWait(p, d) \/ P1_DeviceAbort(p, d)

DevSpec == startup /\ [][DevNext]_devVars

\* The clock ticks for ever, and a process that has the CPU executes its next
\* step between two interrupts.  Nothing is assumed of who gets the CPU, no
\* other device need ever interrupt, and no process need ever wait.
FairDevSpec ==
  /\ DevSpec
  /\ SF_devVars(Tick)
  /\ \A p \in Proc : WF_devVars(DeviceHandler(p)) /\ SF_devVars(P1_DeviceWait(p))

------------------------------------------------------------------------------
(* Properties. *)

\* Every variable keeps its type: phase1d.c:18-59.
DevTypeOK ==
  /\ lidOf \in [{d[1] : d \in Dev} -> DeviceLid]
  /\ owner \in [DeviceLid -> Proc \cup {NoProc}]
  /\ interrupt \in [Dev -> BOOLEAN] /\ abort \in [Cell -> BOOLEAN]
  /\ clockSignal \in 0 .. MAXTICKS /\ clockDispatch \in 0 .. MAXTICKS
  /\ running \in Proc
  /\ intr \in [Proc -> BOOLEAN]
  /\ wait \in [Proc -> [at: {"no", "lock", "poll", "read", "clear", "unlock"}, dev: Dev \cup {NoDev}]]
  /\ handler \in [Proc -> {"none", "signalled", "counted", "dispatched"}]
  /\ fresh \subseteq Dev

\* No two waits of P1_DeviceWait return for the same interrupt: each reads a
\* status that arrived after the last one was read.  A flag that startup
\* found set counts as an interrupt.  Of the terminals only unit 0 polls a
\* flag of its own.
OneReturnPerInterrupt ==
  [][\A p \in Proc : ReadStatus(p) /\ Polled(wait[p].dev) = wait[p].dev
                       => wait[p].dev \in fresh]_devVars

\* A process that polls the clock, and is given the CPU again and again, gets
\* out of the loop and its P1_DeviceWait returns, whatever the other processes
\* and devices do.  That P1Dispatch gives it the CPU is not claimed.
PollerServed ==
  \A p \in Proc :
    []<>(running = p) => ((wait[p] = [at |-> "poll", dev |-> Clock]) ~> (wait[p].at = "no"))

==============================================================================
