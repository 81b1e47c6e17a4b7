-------------------------------- MODULE Disk ---------------------------------
(***************************************************************************)
(* phase2c.c: requests for the disks, and their two drivers.               *)
(*                                                                         *)
(* What is read and written is left out; so is which unit, which the       *)
(* request does not record: either driver takes the first in the list.     *)
(***************************************************************************)
EXTENDS Clients

CONSTANT P1_MAXPROC (* the length of the list *)

ASSUME DiskAssumption == P1_MAXPROC \in Nat \ {0}

Place == 0 .. P1_MAXPROC - 1

VARIABLES
  NotShutDown,     (* shared with phase3a.c, which declares it too              *)
  requestPIDList,  (* the places that hold the pid of a user, not 0             *)
  listSize,
  RequestNotTaken

diskVars == <<NotShutDown, requestPIDList, listSize, RequestNotTaken>>

DiskInit ==
  /\ NotShutDown = FALSE
  /\ requestPIDList = {}
  /\ listSize = 0
  /\ RequestNotTaken = TRUE

------------------------------------------------------------------------------
(* P2DiskInit.  Nobody looks at NotShutDown before the drivers are forked,   *)
(* and one that cannot be forked stops the machine.                          *)

P2DiskInit ==
  \/ /\ At("startup", "disk") /\ P1_LockCreate /\ GoTo("startup", "units")
     /\ NotShutDown' = TRUE
     /\ UNCHANGED <<deviceVars, requestPIDList, listSize, RequestNotTaken>>
  \/ \E d \in Unit :
       /\ At("startup", "units") /\ pc[d] = "none" /\ GoTo(d, "start")
       /\ UNCHANGED <<lockVars, deviceVars, diskVars>>
  \/ /\ At("startup", "units") /\ \A d \in Unit : pc[d] # "none"
     /\ GoTo("startup", "spawn")
     /\ UNCHANGED <<lockVars, deviceVars, diskVars>>

------------------------------------------------------------------------------
(* The driver.  It keeps the lock while it waits for its device, and when it *)
(* leaves.                                                                   *)

DriverStart(d) ==
  /\ At(d, "start") /\ P1_Lock /\ GoTo(d, "loop")
  /\ UNCHANGED <<deviceVars, diskVars>>

DriverLoop(d) ==
  /\ At(d, "loop") /\ GoTo(d, IF NotShutDown THEN "next" ELSE "over")
  /\ UNCHANGED <<lockVars, deviceVars, diskVars>>

DriverNext(d) ==
  /\ At(d, "next") /\ GoTo(d, IF listSize < 1 THEN "sleep" ELSE "pick")
  /\ UNCHANGED <<lockVars, deviceVars, diskVars>>

\* A request that came after the test has signalled already.
DriverWaits(d) ==
  /\ \/ At(d, "sleep") /\ P1_Wait(d, "next")
     \/ pc[d] = "next" /\ WaitReturns(d)
  /\ UNCHANGED diskVars

\* It reads requestPIDList[0] and gives that request to its own unit.
DriverPick(d) == At(d, "pick") /\ StartDeviceWait(d) /\ UNCHANGED diskVars

\* Nobody else looks at the abort flag, so the report is one step with the end
\* of the wait that clears it.
DriverReport(d) ==
  /\ DeviceWaitReturns(d, "loop")
  /\ RequestNotTaken' = FALSE
  /\ UNCHANGED <<NotShutDown, requestPIDList, listSize>>

DiskDriver(d) ==
  \/ DriverStart(d) \/ DriverLoop(d) \/ DriverNext(d) \/ DriverWaits(d)
  \/ DriverPick(d) \/ DriverReport(d)

------------------------------------------------------------------------------
(* The requests.  The list is written without a test of its length; past its *)
(* end the model stops.                                                      *)

Request(u, op) ==
  /\ At(u, "user") /\ listSize \in Place
  /\ P1_Lock
  /\ requestPIDList' = requestPIDList \cup {listSize}
  /\ listSize' = listSize + 1
  /\ RequestNotTaken' = TRUE
  /\ GoTo(u, op)
  /\ UNCHANGED <<deviceVars, NotShutDown>>

P2_DiskRead(u) == Request(u, "read")
P2_DiskWrite(u) == Request(u, "write")

RequestWaits(u) ==
  /\ \/ pc[u] \in {"read", "write"} /\ u \notin waiting /\ RequestNotTaken /\ P1_Wait(u, pc[u])
     \/ pc[u] \in {"read", "write"} /\ WaitReturns(u)
  /\ UNCHANGED diskVars

\* Mutation: a request is taken off by the driver and by who asked.
TwoLess == listSize - 2

OneLess == listSize - 1

\* Mutation: the list is made shorter before its last place is cleared.
LastPlace == listSize - 1

\* The place behind the last request is the one that is cleared.
ClearedPlace == listSize

ReadReturns(u) ==
  /\ At(u, "read") /\ ~RequestNotTaken
  /\ P1_Unlock /\ GoTo(u, "user")
  /\ UNCHANGED <<deviceVars, diskVars>>

WriteReturns(u) ==
  /\ At(u, "write") /\ ~RequestNotTaken
  /\ ClearedPlace \in Place
  /\ requestPIDList' = requestPIDList \ {ClearedPlace}
  /\ listSize' = OneLess
  /\ P1_Unlock /\ GoTo(u, "user")
  /\ UNCHANGED <<deviceVars, NotShutDown, RequestNotTaken>>

DiskCall(u) ==
  \/ P2_DiskRead(u) \/ P2_DiskWrite(u)
  \/ RequestWaits(u) \/ ReadReturns(u) \/ WriteReturns(u)

\* P3_VmShutdown, a system call of a user.
P3_VmShutdown(u) ==
  /\ At(u, "user")
  /\ NotShutDown' = FALSE
  /\ UNCHANGED <<clientVars, requestPIDList, listSize, RequestNotTaken>>

DiskNext ==
  \/ P2DiskInit
  \/ \E d \in Unit : DiskDriver(d)
  \/ \E u \in User : DiskCall(u) \/ P3_VmShutdown(u)

------------------------------------------------------------------------------
(* Properties. *)

Requesting == {u \in User : pc[u] \in {"read", "write"}}

\* A driver that finds the list empty leaves nobody waiting in it, although
\* reads never leave the list and writes leave it in any order: phase2c.c:113.
\* A request may still come before the driver waits, and its signal is lost.
EmptyListHasNoRequests ==
  [][\A d \in Unit : pc[d] = "next" /\ pc'[d] = "sleep" => Requesting = {}]_<<clientVars, diskVars>>

\* A driver that has found the list not empty finds a process in its first
\* place, although others may have left the list since it looked.  It need not
\* be the process whose request is the oldest: phase2c.c:117.
DriverFindsRequest == \A d \in Unit : pc[d] = "pick" => 0 \in requestPIDList

==============================================================================
