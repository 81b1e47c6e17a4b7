-------------------------------- MODULE Phase2 -------------------------------
(***************************************************************************)
(* Phases 2a, 2b and 2c together: user processes are spawned, sleep and    *)
(* use the disks, while P2_Startup, which forked the drivers, is already   *)
(* stopping them.  They share one lock and condition, and NotShutDown.     *)
(***************************************************************************)
EXTENDS Sleep, Disk, Spawn

vars == <<clientVars, sleepVars, diskVars, wrapper>>

Init == ClientsInit /\ SleepInit /\ DiskInit /\ SpawnInit

\* After its two aborts, in either order.
P2DiskShutdown ==
  /\ pc["startup"] = "shutdown" /\ toAbort = {} /\ GoTo("startup", "clock")
  /\ NotShutDown' = FALSE
  /\ UNCHANGED <<lockVars, deviceVars, requestPIDList, listSize, RequestNotTaken>>

Next ==
  \/ LockOfOthers /\ UNCHANGED <<sleepVars, diskVars, wrapper>>
  \/ SleepNext /\ UNCHANGED <<diskVars, wrapper>>
  \/ (DiskNext \/ P2DiskShutdown) /\ UNCHANGED <<sleepVars, wrapper>>
  \/ SpawnNext /\ UNCHANGED <<sleepVars, diskVars>>

Spec == Init /\ [][Next]_vars

------------------------------------------------------------------------------

StartupAt == {"init", "fork", "disk", "units", "spawn", "shutdown", "clock", "over"}
ClockAt == {"none", "enter", "device", "lock", "broadcast", "over"}
DiskAt == {"none", "start", "loop", "next", "sleep", "pick", "device", "over"}
UserAt == {"none", "unborn", "born", "user", "sleep", "read", "write", "over"}

\* Every variable keeps its type; only the users and the disk drivers wait.
Phase2TypeOK ==
  /\ pc \in [Proc -> StartupAt \cup ClockAt \cup DiskAt \cup UserAt]
  /\ pc["startup"] \in StartupAt /\ pc["clock"] \in ClockAt
  /\ \A d \in Unit : pc[d] \in DiskAt
  /\ \A u \in User : pc[u] \in UserAt
  /\ lid \in {"zero", "own"}
  /\ busy \subseteq {"lid"} /\ waiting \subseteq Unit \cup User /\ abort \subseteq Driver /\ toAbort \subseteq Unit
  /\ now \in Second
  /\ sleeperPIDSec \in [User -> Second]
  /\ NotShutDown \in BOOLEAN /\ RequestNotTaken \in BOOLEAN
  /\ requestPIDList \subseteq Place
  /\ listSize \in 0 .. P1_MAXPROC
  /\ wrapper \in Func \cup {NULL}

==============================================================================
