-------------------------------- MODULE Spawn --------------------------------
(***************************************************************************)
(* phase2a.c and P2_Startup of phase2d.c: how user processes begin and     *)
(* end, and how the drivers are told to stop.                              *)
(***************************************************************************)
EXTENDS Clients

CONSTANTS
  Func, (* the functions a process may be given *)
  NULL  (* not a function                       *)

ASSUME FuncAssumption == NULL \notin Func

VARIABLE wrapper (* the function the next process to be launched will run *)

SpawnInit == wrapper = NULL

------------------------------------------------------------------------------

\* P2_Spawn sets wrapper, forks a process that starts in launch, and ignores
\* that the fork may be refused.  The caller goes on at next.
P2_Spawn(p, f, next) ==
  /\ wrapper' = f
  /\ \/ GoTo(p, next)
     \/ \E c \in User :
          /\ pc[c] = "none"
          /\ pc' = [pc EXCEPT ![c] = "unborn", ![p] = next]
  /\ UNCHANGED <<lockVars, deviceVars>>

\* Spawn, wait, terminate and three more calls all go to SpawnStub, which takes
\* any first argument for a function.
SpawnStub(u) == At(u, "user") /\ \E f \in Func \cup {NULL} : P2_Spawn(u, f, "user")

\* What the function returns is the first argument of Sys_Terminate.
ReturnsFromFunction(u) == At(u, "user") /\ \E f \in Func \cup {NULL} : P2_Spawn(u, f, "over")

\* The assertion and the call look at wrapper one after the other, in user mode;
\* neither goes on without a function.  argRef goes the same way.
launch(u) ==
  /\ wrapper # NULL
  /\ \/ pc[u] = "unborn" /\ GoTo(u, "born")
     \/ pc[u] = "born" /\ GoTo(u, "user")
  /\ UNCHANGED <<lockVars, deviceVars, wrapper>>

------------------------------------------------------------------------------
(* P2_Startup and P2ClockShutdown.  P2_Wait returns at once, for P1_Join is  *)
(* told that nothing is left to wait for.                                    *)

AbortDisk(d) ==
  /\ pc["startup"] = "shutdown" /\ d \in toAbort
  /\ abort' = abort \cup {d} /\ toAbort' = toAbort \ {d}
  /\ UNCHANGED <<pc, lockVars, wrapper>>

P2ClockShutdown ==
  /\ pc["startup"] = "clock" /\ GoTo("startup", "over")
  /\ abort' = abort \cup {"clock"}
  /\ UNCHANGED <<lockVars, toAbort, wrapper>>

P2_Startup ==
  \/ pc["startup"] = "spawn" /\ \E f \in Func : P2_Spawn("startup", f, "shutdown")
  \/ \E d \in Unit : AbortDisk(d)
  \/ P2ClockShutdown

SpawnNext ==
  \/ P2_Startup
  \/ \E u \in User : SpawnStub(u) \/ ReturnsFromFunction(u) \/ launch(u)

==============================================================================
