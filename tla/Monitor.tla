-------------------------------- MODULE Monitor -------------------------------
(***************************************************************************)
(* What the clients of phase1c.c may rely on, whatever happens to the      *)
(* condition they wait for.  A lock may be taken while it is free.  A wait *)
(* gives up at most one lock, not always the one the caller means, and     *)
(* comes back when the scheduler chooses, with at most one more marked     *)
(* BUSY.  A call that is refused, a signal or a broadcast changes nothing. *)
(***************************************************************************)
CONSTANTS Proc, Lid

VARIABLES
  busy,    (* the locks that are BUSY    *)
  waiting  (* the processes in P1_Wait   *)

monitorVars == <<busy, waiting>>

MonitorInit == busy = {} /\ waiting = {}

Lock(l) == l \notin busy /\ busy' = busy \cup {l} /\ UNCHANGED waiting

Unlock(l) == busy' = busy \ {l} /\ UNCHANGED waiting

Wait(p) ==
  /\ p \notin waiting
  /\ waiting' = waiting \cup {p}
  /\ busy' \in {busy} \cup {busy \ {l} : l \in Lid}

Return(p) ==
  /\ p \in waiting
  /\ waiting' = waiting \ {p}
  /\ busy' \in {busy} \cup {busy \cup {l} : l \in Lid}

MonitorNext ==
  \/ \E l \in Lid : Lock(l) \/ Unlock(l)
  \/ \E p \in Proc : Wait(p) \/ Return(p)

MonitorSpec == MonitorInit /\ [][MonitorNext]_monitorVars

==============================================================================
