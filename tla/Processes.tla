------------------------------ MODULE Processes ------------------------------
(***************************************************************************)
(* phase1b.c: processes over the contexts of phase1a.c.                    *)
(*                                                                         *)
(* A call runs with interrupts off and is one step, up to the point where  *)
(* it switches to another context: no call is ever resumed after that.     *)
(* P1SetState, P1GetChildStatus and P1_GetProcInfo are empty in the code.  *)
(***************************************************************************)
EXTENDS Contexts

CONSTANTS
  Name,     (* process names that are neither empty nor too long        *)
  Priority, (* priorities P1_Fork is called with                        *)
  PidArg    (* what *pid may hold when P1_Fork is called                *)

NoName == "no name"
Slot == 0 .. P1_MAXPROC - 1

ASSUME ProcessesAssumption ==
  /\ NoName \notin Name
  /\ Priority \subseteq Int /\ PidArg \subseteq Int

VARIABLES
  processTable,
  queueTable,
  queueIndex,      (* the next place in queueTable                    *)
  currentProcess   (* a copy of the PCB P1_GetPid answers for         *)

pcbVars == <<processTable, queueTable, queueIndex, currentProcess>>
procVars == <<contextVars, pcbVars>>

PCB == [state: {"FREE", "READY"}, cid: Int, pid: Int, name: Name \cup {NoName},
        priority: Int, queueIndex: Nat]

\* Also the zeroed static clearProcess.  The parent and child indices stay -1.
ClearProcess == [state |-> "FREE", cid |-> 0, pid |-> 0, name |-> NoName,
                 priority |-> 0, queueIndex |-> 0]

P1ProcInit ==
  /\ ContextInit
  /\ processTable = [i \in Slot |-> ClearProcess]
  /\ queueTable = [i \in Slot |-> ClearProcess]
  /\ queueIndex = 0
  /\ currentProcess = ClearProcess

------------------------------------------------------------------------------
(* The dispatcher. *)

\* Processes the loop of P1Dispatch looks at: up to the first priority 0.
Considered(queue) ==
  {i \in Slot \ {0} : \A j \in 1 .. i : queue[j].priority # 0}

Preempted(queue) ==
  \E i \in Considered(queue) : queue[i].priority < currentProcess.priority

Stay(back) == psr' = back /\ UNCHANGED cpuVars

\* Mutation: off by one.
SecondQueued(queue) == queue[1]

FirstQueued(queue) == queue[0]

\* Once there is a current process the loop over the queue never replaces it.
NextProcess(rotate, queue) ==
  IF currentProcess.state = "FREE" THEN FirstQueued(queue) ELSE currentProcess

\* P1Dispatch, with the tables as the caller leaves them; where it returns,
\* the PSR becomes back.  The process it switches to is the current one.
P1Dispatch(rotate, queue, ctx, back) ==
  LET next == NextProcess(rotate, queue)
      switch == currentProcess.state = "FREE" \/ (rotate /\ Preempted(queue))
  IN /\ currentProcess' = next
     /\ IF switch /\ MaySwitch(next.cid, ctx) THEN SwitchTo(next.cid) ELSE Stay(back)

------------------------------------------------------------------------------
(* The calls. *)

FreePCBs == {i \in Slot : processTable[i].state = "FREE"}

\* *pid is the caller's variable: past the table, any name may be found.
MayBeTaken(n, pid) == pid \in Slot => processTable[pid].name = n
MayBeNew(n, pid) == pid \in Slot => processTable[pid].name # n

\* A refused call leaves interrupts off.
ForkRefused(n, stackOK, pr, pid) ==
  /\ Privileged
  /\ pr \notin 1 .. 6 \/ ~stackOK \/ n = NoName \/ MayBeTaken(n, pid) \/ FreePCBs = {}
  /\ psr' = P1DisableInterrupts(psr)
  /\ UNCHANGED <<tableVars, cpuVars, vmInitCalled, pcbVars>>

\* The result of P1ContextCreate is ignored: without a context cid is
\* whatever the variable held.
ForkContext(c) ==
  IF Inactive = {} THEN c \in CidArg /\ UNCHANGED tableVars ELSE ContextCreate(c)

\* Mutation: the search for a free PCB leaves index at 0.
ZeroSlot(i) == i = 0

\* Mutation: the search takes any PCB that is free.
AnySlot(i) == i \in FreePCBs

ForkSlot(i) == i \in FreePCBs /\ \A j \in FreePCBs : i <= j

\* Mutation: queueIndex is stored after it was incremented.
EntryAfterIncrement(pcb) == [pcb EXCEPT !.queueIndex = queueIndex + 1]

QueueEntry(pcb) == [pcb EXCEPT !.queueIndex = queueIndex]

P1_Fork(n, pr, pid) ==
  /\ Privileged
  /\ pr \in 1 .. 6 /\ n # NoName /\ MayBeNew(n, pid)
  /\ \E i \in Slot, c \in Cid \cup CidArg :
       LET pcb == [state |-> "READY", cid |-> c, pid |-> pid, name |-> n, priority |-> pr,
                   queueIndex |-> processTable[i].queueIndex]
       IN /\ ForkSlot(i)
          /\ ForkContext(c)
          /\ processTable' = [processTable EXCEPT ![i] = pcb]
          /\ queueTable' = [queueTable EXCEPT ![queueIndex] = QueueEntry(pcb)]
  /\ queueIndex' = queueIndex + 1
  /\ P1Dispatch(FALSE, queueTable', contexts', P1EnableInterrupts(psr))
  /\ UNCHANGED vmInitCalled

\* The process leaves the queue, not the process table; its dispatch returns,
\* and assert(0) stops the machine.
P1_Quit ==
  /\ Privileged /\ currentCid \in Cid
  /\ queueTable' = [queueTable EXCEPT ![currentProcess.queueIndex] = ClearProcess]
  /\ IF currentProcess.state = "FREE" /\ MaySwitch(queueTable'[0].cid, contexts)
     THEN currentProcess' = queueTable'[0] /\ SwitchTo(queueTable'[0].cid)
     ELSE /\ cpu' = "halted" /\ psr' = P1DisableInterrupts(psr)
          /\ UNCHANGED <<currentCid, at, left, currentProcess>>
  /\ UNCHANGED <<tableVars, vmInitCalled, processTable, queueIndex>>

\* DeviceHandler calls P1Dispatch(TRUE).
Tick ==
  /\ cpu = "on" /\ IntrOn(psr) /\ queueIndex > 0
  /\ P1Dispatch(TRUE, queueTable, contexts, psr)
  /\ UNCHANGED <<tableVars, vmInitCalled, processTable, queueTable, queueIndex>>

ProcNext ==
  \/ \E n \in Name \cup {NoName}, s \in BOOLEAN, pr \in Priority, pid \in PidArg :
       ForkRefused(n, s, pr, pid)
  \/ \E n \in Name, pr \in Priority, pid \in PidArg : P1_Fork(n, pr, pid)
  \/ P1_Quit \/ Tick

ProcSpec == P1ProcInit /\ [][ProcNext]_procVars

------------------------------------------------------------------------------
(* Properties. *)

\* Every variable keeps its type: phase1b.c:14-38.
ProcTypeOK ==
  /\ ContextTypeOK
  /\ processTable \in [Slot -> PCB] /\ queueTable \in [Slot -> PCB]
  /\ queueIndex \in 0 .. P1_MAXPROC
  /\ currentProcess \in PCB

\* The process table, the context table and the queue fill in step: slot i
\* has context i, and as long as a slot is free so is a context.  So P1_Fork
\* may ignore the result of P1ContextCreate and never writes past the queue.
Lockstep ==
  /\ \A i \in Slot : processTable[i].state # "FREE" <=> i < queueIndex
  /\ \A i \in Slot : contexts[i].active <=> i < queueIndex
  /\ \A i \in Slot : i < queueIndex => processTable[i].cid = i

\* P1_GetPid answers for the context that has the CPU.
CurrentIsRunning ==
  /\ currentCid # NoCid => currentProcess.cid = currentCid
  /\ currentCid = NoCid <=> currentProcess.state = "FREE"

\* A process in the queue is, up to its place there, the one of the process
\* table with the same slot: the copies do not drift apart.
QueueAgrees ==
  \A i \in Slot :
    queueTable[i].state # "FREE" =>
      queueTable[i] = [processTable[i] EXCEPT !.queueIndex = i]

\* Whatever is forked with whatever priority, and however often the clock
\* rotates the queue, the CPU belongs to the first process that was forked:
\* P1Dispatch gives it to another only while there is no current process, and
\* on a rotation it switches to the process that has it: phase1b.c:211-231,
\* against its own comment, see HighestPriorityRuns.
OnlyFirstRuns == currentCid \in {NoCid, 0}

Dispatched == Tick \/ processTable' # processTable

\* "select the highest-priority runnable process" and "call P1ContextSwitch to
\* switch to that process": after P1Dispatch, from P1_Fork or from the clock, no
\* process in the queue has a better priority than the one that has the CPU.
HighestPriorityRuns ==
  [][Dispatched =>
       \A i \in Slot : queueTable'[i].state # "FREE" =>
                        currentProcess'.priority <= queueTable'[i].priority]_procVars

==============================================================================
