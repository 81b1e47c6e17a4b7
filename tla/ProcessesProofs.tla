---------------------------- MODULE ProcessesProofs ---------------------------
(***************************************************************************)
(* What holds of Processes for every size of the tables, every set of      *)
(* names and priorities, and whatever *pid holds in P1_Fork.               *)
(***************************************************************************)
EXTENDS Processes, ContextsProofs

\* Once a process was forked, the current one is that of context 0 for good.
Booted ==
  /\ currentProcess.cid = 0
  /\ currentProcess.state = "FREE" <=> queueIndex = 0
  /\ currentCid = IF queueIndex = 0 THEN NoCid ELSE 0

ProcInv == ProcTypeOK /\ Lockstep /\ Booted

LEMMA SlotFacts == Slot = Cid /\ Slot \subseteq Nat /\ 0 \in Slot /\ P1_MAXPROC \in Nat
BY ContextsAssumption DEF ContextsAssumption, Slot, Cid

LEMMA ClearProcessType == ClearProcess \in PCB
BY DEF ClearProcess, PCB

LEMMA ProcInvInit == P1ProcInit => ProcInv
<1> SUFFICES ASSUME P1ProcInit PROVE ProcInv
  OBVIOUS
<1>1. ContextTypeOK BY ContextTypeInit DEF P1ProcInit
<1>2. ProcTypeOK BY <1>1, SlotFacts, ClearProcessType DEF P1ProcInit, ProcTypeOK
<1>3. Lockstep
  BY SlotFacts DEF P1ProcInit, ContextInit, P1ContextInit, Lockstep, ClearProcess
<1>4. Booted BY DEF P1ProcInit, ContextInit, CpuInit, Booted, ClearProcess, NoCid
<1> QED BY <1>2, <1>3, <1>4 DEF ProcInv

\* The variables of Contexts keep their types through a dispatch.
LEMMA DispatchType ==
  ASSUME ContextTypeOK, NEW c \in Cid, NEW back \in PSR, SwitchTo(c) \/ Stay(back)
  PROVE  /\ currentCid' \in Cid \cup {NoCid, P1_MAXPROC} /\ psr' \in PSR
         /\ at' \in [Cid -> 0 .. MAXSTEPS] /\ left' \in [Cid -> 0 .. MAXSTEPS]
         /\ cpu' \in {"on", "halted", "wild"}
<1>0. /\ currentCid \in Cid \cup {NoCid, P1_MAXPROC} /\ cpu \in {"on", "halted", "wild"}
      /\ at \in [Cid -> 0 .. MAXSTEPS] /\ left \in [Cid -> 0 .. MAXSTEPS] /\ MAXSTEPS \in Nat
  BY ContextsAssumption DEF ContextsAssumption, ContextTypeOK
<1>1. CASE SwitchTo(c)
  <2>1. at' \in [Cid -> 0 .. MAXSTEPS] /\ left' \in [Cid -> 0 .. MAXSTEPS]
    BY <1>0, <1>1 DEF SwitchTo
  <2> QED BY <1>0, <1>1, <2>1 DEF SwitchTo, LaunchPSR
<1>2. CASE Stay(back) BY <1>0, <1>2 DEF Stay, cpuVars
<1> QED BY <1>1, <1>2

\* The three tables are filled up to queueIndex, so both searches end there.
LEMMA NextSlot ==
  ASSUME ProcInv, NEW i \in Slot, ForkSlot(i), NEW c \in Cid \cup CidArg, ForkContext(c)
  PROVE  i = queueIndex /\ c = queueIndex /\ ContextCreate(c)
<1>0. /\ queueIndex \in Nat /\ queueIndex <= P1_MAXPROC
      /\ \A j \in Slot : processTable[j].state # "FREE" <=> j < queueIndex
      /\ \A j \in Slot : contexts[j].active <=> j < queueIndex
  BY SlotFacts DEF ProcInv, ProcTypeOK, Lockstep
<1>1. i \notin 0 .. queueIndex - 1 /\ i \in 0 .. P1_MAXPROC - 1
  BY <1>0, SlotFacts DEF ForkSlot, FreePCBs, Slot
<1>2. queueIndex \in Slot /\ queueIndex \in FreePCBs
  BY <1>0, <1>1, SlotFacts DEF Slot, FreePCBs
<1>3. i = queueIndex BY <1>1, <1>2, <1>0 DEF ForkSlot
<1>4. queueIndex \in Inactive BY <1>0, <1>2, SlotFacts DEF Inactive
<1>5. ContextCreate(c) BY <1>4 DEF ForkContext
<1>6. c \in Cid /\ ~contexts[c].active /\ c <= queueIndex
  BY <1>4, <1>5 DEF ContextCreate, FirstInactive, Inactive
<1>7. c = queueIndex BY <1>0, <1>6, SlotFacts
<1> QED BY <1>3, <1>5, <1>7

LEMMA RefusedStep ==
  ASSUME ProcInv, NEW n \in Name \cup {NoName}, NEW s \in BOOLEAN, NEW pr \in Priority,
         NEW pid \in PidArg, ForkRefused(n, s, pr, pid)
  PROVE  ProcInv'
<1>1. psr' \in PSR
  BY InterruptCalls DEF ProcInv, ProcTypeOK, ContextTypeOK, ForkRefused
<1>2. UNCHANGED <<tableVars, cpuVars, vmInitCalled, pcbVars>> BY DEF ForkRefused
<1> QED
  BY <1>1, <1>2
  DEF ProcInv, ProcTypeOK, ContextTypeOK, Lockstep, Booted, tableVars, cpuVars, pcbVars

\* The dispatch of a fork launches context 0 if it is the first, else it
\* leaves the CPU with the caller.
LEMMA ForkDispatch ==
  ASSUME ProcInv, NEW back \in PSR, 0 < queueIndex',
         queueIndex = 0 => queueTable'[0].cid = 0 /\ queueTable'[0].state = "READY",
         queueTable' \in [Slot -> PCB],
         contexts'[0].active,
         P1Dispatch(FALSE, queueTable', contexts', back)
  PROVE  /\ Booted' /\ currentProcess' \in PCB
         /\ SwitchTo(0) \/ Stay(back)
<1>0. Booted /\ currentProcess \in PCB BY DEF ProcInv, ProcTypeOK
<1>1. CASE queueIndex = 0
  <2>1. currentProcess.state = "FREE" BY <1>0, <1>1 DEF Booted
  <2>2. currentProcess' = queueTable'[0] /\ SwitchTo(0)
    BY <1>1, <2>1, SlotFacts DEF P1Dispatch, NextProcess, FirstQueued, MaySwitch
  <2> QED BY <1>1, <2>2, SlotFacts DEF Booted, SwitchTo
<1>2. CASE queueIndex # 0
  <2>1. currentProcess.state # "FREE" BY <1>0, <1>2 DEF Booted
  <2>2. currentProcess' = currentProcess /\ Stay(back) BY <2>1 DEF P1Dispatch, NextProcess
  <2> QED BY <1>0, <1>2, <2>1, <2>2 DEF Booted, Stay, cpuVars
<1> QED BY <1>1, <1>2

LEMMA ForkStep ==
  ASSUME ProcInv, NEW n \in Name, NEW pr \in Priority, NEW pid \in PidArg, P1_Fork(n, pr, pid)
  PROVE  ProcInv'
<1> DEFINE back == P1EnableInterrupts(psr)
           pcb(i, c) == [state |-> "READY", cid |-> c, pid |-> pid, name |-> n,
                         priority |-> pr, queueIndex |-> processTable[i].queueIndex]
<1>0. /\ contexts \in [Cid -> Context] /\ psr \in PSR /\ heap \subseteq Block
      /\ pteTable \in [Cid -> Block \cup {NoBlock}] /\ vmInitCalled \in BOOLEAN
      /\ processTable \in [Slot -> PCB] /\ queueTable \in [Slot -> PCB]
      /\ queueIndex \in 0 .. P1_MAXPROC /\ ContextTypeOK
  BY DEF ProcInv, ProcTypeOK, ContextTypeOK
<1>1. PICK i \in Slot, c \in Cid \cup CidArg :
        /\ ForkSlot(i) /\ ForkContext(c)
        /\ processTable' = [processTable EXCEPT ![i] = pcb(i, c)]
        /\ queueTable' = [queueTable EXCEPT ![queueIndex] = QueueEntry(pcb(i, c))]
  BY DEF P1_Fork
<1>2. i = queueIndex /\ c = queueIndex /\ ContextCreate(c) BY <1>1, NextSlot
<1>3. queueIndex' = queueIndex + 1 /\ queueIndex \in Slot /\ queueIndex' \in 0 .. P1_MAXPROC
  BY <1>0, <1>2, SlotFacts DEF P1_Fork, Slot
<1>4. pcb(i, c) \in PCB
  <2>1. /\ processTable[i].queueIndex \in Nat /\ c \in Int /\ pid \in Int /\ pr \in Int
    BY <1>0, <1>2, <1>3, SlotFacts, ProcessesAssumption DEF ProcessesAssumption, PCB
  <2> QED BY <2>1 DEF PCB
<1>5. QueueEntry(pcb(i, c)) \in PCB BY <1>0, <1>4 DEF QueueEntry, PCB
<1>6. processTable' \in [Slot -> PCB] /\ queueTable' \in [Slot -> PCB]
  BY <1>0, <1>1, <1>3, <1>4, <1>5
<1>7. /\ contexts' \in [Cid -> Context] /\ heap' \subseteq Block
      /\ pteTable' \in [Cid -> Block \cup {NoBlock}]
      /\ \A d \in Cid : contexts'[d].active <=> contexts[d].active \/ d = c
  <2>1. PICK s \in Block \ heap, t \in Block \ heap :
          /\ heap' = heap \cup {s, t}
          /\ contexts' = [contexts EXCEPT ![c] = [active |-> TRUE, stack |-> s, table |-> t]]
          /\ pteTable' = [pteTable EXCEPT ![c] = t]
    BY <1>2 DEF ContextCreate
  <2>2. [active |-> TRUE, stack |-> s, table |-> t] \in Context BY <2>1 DEF Context
  <2>3. contexts' \in [Cid -> Context] BY <1>0, <2>1, <2>2
  <2>4. \A d \in Cid : contexts'[d].active <=> contexts[d].active \/ d = c
    BY <1>0, <2>1 DEF Context
  <2> QED BY <1>0, <2>1, <2>3, <2>4
<1>8. Lockstep'
  <2>0. Lockstep BY DEF ProcInv
  <2>1. \A j \in Slot : j < queueIndex' <=> j < queueIndex \/ j = queueIndex
    BY <1>0, <1>3, SlotFacts
  <2>2. \A j \in Slot : processTable'[j].state # "FREE" <=> j < queueIndex'
    BY <1>0, <1>1, <1>2, <2>0, <2>1 DEF Lockstep
  <2>3. \A j \in Slot : contexts'[j].active <=> j < queueIndex'
    BY <1>2, <1>7, <2>0, <2>1, SlotFacts DEF Lockstep
  <2>4. \A j \in Slot : j < queueIndex' => processTable'[j].cid = j
    BY <1>0, <1>1, <1>2, <2>0, <2>1 DEF Lockstep
  <2> QED BY <2>2, <2>3, <2>4 DEF Lockstep
<1>9. /\ Booted' /\ currentProcess' \in PCB
      /\ SwitchTo(0) \/ Stay(back)
  <2>1. queueIndex = 0 => queueTable'[0].cid = 0 /\ queueTable'[0].state = "READY"
    BY <1>0, <1>1, <1>2, <1>3 DEF QueueEntry
  <2>2. contexts'[0].active BY <1>3, <1>8, <1>0, SlotFacts DEF Lockstep
  <2>3. back \in PSR BY <1>0, InterruptCalls
  <2>4. P1Dispatch(FALSE, queueTable', contexts', back) BY DEF P1_Fork
  <2>5. 0 < queueIndex' BY <1>0, <1>3
  <2> QED BY <1>6, <2>1, <2>2, <2>3, <2>4, <2>5, ForkDispatch
<1>10. ContextTypeOK'
  <2>1. back \in PSR BY <1>0, InterruptCalls
  <2>2. vmInitCalled' \in BOOLEAN BY <1>0 DEF P1_Fork
  <2> QED BY <1>0, <1>7, <1>9, <2>1, <2>2, DispatchType, SlotFacts DEF ContextTypeOK
<1> QED BY <1>3, <1>6, <1>8, <1>9, <1>10 DEF ProcInv, ProcTypeOK

LEMMA QuitStep == ProcInv /\ P1_Quit => ProcInv'
<1> SUFFICES ASSUME ProcInv, P1_Quit PROVE ProcInv'
  OBVIOUS
<1>0. ProcTypeOK /\ ContextTypeOK /\ Lockstep /\ Booted BY DEF ProcInv, ProcTypeOK
<1>1. currentProcess.state # "FREE"
  BY <1>0, CidFacts DEF P1_Quit, Booted
<1>2. /\ cpu' = "halted" /\ psr' = P1DisableInterrupts(psr)
      /\ UNCHANGED <<currentCid, at, left, currentProcess>>
      /\ UNCHANGED <<tableVars, vmInitCalled, processTable, queueIndex>>
  BY <1>1 DEF P1_Quit
<1>3. queueTable' \in [Slot -> PCB]
  BY <1>0, ClearProcessType DEF P1_Quit, ProcTypeOK
<1>4. psr' \in PSR BY <1>0, <1>2, InterruptCalls DEF ContextTypeOK
<1>5. ProcTypeOK'
  BY <1>0, <1>2, <1>3, <1>4 DEF ProcTypeOK, ContextTypeOK, tableVars
<1>6. Lockstep' /\ Booted' BY <1>0, <1>2 DEF Lockstep, Booted, tableVars
<1> QED BY <1>5, <1>6 DEF ProcInv

LEMMA TickStep == ProcInv /\ Tick => ProcInv'
<1> SUFFICES ASSUME ProcInv, Tick PROVE ProcInv'
  OBVIOUS
<1>0. ProcTypeOK /\ ContextTypeOK /\ Lockstep /\ Booted BY DEF ProcInv, ProcTypeOK
<1>1. queueIndex # 0 BY <1>0 DEF Tick, ProcTypeOK
<1>2. currentProcess.state # "FREE" /\ currentProcess.cid = 0 /\ currentCid = 0
  BY <1>0, <1>1 DEF Booted
<1>3. currentProcess' = currentProcess /\ (SwitchTo(0) \/ Stay(psr))
  BY <1>2 DEF Tick, P1Dispatch, NextProcess
<1>4. UNCHANGED <<tableVars, vmInitCalled, processTable, queueTable, queueIndex>> BY DEF Tick
<1>5. currentCid' = 0 BY <1>2, <1>3 DEF SwitchTo, Stay, cpuVars
<1>6. ContextTypeOK'
  <2>1. psr \in PSR BY <1>0 DEF ContextTypeOK
  <2>2. 0 \in Cid BY SlotFacts
  <2> QED BY <1>0, <1>3, <1>4, <2>1, <2>2, DispatchType DEF ContextTypeOK, tableVars
<1>7. ProcTypeOK' BY <1>0, <1>3, <1>4, <1>6 DEF ProcTypeOK
<1>8. Lockstep' BY <1>0, <1>4 DEF Lockstep, tableVars
<1>9. Booted' BY <1>0, <1>1, <1>2, <1>3, <1>4, <1>5 DEF Booted
<1> QED BY <1>7, <1>8, <1>9 DEF ProcInv

LEMMA ProcInvariance == ProcSpec => []ProcInv
<1>1. P1ProcInit => ProcInv BY ProcInvInit
<1>2. ProcInv /\ [ProcNext]_procVars => ProcInv'
  <2>1. ProcInv /\ UNCHANGED procVars => ProcInv'
    BY DEF ProcInv, ProcTypeOK, ContextTypeOK, Lockstep, Booted, procVars, contextVars,
           tableVars, cpuVars, pcbVars
  <2> QED BY <2>1, RefusedStep, ForkStep, QuitStep, TickStep DEF ProcNext
<1> QED BY <1>1, <1>2, PTL DEF ProcSpec

\* QueueAgrees is inductive once the tables fill in step: P1_Fork writes the
\* same place of both, and P1_Quit clears a place of one.
LEMMA QueueStep == ProcInv /\ QueueAgrees /\ [ProcNext]_procVars => QueueAgrees'
<1> SUFFICES ASSUME ProcInv, QueueAgrees, [ProcNext]_procVars PROVE QueueAgrees'
  OBVIOUS
<1>0. /\ processTable \in [Slot -> PCB] /\ queueTable \in [Slot -> PCB]
      /\ queueIndex \in Nat
  BY SlotFacts DEF ProcInv, ProcTypeOK
<1>1. CASE UNCHANGED <<processTable, queueTable>> BY <1>1 DEF QueueAgrees
<1>2. ASSUME NEW n \in Name, NEW pr \in Priority, NEW pid \in PidArg, P1_Fork(n, pr, pid)
      PROVE  QueueAgrees'
  <2> DEFINE pcb(i, c) == [state |-> "READY", cid |-> c, pid |-> pid, name |-> n,
                           priority |-> pr, queueIndex |-> processTable[i].queueIndex]
  <2>1. PICK i \in Slot, c \in Cid \cup CidArg :
          /\ ForkSlot(i) /\ ForkContext(c)
          /\ processTable' = [processTable EXCEPT ![i] = pcb(i, c)]
          /\ queueTable' = [queueTable EXCEPT ![queueIndex] = QueueEntry(pcb(i, c))]
    BY <1>2 DEF P1_Fork
  <2>2. i = queueIndex BY <2>1, NextSlot
  <2>3. queueTable'[i] = [pcb(i, c) EXCEPT !.queueIndex = i] /\ processTable'[i] = pcb(i, c)
    BY <1>0, <2>1, <2>2 DEF QueueEntry
  <2>4. queueTable'[i] = [processTable'[i] EXCEPT !.queueIndex = i] BY <2>3
  <2>5. \A j \in Slot \ {i} : queueTable'[j] = queueTable[j] /\ processTable'[j] = processTable[j]
    BY <1>0, <2>1, <2>2
  <2> QED BY <2>4, <2>5 DEF QueueAgrees
<1>3. CASE P1_Quit
  <2>1. processTable' = processTable BY <1>3 DEF P1_Quit
  <2>2. \A j \in Slot : queueTable'[j] = queueTable[j] \/ queueTable'[j].state = "FREE"
    BY <1>0, <1>3 DEF P1_Quit, ClearProcess
  <2> QED BY <2>1, <2>2 DEF QueueAgrees
<1> QED BY <1>1, <1>2, <1>3 DEF ProcNext, ForkRefused, Tick, procVars, pcbVars

\* The tables of phase1b.c keep their types: queueIndex never passes the end
\* of the queue, although P1_Fork does not test it.
THEOREM ProcTypeCorrect == ProcSpec => []ProcTypeOK
<1>1. ProcInv => ProcTypeOK BY DEF ProcInv
<1> QED BY <1>1, ProcInvariance, PTL

\* P1_Fork may ignore the result of P1ContextCreate: while it finds a free
\* PCB there is a free context, and it is the one of the same index.
THEOREM TablesFillInStep == ProcSpec => []Lockstep
<1>1. ProcInv => Lockstep BY DEF ProcInv
<1> QED BY <1>1, ProcInvariance, PTL

\* P1_GetPid answers for the context that has the CPU.
THEOREM CurrentRuns == ProcSpec => []CurrentIsRunning
<1>1. ProcInv => CurrentIsRunning
  BY DEF ProcInv, ProcTypeOK, Booted, CurrentIsRunning, NoCid
<1> QED BY <1>1, ProcInvariance, PTL

\* Only the first process ever has the CPU, whatever the priorities are and
\* however often the clock rotates the queue, against phase1b.c:213 ("select
\* the highest-priority runnable process"): HighestPriorityRuns is refuted.
THEOREM OthersNeverRun == ProcSpec => []OnlyFirstRuns
<1>1. ProcInv => OnlyFirstRuns BY DEF ProcInv, Booted, OnlyFirstRuns
<1> QED BY <1>1, ProcInvariance, PTL

\* The copies that P1_Fork puts in the queue do not drift from the process
\* table (phase1b.c:131-132), whoever quits and whatever *pid held.
THEOREM CopiesAgree == ProcSpec => []QueueAgrees
<1>1. P1ProcInit => QueueAgrees BY DEF P1ProcInit, QueueAgrees, ClearProcess
<1>2. ProcInv /\ QueueAgrees /\ [ProcNext]_procVars => QueueAgrees' BY QueueStep
<1> QED BY <1>1, <1>2, ProcInvariance, PTL DEF ProcSpec

===============================================================================
