---------------------------- MODULE ContextsProofs ----------------------------
(***************************************************************************)
(* What holds of Contexts for every size of the table and of the memory.   *)
(***************************************************************************)
EXTENDS Contexts, TLAPS

\* OwnMemory is inductive once every block in use is known to be allocated;
\* pteTable holds allocated blocks too, and no stack among them.
TablesAllocated == \A c \in Cid : pteTable[c] \in heap \cup {NoBlock}

ContextInv == ContextTypeOK /\ OwnMemory /\ CurrentActive /\ TableIsNoStack /\ TablesAllocated

\* The interrupt calls change the interrupt bit and nothing else of a PSR.
THEOREM InterruptCalls ==
  ASSUME NEW s \in PSR
  PROVE  /\ P1EnableInterrupts(s) \in PSR /\ P1DisableInterrupts(s) \in PSR
         /\ IntrOn(P1EnableInterrupts(s)) /\ ~IntrOn(P1DisableInterrupts(s))
         /\ \A t \in {P1EnableInterrupts(s), P1DisableInterrupts(s)} :
              t % 2 = s % 2 /\ t \div 4 = s \div 4
BY DEF PSR, P1EnableInterrupts, P1DisableInterrupts, IntrOn

LEMMA PSRType ==
  ASSUME NEW s \in PSR
  PROVE  Trapped(s) \in PSR /\ TrapReturned(s) \in PSR /\ ToUserMode(s) \in PSR
BY DEF PSR, Trapped, TrapReturned, ToUserMode

LEMMA CidFacts == Cid \subseteq Nat /\ NoCid \notin Cid /\ P1_MAXPROC \notin Cid
BY ContextsAssumption DEF ContextsAssumption, Cid, NoCid

LEMMA ContextTypeInit == ContextInit => ContextTypeOK
<1> SUFFICES ASSUME ContextInit PROVE ContextTypeOK
  OBVIOUS
<1>1. contexts \in [Cid -> Context] /\ heap \subseteq Block
      /\ pteTable \in [Cid -> Block \cup {NoBlock}]
  BY DEF ContextInit, P1ContextInit, Context
<1>2. at \in [Cid -> 0 .. MAXSTEPS] /\ left \in [Cid -> 0 .. MAXSTEPS]
  BY ContextsAssumption DEF ContextsAssumption, ContextInit, CpuInit
<1>3. psr \in PSR BY DEF ContextInit, CpuInit, PSR
<1>4. currentCid = NoCid /\ cpu = "on" /\ vmInitCalled \in BOOLEAN
  BY DEF ContextInit, CpuInit
<1> QED BY <1>1, <1>2, <1>3, <1>4 DEF ContextTypeOK

LEMMA ContextTypeStep == ContextTypeOK /\ [ContextNext]_contextVars => ContextTypeOK'
<1> SUFFICES ASSUME ContextTypeOK, [ContextNext]_contextVars PROVE ContextTypeOK'
  OBVIOUS
<1>0. /\ contexts \in [Cid -> Context] /\ currentCid \in Cid \cup {NoCid, P1_MAXPROC}
      /\ psr \in PSR /\ heap \subseteq Block /\ pteTable \in [Cid -> Block \cup {NoBlock}]
      /\ vmInitCalled \in BOOLEAN /\ at \in [Cid -> 0 .. MAXSTEPS]
      /\ left \in [Cid -> 0 .. MAXSTEPS] /\ cpu \in {"on", "halted", "wild"}
      /\ MAXSTEPS \in Nat
  BY ContextsAssumption DEF ContextsAssumption, ContextTypeOK
<1> USE DEF tableVars, cpuVars
<1>1. CASE P1ContextCreate
  <2>1. PICK c \in Cid : /\ ContextCreate(c)
                         /\ at' = [at EXCEPT ![c] = 0] /\ left' = [left EXCEPT ![c] = 0]
    BY <1>1 DEF P1ContextCreate
  <2>2. contexts' \in [Cid -> Context] /\ heap' \subseteq Block
        /\ pteTable' \in [Cid -> Block \cup {NoBlock}]
    BY <1>0, <2>1 DEF ContextCreate, Context
  <2>3. at' \in [Cid -> 0 .. MAXSTEPS] /\ left' \in [Cid -> 0 .. MAXSTEPS] BY <1>0, <2>1
  <2> QED BY <1>0, <1>1, <2>2, <2>3 DEF P1ContextCreate, ContextTypeOK
<1>2. ASSUME NEW c \in CidArg, P1ContextSwitch(c) PROVE ContextTypeOK'
  <2>1. CASE MaySwitch(c, contexts) /\ SwitchTo(c)
    <3>1. c \in Cid BY <2>1 DEF MaySwitch
    <3>2. at' \in [Cid -> 0 .. MAXSTEPS] /\ left' \in [Cid -> 0 .. MAXSTEPS]
      BY <1>0, <2>1, <3>1 DEF SwitchTo
    <3>3. psr' \in PSR BY <2>1 DEF SwitchTo, LaunchPSR
    <3> QED BY <1>0, <1>2, <2>1, <3>1, <3>2, <3>3 DEF P1ContextSwitch, SwitchTo, ContextTypeOK
  <2>2. CASE RunWild BY <1>0, <1>2, <2>2 DEF P1ContextSwitch, RunWild, ContextTypeOK
  <2> QED BY <1>2, <2>1, <2>2 DEF P1ContextSwitch
<1>3. ASSUME NEW c \in CidArg, P1ContextFree(c) PROVE ContextTypeOK'
  <2>1. CASE ContextFree(c)
    <3>1. contexts' \in [Cid -> Context] BY <1>0, <2>1 DEF ContextFree, MayFree, Context
    <3> QED BY <1>0, <1>3, <2>1, <3>1 DEF P1ContextFree, ContextFree, ContextTypeOK
  <2>2. CASE cpu' = "wild" /\ UNCHANGED <<tableVars, currentCid, at, left>>
    BY <1>0, <1>3, <2>2 DEF P1ContextFree, ContextTypeOK
  <2> QED BY <1>3, <2>1, <2>2 DEF P1ContextFree
<1>4. CASE SetInterrupts
  BY <1>0, <1>4, InterruptCalls DEF SetInterrupts, ContextTypeOK
<1>5. CASE Trap \/ LeaveKernel
  BY <1>0, <1>5, PSRType DEF Trap, LeaveKernel, ContextTypeOK
<1>6. CASE HaltInUserMode BY <1>0, <1>6 DEF HaltInUserMode, ContextTypeOK
<1>7. CASE Run
  <2>1. PICK c \in Cid : Step(c) BY <1>7 DEF Run
  <2>2. at' \in [Cid -> 0 .. MAXSTEPS] BY <1>0, <2>1 DEF Step
  <2> QED BY <1>0, <1>7, <2>1, <2>2 DEF Run, Step, ContextTypeOK
<1>8. CASE P3_VmInit BY <1>0, <1>8 DEF P3_VmInit, ContextTypeOK
<1>9. CASE UNCHANGED contextVars BY <1>0, <1>9 DEF contextVars, ContextTypeOK
<1> QED BY <1>1, <1>2, <1>3, <1>4, <1>5, <1>6, <1>7, <1>8, <1>9 DEF ContextNext

\* Every variable of phase1a.c keeps its type, and the PSR four bits.
THEOREM ContextTypeCorrect == ContextSpec => []ContextTypeOK
<1>1. ContextInit => ContextTypeOK BY ContextTypeInit
<1>2. ContextTypeOK /\ [ContextNext]_contextVars => ContextTypeOK' BY ContextTypeStep
<1> QED BY <1>1, <1>2, PTL DEF ContextSpec

\* P1EnableInterrupts and P1DisableInterrupts (phase1a.c:251-301) leave the
\* mode and the bits a trap saved as they are, whatever PSR they find.
THEOREM ModeSurvives == ContextSpec => OnlyInterruptBit
<1>1. ContextTypeOK /\ [ContextNext]_contextVars
        => [SetInterrupts => psr' % 2 = psr % 2 /\ psr' \div 4 = psr \div 4]_contextVars
  BY InterruptCalls DEF ContextTypeOK, SetInterrupts
<1> QED BY <1>1, ContextTypeCorrect, PTL DEF ContextSpec, OnlyInterruptBit

------------------------------------------------------------------------------
(* The memory of the contexts. *)

LEMMA ContextInvInit == ContextInit => ContextInv
<1> SUFFICES ASSUME ContextInit PROVE ContextInv
  OBVIOUS
<1>1. ContextTypeOK BY ContextTypeInit
<1>2. Live = {} BY DEF ContextInit, P1ContextInit, Live
<1>3. CurrentActive BY CidFacts DEF ContextInit, CpuInit, CurrentActive
<1>4. TablesAllocated BY DEF ContextInit, P1ContextInit, TablesAllocated
<1> QED BY <1>1, <1>2, <1>3, <1>4 DEF ContextInv, OwnMemory, TableIsNoStack

\* The blocks malloc returns are in no table yet.
LEMMA CreateKeepsMemory ==
  ASSUME ContextInv, NEW c \in Cid, ContextCreate(c)
  PROVE  OwnMemory' /\ TableIsNoStack' /\ TablesAllocated'
<1>0. /\ contexts \in [Cid -> Context] /\ pteTable \in [Cid -> Block \cup {NoBlock}]
      /\ OwnMemory /\ TableIsNoStack /\ TablesAllocated
  BY DEF ContextInv, ContextTypeOK
<1>1. PICK s \in Block \ heap, t \in Block \ heap :
        /\ s # t
        /\ heap' = heap \cup {s, t}
        /\ contexts' = [contexts EXCEPT ![c] = [active |-> TRUE, stack |-> s, table |-> t]]
        /\ pteTable' = [pteTable EXCEPT ![c] = t]
  BY DEF ContextCreate
<1>2. c \notin Live /\ Live' = Live \cup {c}
  BY <1>0, <1>1 DEF ContextCreate, FirstInactive, Inactive, Live, Context
<1>3. contexts'[c].stack = s /\ Table(c)' = t BY <1>0, <1>1 DEF Table
<1>4. \A d \in Live : contexts'[d] = contexts[d] /\ Table(d)' = Table(d)
  BY <1>0, <1>1, <1>2 DEF Table, Live
<1>5. \A d \in Live : {contexts[d].stack, Table(d)} \subseteq heap
  BY <1>0 DEF OwnMemory
<1>6. OwnMemory'
  <2> SUFFICES ASSUME NEW d \in Live'
               PROVE  /\ {contexts'[d].stack, Table(d)'} \subseteq heap'
                      /\ contexts'[d].stack # Table(d)'
                      /\ \A e \in Live' \ {d} :
                           {contexts'[d].stack, Table(d)'} \cap {contexts'[e].stack, Table(e)'} = {}
    BY DEF OwnMemory
  <2>1. CASE d = c BY <1>1, <1>2, <1>3, <1>4, <1>5, <2>1
  <2>2. CASE d # c
    <3>1. d \in Live BY <1>2, <2>2
    <3>2. /\ {contexts[d].stack, Table(d)} \subseteq heap
          /\ contexts[d].stack # Table(d)
          /\ \A e \in Live \ {d} :
               {contexts[d].stack, Table(d)} \cap {contexts[e].stack, Table(e)} = {}
      BY <1>0, <3>1 DEF OwnMemory
    <3> QED BY <1>1, <1>2, <1>3, <1>4, <3>1, <3>2
  <2> QED BY <2>1, <2>2
<1>7. TablesAllocated' BY <1>0, <1>1 DEF TablesAllocated
<1>8. TableIsNoStack'
  <2> SUFFICES ASSUME NEW e \in Cid, NEW d \in Live' PROVE pteTable'[e] # contexts'[d].stack
    BY DEF TableIsNoStack
  <2>1. s # NoBlock /\ t # NoBlock BY ContextsAssumption DEF ContextsAssumption
  <2>2. pteTable'[e] = IF e = c THEN t ELSE pteTable[e] BY <1>0, <1>1
  <2>3. d = c \/ d \in Live BY <1>2
  <2> QED BY <1>0, <1>1, <1>3, <1>4, <1>5, <2>1, <2>2, <2>3 DEF TableIsNoStack, TablesAllocated
<1> QED BY <1>6, <1>7, <1>8

\* A freed stack belongs to no other context and is no page table.
LEMMA FreeKeepsMemory ==
  ASSUME ContextInv, NEW c, ContextFree(c)
  PROVE  OwnMemory' /\ TableIsNoStack' /\ TablesAllocated'
<1>0. /\ contexts \in [Cid -> Context] /\ OwnMemory /\ TableIsNoStack /\ TablesAllocated
      /\ c \in Live /\ c \in Cid
  BY DEF ContextInv, ContextTypeOK, ContextFree, MayFree, Live
<1>1. /\ heap' = heap \ {contexts[c].stack} /\ UNCHANGED pteTable
      /\ contexts' = [contexts EXCEPT ![c].active = FALSE]
  BY DEF ContextFree
<1>2. Live' = Live \ {c} BY <1>0, <1>1 DEF Live, Context
<1>3. \A d \in Cid : contexts'[d].stack = contexts[d].stack /\ Table(d)' = Table(d)
  BY <1>0, <1>1 DEF Table, Context
<1>4. Live \subseteq Cid BY DEF Live
<1>5. OwnMemory'
  <2> SUFFICES ASSUME NEW d \in Live'
               PROVE  /\ {contexts'[d].stack, Table(d)'} \subseteq heap'
                      /\ contexts'[d].stack # Table(d)'
                      /\ \A e \in Live' \ {d} :
                           {contexts'[d].stack, Table(d)'} \cap {contexts'[e].stack, Table(e)'} = {}
    BY DEF OwnMemory
  <2>1. /\ {contexts[d].stack, Table(d)} \subseteq heap /\ contexts[d].stack # Table(d)
        /\ \A e \in Live \ {d} :
             {contexts[d].stack, Table(d)} \cap {contexts[e].stack, Table(e)} = {}
    BY <1>0, <1>2 DEF OwnMemory
  <2> QED BY <1>0, <1>1, <1>2, <1>3, <1>4, <2>1
<1>6. TableIsNoStack' BY <1>0, <1>1, <1>2, <1>3, <1>4 DEF TableIsNoStack
<1>7. TablesAllocated' BY <1>0, <1>1 DEF TablesAllocated, TableIsNoStack
<1> QED BY <1>5, <1>6, <1>7

\* Nothing else touches the memory of a context.
LEMMA MemoryKept ==
  ASSUME ContextInv, UNCHANGED <<contexts, heap>>,
         pteTable' = pteTable \/ pteTable' = [c \in Cid |-> NoBlock]
  PROVE  OwnMemory' /\ TableIsNoStack' /\ TablesAllocated'
<1>0. OwnMemory /\ TableIsNoStack /\ TablesAllocated /\ contexts \in [Cid -> Context]
      /\ heap \subseteq Block
  BY DEF ContextInv, ContextTypeOK
<1>1. Live' = Live /\ (\A c \in Cid : Table(c)' = Table(c)) BY DEF Live, Table
<1>2. \A d \in Live : contexts[d].stack # NoBlock /\ d \in Cid
  BY <1>0, ContextsAssumption DEF OwnMemory, ContextsAssumption, Live
<1>3. OwnMemory' BY <1>0, <1>1, <1>2 DEF OwnMemory
<1>4. TableIsNoStack' BY <1>0, <1>1, <1>2 DEF TableIsNoStack
<1>5. TablesAllocated' BY <1>0 DEF TablesAllocated
<1> QED BY <1>3, <1>4, <1>5

LEMMA MemoryStep ==
  ContextInv /\ [ContextNext]_contextVars => OwnMemory' /\ TableIsNoStack' /\ TablesAllocated'
<1> SUFFICES ASSUME ContextInv, [ContextNext]_contextVars
             PROVE  OwnMemory' /\ TableIsNoStack' /\ TablesAllocated'
  OBVIOUS
<1>1. CASE P1ContextCreate BY <1>1, CreateKeepsMemory DEF P1ContextCreate
<1>2. ASSUME NEW c \in CidArg, P1ContextFree(c)
      PROVE  OwnMemory' /\ TableIsNoStack' /\ TablesAllocated'
  BY <1>2, FreeKeepsMemory, MemoryKept DEF P1ContextFree, tableVars
<1>3. CASE UNCHANGED tableVars BY <1>3, MemoryKept DEF tableVars
<1>4. CASE P3_VmInit BY <1>4, MemoryKept DEF P3_VmInit
<1> QED BY <1>1, <1>2, <1>3, <1>4 DEF ContextNext, P1ContextSwitch, SetInterrupts, Trap,
          LeaveKernel, HaltInUserMode, Run, contextVars

LEMMA CurrentStep == ContextInv /\ [ContextNext]_contextVars => CurrentActive'
<1> SUFFICES ASSUME ContextInv, [ContextNext]_contextVars PROVE CurrentActive'
  OBVIOUS
<1>0. contexts \in [Cid -> Context] /\ CurrentActive BY DEF ContextInv, ContextTypeOK
<1>1. CASE P1ContextCreate
  BY <1>0, <1>1 DEF P1ContextCreate, ContextCreate, CurrentActive
<1>2. ASSUME NEW c \in CidArg, P1ContextSwitch(c) PROVE CurrentActive'
  BY <1>0, <1>2, CidFacts
  DEF P1ContextSwitch, SwitchTo, MaySwitch, RunWild, CurrentActive, tableVars
<1>3. ASSUME NEW c \in CidArg, P1ContextFree(c) PROVE CurrentActive'
  BY <1>0, <1>3
  DEF P1ContextFree, ContextFree, MayFree, CurrentActive, tableVars, cpuVars
<1>4. CASE UNCHANGED <<contexts, currentCid>> BY <1>0, <1>4 DEF CurrentActive
<1> QED BY <1>1, <1>2, <1>3, <1>4 DEF ContextNext, SetInterrupts, Trap, LeaveKernel,
          HaltInUserMode, Run, Step, P3_VmInit, contextVars, tableVars, cpuVars

LEMMA ContextInvariance == ContextSpec => []ContextInv
<1>1. ContextInit => ContextInv BY ContextInvInit
<1>2. ContextInv /\ [ContextNext]_contextVars => ContextInv'
  BY ContextTypeStep, MemoryStep, CurrentStep DEF ContextInv
<1> QED BY <1>1, <1>2, PTL DEF ContextSpec

\* No stack or page table is shared or freed under its context, whatever the
\* order of creations and frees (phase1a.c:120-157, 217-234).
THEOREM ContextsOwnMemory == ContextSpec => []OwnMemory
<1>1. ContextInv => OwnMemory BY DEF ContextInv
<1> QED BY <1>1, ContextInvariance, PTL

\* The context on the CPU is never freed (phase1a.c:225).
THEOREM CurrentStaysActive == ContextSpec => []CurrentActive
<1>1. ContextInv => CurrentActive BY DEF ContextInv
<1> QED BY <1>1, ContextInvariance, PTL

\* A page table pointer, stale as it may be, never points into a stack.
THEOREM TablesAreNoStacks == ContextSpec => []TableIsNoStack
<1>1. ContextInv => TableIsNoStack BY DEF ContextInv
<1> QED BY <1>1, ContextInvariance, PTL

===============================================================================
