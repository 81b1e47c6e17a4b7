------------------------------- MODULE Contexts ------------------------------
(***************************************************************************)
(* phase1a.c: the context table, the PSR and the page tables that          *)
(* phase3a.c hands out for contexts.                                       *)
(*                                                                         *)
(* The effects on the table (ContextCreate, ContextFree) and on the CPU    *)
(* (SwitchTo) touch different variables, so that Processes can put    *)
(* both in one step.                                                       *)
(***************************************************************************)
EXTENDS Integers, FiniteSets

CONSTANTS
  P1_MAXPROC,
  Block,    (* memory blocks malloc can return                             *)
  NoBlock,  (* the NULL pointer                                            *)
  CidArg,   (* the cids that P1ContextSwitch and P1ContextFree are called with *)
  MAXSTEPS  (* bound: steps a context takes after its launch               *)

Cid == 0 .. P1_MAXPROC - 1
NoCid == -1

ASSUME ContextsAssumption ==
  /\ P1_MAXPROC \in Nat \ {0}
  /\ NoBlock \notin Block
  /\ CidArg \subseteq Int
  /\ MAXSTEPS \in Nat

VARIABLES
  contexts,   (* active flag, stack and page table of each context          *)
  currentCid, (* the index of the context in use, -1 before the first       *)
  psr,        (* the processor status register                              *)
  heap,       (* the blocks malloc has given out                            *)
  pteTable,   (* phase3a.c: the page table of each cid                      *)
  vmInitCalled,
  at,         (* how far the code of each context has come since its launch *)
  left,       (* history: how far it was when the CPU last left it          *)
  cpu         (* "on", "halted" or "wild" (it runs what is no context)      *)

tableVars == <<contexts, heap, pteTable>>
cpuVars == <<currentCid, at, left, cpu>>
contextVars == <<tableVars, cpuVars, psr, vmInitCalled>>

Context == [active: BOOLEAN, stack: Block \cup {NoBlock}, table: Block \cup {NoBlock}]

------------------------------------------------------------------------------
(* The PSR: current mode and interrupt bit, then the previous ones.         *)

PSR == 0 .. 15
Kernel(s) == s % 2 = 1
IntrOn(s) == (s \div 2) % 2 = 1

\* Mutation: the bit is added even if it is set.
AddIntBit(s) == s + 2

P1EnableInterrupts(s) == IF IntrOn(s) THEN s ELSE s + 2
P1DisableInterrupts(s) == IF IntrOn(s) THEN s - 2 ELSE s

\* launch of phase2a.c: the mode bit is shifted out.
ToUserMode(s) == (s \div 2) * 2

\* A trap saves the current bits and enters the kernel with interrupts off.
Trapped(s) == (s % 4) * 4 + 1
TrapReturned(s) == (s \div 4) * 5

\* What code in kernel mode may do; in user mode checkForKernelMode halts.
Privileged == cpu = "on" /\ Kernel(psr)

HaltInUserMode ==
  /\ cpu = "on" /\ ~Kernel(psr)
  /\ cpu' = "halted"
  /\ UNCHANGED <<tableVars, currentCid, at, left, psr, vmInitCalled>>

SetInterrupts ==
  /\ Privileged
  /\ psr' \in {P1EnableInterrupts(psr), P1DisableInterrupts(psr)}
  /\ UNCHANGED <<tableVars, cpuVars, vmInitCalled>>

Trap ==
  /\ cpu = "on" /\ ~Kernel(psr)
  /\ psr' = Trapped(psr)
  /\ UNCHANGED <<tableVars, cpuVars, vmInitCalled>>

LeaveKernel ==
  /\ Privileged
  /\ psr' \in {ToUserMode(psr), TrapReturned(psr)}
  /\ UNCHANGED <<tableVars, cpuVars, vmInitCalled>>

------------------------------------------------------------------------------
(* The table. *)

P1ContextInit ==
  /\ contexts = [c \in Cid |-> [active |-> FALSE, stack |-> NoBlock, table |-> NoBlock]]
  /\ heap = {} /\ pteTable = [c \in Cid |-> NoBlock]

CpuInit ==
  /\ currentCid = NoCid /\ psr = 1 /\ cpu = "on" /\ vmInitCalled = FALSE
  /\ at = [c \in Cid |-> 0] /\ left = [c \in Cid |-> 0]

Inactive == {c \in Cid : ~contexts[c].active}

FirstInactive(c) == c \in Inactive /\ \A d \in Inactive : c <= d

\* P1ContextCreate(func, arg, stacksize, &cid) for a stack that is large
\* enough; it takes two blocks, for the stack and for P3_AllocatePageTable.
ContextCreate(c) ==
  /\ FirstInactive(c)
  /\ \E s, t \in Block \ heap :
       /\ s # t
       /\ heap' = heap \cup {s, t}
       /\ contexts' = [contexts EXCEPT ![c] = [active |-> TRUE, stack |-> s, table |-> t]]
       /\ pteTable' = [pteTable EXCEPT ![c] = t]

\* Mutation: a context may be freed twice.
FreeTwice(c) == c \in Cid /\ c # currentCid

\* Mutation: the context in use may be freed.
FreeCurrent(c) == c \in Cid /\ contexts[c].active

MayFree(c) == c \in Cid /\ contexts[c].active /\ c # currentCid

\* Mutation: the table is freed, but pteTable still points to it.
FreeTable(c) ==
  /\ MayFree(c)
  /\ heap' = heap \ {contexts[c].stack, contexts[c].table}
  /\ contexts' = [contexts EXCEPT ![c].active = FALSE]
  /\ UNCHANGED pteTable

\* P3_FreePageTable gives frames back, the table itself stays allocated.
ContextFree(c) ==
  /\ MayFree(c)
  /\ heap' = heap \ {contexts[c].stack}
  /\ contexts' = [contexts EXCEPT ![c].active = FALSE]
  /\ UNCHANGED pteTable

------------------------------------------------------------------------------
(* The CPU. *)

\* USLOSS launches a context in kernel mode; the other bits are its affair.
LaunchPSR == {s \in PSR : Kernel(s)}

\* The state of the old context is saved in a local variable of
\* P1ContextSwitch; the new one starts from what P1ContextCreate stored.
SwitchTo(c) ==
  /\ currentCid' = c
  /\ left' = IF currentCid \in Cid THEN [left EXCEPT ![currentCid] = at[currentCid]] ELSE left
  /\ at' = [at EXCEPT ![c] = 0]
  /\ psr' \in LaunchPSR
  /\ UNCHANGED cpu

MaySwitch(c, ctx) == c \in Cid /\ ctx[c].active

\* Entry P1_MAXPROC passes the range test: what lies behind the table decides.
RunWild ==
  /\ currentCid' = P1_MAXPROC /\ cpu' = "wild"
  /\ UNCHANGED <<at, left, psr>>

Step(c) ==
  /\ currentCid = c /\ at[c] < MAXSTEPS
  /\ at' = [at EXCEPT ![c] = @ + 1]
  /\ UNCHANGED <<currentCid, left, cpu>>

------------------------------------------------------------------------------
(* The calls. *)

P1ContextCreate ==
  /\ Privileged
  /\ \E c \in Cid :
       /\ ContextCreate(c)
       /\ at' = [at EXCEPT ![c] = 0] /\ left' = [left EXCEPT ![c] = 0]
  /\ UNCHANGED <<currentCid, cpu, psr, vmInitCalled>>

P1ContextSwitch(c) ==
  /\ Privileged
  /\ \/ MaySwitch(c, contexts) /\ SwitchTo(c)
     \/ c = P1_MAXPROC /\ RunWild
  /\ UNCHANGED <<tableVars, vmInitCalled>>

P1ContextFree(c) ==
  /\ Privileged
  /\ \/ ContextFree(c) /\ UNCHANGED cpuVars
     \/ /\ c = P1_MAXPROC /\ cpu' = "wild"
        /\ UNCHANGED <<tableVars, currentCid, at, left>>
  /\ UNCHANGED <<psr, vmInitCalled>>

Run ==
  /\ cpu = "on"
  /\ \E c \in Cid : Step(c)
  /\ UNCHANGED <<tableVars, psr, vmInitCalled>>

\* P3_VmInit forgets the page tables there are.
P3_VmInit ==
  /\ Privileged /\ ~vmInitCalled
  /\ vmInitCalled' = TRUE
  /\ pteTable' = [c \in Cid |-> NoBlock]
  /\ UNCHANGED <<contexts, heap, cpuVars, psr>>

ContextInit == P1ContextInit /\ CpuInit

ContextNext ==
  \/ P1ContextCreate
  \/ \E c \in CidArg : P1ContextSwitch(c) \/ P1ContextFree(c)
  \/ SetInterrupts \/ Trap \/ LeaveKernel \/ HaltInUserMode
  \/ Run \/ P3_VmInit

ContextSpec == ContextInit /\ [][ContextNext]_contextVars

------------------------------------------------------------------------------
(* Properties. *)

\* Every variable keeps its type: phase1a.c:15-26.
ContextTypeOK ==
  /\ contexts \in [Cid -> Context]
  /\ currentCid \in Cid \cup {NoCid, P1_MAXPROC}
  /\ psr \in PSR
  /\ heap \subseteq Block
  /\ pteTable \in [Cid -> Block \cup {NoBlock}]
  /\ vmInitCalled \in BOOLEAN
  /\ at \in [Cid -> 0 .. MAXSTEPS] /\ left \in [Cid -> 0 .. MAXSTEPS]
  /\ cpu \in {"on", "halted", "wild"}

Live == {c \in Cid : contexts[c].active}
Table(c) == contexts[c].table

\* Every context in use has a stack and a page table of its own, and both
\* are allocated, through any sequence of creations and frees: no stack is
\* freed twice and none is given to two contexts.
OwnMemory ==
  \A c \in Live :
    /\ {contexts[c].stack, Table(c)} \subseteq heap
    /\ contexts[c].stack # Table(c)
    /\ \A d \in Live \ {c} :
         {contexts[c].stack, Table(c)} \cap {contexts[d].stack, Table(d)} = {}

\* The CPU never runs on a context that was freed under it.
CurrentActive == currentCid \in Cid => contexts[currentCid].active

\* P3PageTableGet returns no block that is the stack of a context.
TableIsNoStack == \A c \in Cid, d \in Live : pteTable[c] # contexts[d].stack

\* P1EnableInterrupts and P1DisableInterrupts leave the mode and the bits
\* saved by a trap alone.
OnlyInterruptBit ==
  [][SetInterrupts => psr' % 2 = psr % 2 /\ psr' \div 4 = psr \div 4]_contextVars

\* "initialize the Context struct so we can access this context again": the
\* CPU comes back to a context where it left it.
ResumesWhereLeft == currentCid \in Cid => at[currentCid] >= left[currentCid]

==============================================================================
