-------------------------------- MODULE Paging -------------------------------
(***************************************************************************)
(* phase3a.c and phase3b.c: page faults, the pager that resolves them and  *)
(* the frames it hands out.                                                *)
(*                                                                         *)
(* FaultHandler runs with interrupts off and is cut where phase 1 may      *)
(* dispatch; the pager is a process with interrupts on, and is cut before  *)
(* every test of a flag and every access to the frames and page tables.    *)
(* Contexts are freed and created with interrupts off, as P1_Fork does it. *)
(* Of phase 1 they know what Monitor says.  The pager begins with          *)
(* P1_Lock(pagerLID), a lock phase 3 never made: if it is never given, the *)
(* pager takes no step.                                                    *)
(* Page tables have their entries, although what gives P3_vmStats.pages    *)
(* its value is not in the repository.                                     *)
(***************************************************************************)
EXTENDS Integers, FiniteSets, Sequences, SequencesExt

CONSTANTS
  User,      (* the processes that have page tables               *)
  numPages,
  numFrames,
  MaxFaults  (* a bound: the queue has 200 places and never shrinks *)

Page == 0 .. numPages - 1
Frame == 0 .. numFrames - 1

ASSUME PagingAssumption ==
  /\ numFrames \in Nat \ {0} /\ numPages \in Nat \ {0}
  /\ MaxFaults \in Nat
  /\ "pager" \notin User

VARIABLES
  at,                (* where each process is, the pager included                 *)
  busy, waiting,     (* of faultLID, as in Monitor                                *)
  faultQueue,        (* the faults; its length is faultIndex                      *)
  faultInfo,         (* the page of the last fault                                *)
  terminalNotCalled,
  faultNotHandled,
  terminationQueue,  (* the places that are marked                                *)
  NotShutDown,       (* shared with phase2c.c                                     *)
  job,               (* what the pager has of its own: fault, frame and register  *)
  pteTable,          (* for each page its frame and whether it is in core         *)
  free,              (* the frames that are free                                  *)
  freeFrames,        (* P3_vmStats.freeFrames                                     *)
  fault,             (* history: the page each process in FaultHandler asked for  *)
  taken,             (* history: the processes whose last fault the pager took    *)
  doomed,            (* history: those whose last fault was answered OUT_OF_SWAP  *)
  ranOut,            (* history: the pager once found no frame free               *)
  torn               (* history: a table went away between the pager's two writes *)

lockVars == <<busy, waiting>>
queueVars == <<faultQueue, faultInfo>>
flagVars == <<terminalNotCalled, faultNotHandled, terminationQueue, NotShutDown>>
frameVars == <<pteTable, free, freeFrames, ranOut, torn>>
pastVars == <<fault, taken, doomed>>
vars == <<at, lockVars, queueVars, flagVars, job, frameVars, pastVars>>

Phase1 == INSTANCE Monitor WITH Proc <- User \cup {"pager"}, Lid <- {"faultLID"}

P1_Lock == Phase1!Lock("faultLID")
P1_Unlock == Phase1!Unlock("faultLID")

Here(p, a) == at[p] = a /\ p \notin waiting
GoTo(p, a) == at' = [at EXCEPT ![p] = a]

NoJob == [pid |-> "pager", page |-> 0, frame |-> 0, count |-> 0]

\* An entry of P3_AllocatePageTable: with a frame, but not in core.
NewEntry == [frame |-> 1, incore |-> FALSE]

P3FrameInit == free = Frame /\ freeFrames = numFrames

P3_VmInit ==
  /\ at = [p \in User \cup {"pager"} |-> IF p = "pager" THEN "loop" ELSE "run"]
  /\ Phase1!MonitorInit
  /\ faultQueue = <<>> /\ faultInfo = 0
  /\ terminalNotCalled = TRUE /\ faultNotHandled = TRUE
  /\ terminationQueue = {} /\ NotShutDown = TRUE
  /\ job = NoJob
  /\ pteTable = [u \in User |-> [p \in Page |-> NewEntry]]
  /\ P3FrameInit
  /\ fault = [u \in User |-> 0] /\ taken = {} /\ doomed = {}
  /\ ranOut = FALSE /\ torn = FALSE

------------------------------------------------------------------------------
(* Frames: phase3b.c.  Which process and page a frame is for is written and  *)
(* never read.                                                               *)

\* The pages P3FrameFreeAll finds in core, and their frames.
Scanned(u) == {p \in Page : p < numFrames /\ pteTable[u][p].incore}
FramesOf(u) == {pteTable[u][p].frame : p \in Scanned(u)}

\* With more frames than pages it reads on behind the table: what it takes for
\* entries there gives back frames of any number.
BehindTable(frames, count) ==
  /\ frames \in SUBSET Frame /\ Cardinality(frames) <= count
  /\ count \in IF numFrames > numPages THEN 0 .. numFrames - numPages ELSE {0}

TableGoes(u) == torn' = (torn \/ (at["pager"] = "incore" /\ job.pid = u))

\* P3FrameFreeAll, which P3_FreePageTable calls.  A frame that is not in the
\* frame table is written past its end.
P3_FreePageTable(u) ==
  /\ pteTable' = [pteTable EXCEPT ![u] =
       [p \in Page |-> IF p \in Scanned(u) THEN [@[p] EXCEPT !.incore = FALSE] ELSE @[p]]]
  /\ \E frames \in SUBSET Frame, count \in 0 .. numFrames :
       /\ BehindTable(frames, count)
       /\ free' = free \cup (FramesOf(u) \cap Frame) \cup frames
       /\ freeFrames' = freeFrames + Cardinality(Scanned(u)) + count
  /\ TableGoes(u)
  /\ UNCHANGED ranOut

\* Mutation: the frame found stays free.
StillFree(f) == free

Taken(f) == free \ {f}

\* Mutation: the frame found is not counted.
NotCounted == job.count

FreeCount == job.count - 1

\* The first free frame.  While the pager looks, others can only free frames,
\* so any frame that is free may be the first that it finds.
FrameFound ==
  /\ at["pager"] = "resolve" /\ GoTo("pager", "load")
  /\ \E f \in free : free' = Taken(f) /\ job' = [job EXCEPT !.frame = f]
  /\ UNCHANGED <<pteTable, freeFrames, ranOut, torn>>

\* freeFrames -= 1, which is read and then written.
FrameCounted ==
  /\ \/ /\ at["pager"] = "load" /\ GoTo("pager", "store")
        /\ job' = [job EXCEPT !.count = freeFrames]
        /\ UNCHANGED freeFrames
     \/ /\ at["pager"] = "store" /\ GoTo("pager", "map")
        /\ freeFrames' = FreeCount
        /\ job' = [job EXCEPT !.count = 0]
  /\ UNCHANGED <<pteTable, free, ranOut, torn>>

NoneFree ==
  /\ at["pager"] = "resolve" /\ GoTo("pager", "swap")
  /\ free = {} /\ ranOut' = TRUE
  /\ UNCHANGED <<job, pteTable, free, freeFrames, torn>>

\* The variable free of the code is uninitialized then.  If it is not 0, the
\* frame stays the 0 the pager gave it.
FrameLeft0 ==
  /\ job' = [job EXCEPT !.frame = 0]
  /\ UNCHANGED pteTable

\* P3SwapOut, of phase 3c: a frame whose pages are no longer in core.
FrameSwappedOut ==
  \E f \in Frame :
    /\ job' = [job EXCEPT !.frame = f]
    /\ pteTable' = [u \in User |-> [p \in Page |->
         [pteTable[u][p] EXCEPT !.incore = pteTable[u][p].incore /\ pteTable[u][p].frame # f]]]

FrameTakenBack ==
  /\ at["pager"] = "swap" /\ GoTo("pager", "map")
  /\ FrameLeft0 \/ FrameSwappedOut
  /\ UNCHANGED <<free, freeFrames, ranOut, torn>>

------------------------------------------------------------------------------
(* FaultHandler. *)

Enqueue(u, page) ==
  /\ P1_Lock
  /\ faultQueue' = Append(faultQueue, [pid |-> u, page |-> page])
  /\ terminalNotCalled' = FALSE
  /\ GoTo(u, "wait")
  /\ taken' = taken \ {u} /\ doomed' = doomed \ {u}
  /\ UNCHANGED <<faultNotHandled, terminationQueue, NotShutDown, job, frameVars>>

\* If the lock is busy the handler waits for it, with the page in faultInfo.
Fault(u, p) ==
  /\ at[u] = "run" /\ ~pteTable[u][p].incore
  /\ Len(faultQueue) < MaxFaults
  /\ faultInfo' = p
  /\ fault' = [fault EXCEPT ![u] = p]
  /\ \/ Enqueue(u, p)
     \/ /\ busy # {} /\ GoTo(u, "lock")
        /\ UNCHANGED <<lockVars, faultQueue, flagVars, job, frameVars, taken, doomed>>

LockGiven(u) ==
  /\ at[u] = "lock" /\ Len(faultQueue) < MaxFaults
  /\ Enqueue(u, faultInfo)
  /\ UNCHANGED <<faultInfo, fault>>

AwaitPager(u) ==
  /\ \/ Here(u, "wait") /\ faultNotHandled /\ Phase1!Wait(u) /\ UNCHANGED at
     \/ at[u] = "wait" /\ Phase1!Return(u) /\ UNCHANGED at
     \/ Here(u, "wait") /\ ~faultNotHandled /\ P1_Unlock /\ GoTo(u, "handled")
  /\ UNCHANGED <<queueVars, flagVars, job, frameVars, pastVars>>

\* The first place alone is looked at, and the first fault's process is freed.
Terminates == 0 \in terminationQueue

HandlerReturns(u) ==
  /\ at[u] = "handled"
  /\ faultNotHandled' = TRUE
  /\ fault' = [fault EXCEPT ![u] = 0]
  /\ IF Terminates THEN P3_FreePageTable(faultQueue[1].pid) /\ GoTo(u, "over")
                   ELSE UNCHANGED frameVars /\ GoTo(u, "run")
  /\ UNCHANGED <<lockVars, queueVars, terminalNotCalled, terminationQueue, NotShutDown, job, taken, doomed>>

\* A fault of another kind ends the process.
AccessFault(u) ==
  /\ at[u] = "run" /\ GoTo(u, "over")
  /\ UNCHANGED <<lockVars, queueVars, flagVars, job, frameVars, pastVars>>

\* The kernel gives up the context of a process that ended.
P1ContextFree(u) ==
  /\ at[u] = "over" /\ GoTo(u, "none")
  /\ P3_FreePageTable(u)
  /\ UNCHANGED <<lockVars, queueVars, flagVars, job, pastVars>>

\* The pid goes to a new process, with a new page table (P3_AllocatePageTable),
\* while faults of the old one may still be in the queue.
P1ContextCreate(u) ==
  /\ at[u] = "none" /\ GoTo(u, "run")
  /\ pteTable' = [pteTable EXCEPT ![u] = [p \in Page |-> NewEntry]]
  /\ TableGoes(u)
  /\ UNCHANGED <<lockVars, queueVars, flagVars, job, free, freeFrames, ranOut, pastVars>>

FaultHandler(u) ==
  \/ \E p \in Page : Fault(u, p)
  \/ LockGiven(u) \/ AwaitPager(u) \/ HandlerReturns(u) \/ AccessFault(u)

------------------------------------------------------------------------------
(* The pager. *)

PagerLoops ==
  /\ at["pager"] = "loop" /\ GoTo("pager", IF NotShutDown THEN "lock" ELSE "over")
  /\ job' = NoJob
  /\ UNCHANGED <<lockVars, queueVars, flagVars, frameVars, pastVars>>

\* A fault that comes between the test and P1_Wait has signalled already.
PagerAwaits ==
  /\ \/ at["pager"] = "lock" /\ P1_Lock /\ GoTo("pager", "await")
     \/ /\ Here("pager", "await") /\ GoTo("pager", IF terminalNotCalled THEN "sleep" ELSE "release")
        /\ UNCHANGED lockVars
     \/ at["pager"] = "sleep" /\ Phase1!Wait("pager") /\ GoTo("pager", "await")
     \/ at["pager"] = "await" /\ Phase1!Return("pager") /\ UNCHANGED at
     \/ at["pager"] = "release" /\ P1_Unlock /\ GoTo("pager", "take")
  /\ UNCHANGED <<queueVars, flagVars, job, frameVars, pastVars>>

\* Mutation: faults behind the second are left behind.
OnlySecond(q) == IF Len(q) = 1 THEN q ELSE [i \in 1 .. Len(q) |-> q[2]]

\* Mutation: the place behind the last fault is moved up too.
TooFar(q) == Append(Tail(q), [pid |-> "pager", page |-> 0])

\* Every fault moves up one place and the last stays where it was as well.
popQueue(q) == Append(Tail(q), Last(q))

\* A fault that arrives meanwhile comes behind these, whether it is moved or not.
PagerTakes ==
  /\ at["pager"] = "take" /\ GoTo("pager", "resolve")
  /\ job' = [job EXCEPT !.pid = faultQueue[1].pid, !.page = faultQueue[1].page]
  /\ faultQueue' = popQueue(faultQueue)
  /\ taken' = taken \cup {faultQueue[1].pid}
  /\ UNCHANGED <<lockVars, faultInfo, flagVars, frameVars, fault, doomed>>

P3PageFaultResolve ==
  /\ FrameFound \/ FrameCounted \/ NoneFree \/ FrameTakenBack
  /\ UNCHANGED <<lockVars, queueVars, flagVars, pastVars>>

\* P3SwapOut had no more room.
OutOfSwap ==
  /\ at["pager"] = "swap" /\ GoTo("pager", "report")
  /\ terminationQueue' = terminationQueue \cup {Len(faultQueue) - 1}
  /\ doomed' = doomed \cup {job.pid}
  /\ UNCHANGED <<lockVars, queueVars, terminalNotCalled, faultNotHandled, NotShutDown, job, frameVars,
                 fault, taken>>

\* Two writes, each through pteTable[pid] as it is then.
PagerMaps ==
  /\ \/ /\ at["pager"] = "map" /\ GoTo("pager", "incore")
        /\ pteTable' = [pteTable EXCEPT ![job.pid][job.page].frame = job.frame]
     \/ /\ at["pager"] = "incore" /\ GoTo("pager", "report")
        /\ pteTable' = [pteTable EXCEPT ![job.pid][job.page].incore = TRUE]
  /\ UNCHANGED <<lockVars, queueVars, flagVars, job, free, freeFrames, ranOut, torn, pastVars>>

PagerReports ==
  /\ \/ /\ at["pager"] = "report" /\ P1_Lock /\ GoTo("pager", "tell")
        /\ UNCHANGED <<terminalNotCalled, faultNotHandled>>
     \/ /\ at["pager"] = "tell" /\ GoTo("pager", "reset")
        /\ faultNotHandled' = FALSE
        /\ UNCHANGED <<lockVars, terminalNotCalled>>
     \/ /\ at["pager"] = "reset" /\ GoTo("pager", "unlock")
        /\ terminalNotCalled' = TRUE
        /\ UNCHANGED <<lockVars, faultNotHandled>>
     \/ /\ at["pager"] = "unlock" /\ P1_Unlock /\ GoTo("pager", "loop")
        /\ UNCHANGED <<terminalNotCalled, faultNotHandled>>
  /\ UNCHANGED <<queueVars, terminationQueue, NotShutDown, job, frameVars, pastVars>>

Pager ==
  \/ PagerLoops \/ PagerAwaits \/ PagerTakes
  \/ P3PageFaultResolve \/ OutOfSwap \/ PagerMaps \/ PagerReports

\* By P3_Startup, or by P2DiskShutdown.
P3_VmShutdown ==
  /\ NotShutDown' = FALSE
  /\ UNCHANGED <<at, lockVars, queueVars, terminalNotCalled, faultNotHandled, terminationQueue,
                 job, frameVars, pastVars>>

Next ==
  \/ Pager \/ P3_VmShutdown
  \/ \E u \in User : FaultHandler(u) \/ P1ContextFree(u) \/ P1ContextCreate(u)

Spec == P3_VmInit /\ [][Next]_vars

------------------------------------------------------------------------------
(* Properties. *)

Fault3A == [pid: User, page: Page]

Place == {"none", "run", "lock", "wait", "handled", "over", "loop", "await", "sleep",
          "release", "take", "resolve", "load", "store", "swap", "map", "incore", "report", "tell", "reset", "unlock"}

PlacesTyped ==
  /\ at \in [User \cup {"pager"} -> Place]
  /\ busy \subseteq {"faultLID"} /\ waiting \subseteq User \cup {"pager"}

QueueTyped ==
  /\ faultQueue \in Seq(Fault3A) /\ Len(faultQueue) <= MaxFaults
  /\ faultInfo \in Page
  /\ terminationQueue \subseteq 0 .. MaxFaults - 1
  /\ fault \in [User -> Page] /\ taken \subseteq User /\ doomed \subseteq User

FlagsTyped ==
  terminalNotCalled \in BOOLEAN /\ faultNotHandled \in BOOLEAN /\ NotShutDown \in BOOLEAN

Entry == [frame: Frame \cup {1}, incore: BOOLEAN]

FramesTyped ==
  /\ job \in [pid: User \cup {"pager"}, page: Page, frame: Frame, count: Int]
  /\ pteTable \in [User -> [Page -> Entry]]
  /\ free \subseteq Frame /\ freeFrames \in Int
  /\ ranOut \in BOOLEAN /\ torn \in BOOLEAN

\* Every variable keeps its type: phase3a.c:19-34 and phase3b.c:28-38.
PagingTypeOK == PlacesTyped /\ QueueTyped /\ FlagsTyped /\ FramesTyped

\* A fault stays in the queue until the pager has taken it, however many are
\* taken before it and arrive behind it: phase3a.c:82-87.
QueuedUntilTaken ==
  \A u \in User : at[u] = "wait" /\ u \notin taken => \E f \in ToSet(faultQueue) : f.pid = u

\* As long as no table is read past its end, no frame was handed out that was
\* not free, and no table went away between the two writes of the pager.
Orderly == numFrames <= numPages /\ ~ranOut /\ ~torn

\* freeFrames never promises a frame that is not free, although it is counted
\* by the page when a process gives its frames back, and the pager reads it and
\* writes it back while others add to it.  It may promise too few:
\* phase3b.c:137 and 191.
NeverMoreThanFree ==
  Orderly => freeFrames <= Cardinality(free) + IF at["pager"] \in {"load", "store"} THEN 1 ELSE 0

\* The pages in core, of all page tables.
InCore == {x \in User \X Page : pteTable[x[1]][x[2]].incore}

FrameOf(x) == pteTable[x[1]][x[2]].frame

\* No frame is mapped twice, in one page table or in two, and none that is
\* mapped is handed out again, although the pager resolves some faults twice
\* and others for a process that took over the pid: phase3b.c:185-199 and
\* phase3a.c:126-127.
FramesMappedOnce ==
  Orderly => /\ \A x, y \in InCore : FrameOf(x) = FrameOf(y) => x = y
             /\ \A x \in InCore : FrameOf(x) \notin free

\* No process is ever terminated for want of swap space: the mark goes behind
\* all faults so far, and the first fault finds a frame.  This is against
\* phase3a.c:77 and 143, see OutOfSwapTerminates: phase3a.c:64 and 121.
NobodyTerminated == ~Terminates

\* "wait until the fault has been handled by the pager": a process that comes
\* back from its fault finds its page in core.
FaultHandled ==
  [][\A u \in User : at[u] = "handled" /\ at'[u] = "run" => pteTable[u][fault[u]].incore]_vars

\* "terminate the process if necessary": a process whose fault was answered
\* P3_OUT_OF_SWAP does not go on.
OutOfSwapTerminates ==
  [][\A u \in User : at[u] = "handled" /\ at'[u] = "run" => u \notin doomed]_vars

==============================================================================
