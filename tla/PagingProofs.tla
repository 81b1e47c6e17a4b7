----------------------------- MODULE PagingProofs -----------------------------
(***************************************************************************)
(* What holds of Paging for any number of processes, pages, frames and     *)
(* faults.                                                                 *)
(***************************************************************************)
EXTENDS Paging, FiniteSetTheorems, FunctionTheorems, SequenceTheorems, TLAPS

------------------------------------------------------------------------------
(* The inductive invariant. *)

\* The pager takes only from a queue that has a fault.
QueueFilled ==
  (~terminalNotCalled \/ at["pager"] \in {"release", "take", "resolve"}) => faultQueue # <<>>

\* Once it has taken a fault, its job names the process that faulted.
JobOfUser ==
  at["pager"] \in {"resolve", "load", "store", "swap", "map", "incore"} => job.pid \in User

\* While the queue has had no second fault, the pager has a free frame before
\* it, or is past the search, and is then asked for nothing.
FirstFindsFrame ==
  /\ faultQueue = <<>> => free # {}
  /\ Len(faultQueue) <= 1 =>
       \/ free # {} /\ at["pager"] # "swap"
       \/ at["pager"] \in {"load", "store", "map", "incore", "report", "tell", "reset"}
       \/ terminalNotCalled /\ at["pager"] \in {"unlock", "loop", "lock", "await", "sleep", "over"}

TypeInv == PagingTypeOK /\ QueueFilled /\ JobOfUser /\ FirstFindsFrame /\ NobodyTerminated

\* FramesMappedOnce, page by page.
EachOnce ==
  Orderly =>
    \A u, v \in User : \A p, r \in Page :
      pteTable[u][p].incore =>
        /\ pteTable[u][p].frame \in Frame \ free
        /\ pteTable[v][r].incore /\ pteTable[v][r].frame = pteTable[u][p].frame => u = v /\ p = r

\* No page but the one the pager maps has the frame in its hand.
FrameInHand ==
  Orderly /\ at["pager"] \in {"load", "store", "map", "incore"} =>
    /\ job.frame \notin free
    /\ \A u \in User, p \in Page :
         pteTable[u][p].incore /\ pteTable[u][p].frame = job.frame =>
           at["pager"] = "incore" /\ u = job.pid /\ p = job.page
    /\ at["pager"] = "incore" => pteTable[job.pid][job.page].frame = job.frame

\* What the pager has read of freeFrames can only have become more.
CountInHand == at["pager"] = "store" => job.count <= freeFrames

RanOutAtSwap == at["pager"] = "swap" => ranOut

FrameInv == EachOnce /\ FrameInHand /\ CountInHand /\ NeverMoreThanFree /\ RanOutAtSwap

------------------------------------------------------------------------------
(* Types. *)

LEMMA FrameFacts ==
  /\ "pager" \notin User /\ 0 \in Frame /\ 0 \in Page
  /\ IsFiniteSet(Frame) /\ IsFiniteSet(Page)
BY PagingAssumption, FS_Interval DEF PagingAssumption, Frame, Page

\* Scanned(u) is all of a page table that can be in core.
LEMMA ScannedFinite ==
  ASSUME NEW u
  PROVE  IsFiniteSet(Scanned(u)) /\ Cardinality(Scanned(u)) \in Nat
<1>1. Scanned(u) \in SUBSET Page BY DEF Scanned
<1> QED BY <1>1, FrameFacts, FS_Subset, FS_CardinalityType

\* What is read behind a page table.
LEMMA BehindTyped ==
  ASSUME NEW frames, NEW count, BehindTable(frames, count)
  PROVE  /\ frames \subseteq Frame /\ count \in Nat
         /\ numFrames <= numPages => frames = {} /\ count = 0
<1>1. frames \in SUBSET Frame /\ Cardinality(frames) <= count BY DEF BehindTable
<1>2. count \in Nat /\ (numFrames <= numPages => count = 0)
  BY PagingAssumption DEF BehindTable, PagingAssumption
<1>3. IsFiniteSet(frames) BY <1>1, FrameFacts, FS_Subset
<1>4. numFrames <= numPages => Cardinality(frames) = 0 BY <1>1, <1>2, <1>3, FS_CardinalityType
<1> QED BY <1>1, <1>2, <1>3, <1>4, FS_EmptySet

\* P3_FreePageTable takes pages of one process out of core.
LEMMA FreePageTableTables ==
  ASSUME FramesTyped, NEW u \in User, P3_FreePageTable(u)
  PROVE  /\ pteTable' \in [User -> [Page -> Entry]]
         /\ \A v \in User, p \in Page :
              /\ pteTable'[v][p].frame = pteTable[v][p].frame
              /\ pteTable'[v][p].incore <=> pteTable[v][p].incore /\ ~(v = u /\ p \in Scanned(u))
<1>1. pteTable \in [User -> [Page -> Entry]] BY DEF FramesTyped
<1>2. pteTable' = [v \in User |-> IF v = u
        THEN [p \in Page |-> IF p \in Scanned(u) THEN [pteTable[u][p] EXCEPT !.incore = FALSE]
                             ELSE pteTable[u][p]]
        ELSE pteTable[v]]
  BY <1>1 DEF P3_FreePageTable
<1>3. ASSUME NEW p \in Page PROVE [pteTable[u][p] EXCEPT !.incore = FALSE] \in Entry
  <2>1. pteTable[u][p] \in Entry BY <1>1
  <2> QED BY <2>1 DEF Entry
<1>4. pteTable' \in [User -> [Page -> Entry]] BY <1>1, <1>2, <1>3
<1>5. ASSUME NEW v \in User, NEW p \in Page
      PROVE  /\ pteTable'[v][p].frame = pteTable[v][p].frame
             /\ pteTable'[v][p].incore <=> pteTable[v][p].incore /\ ~(v = u /\ p \in Scanned(u))
  <2>1. pteTable[v][p] \in [frame: Frame \cup {1}, incore: BOOLEAN] BY <1>1 DEF Entry
  <2>2. CASE v = u /\ p \in Scanned(u)
    <3>1. pteTable'[v][p] = [pteTable[v][p] EXCEPT !.incore = FALSE] BY <1>2, <2>2
    <3> QED BY <2>1, <2>2, <3>1
  <2>3. CASE ~(v = u /\ p \in Scanned(u))
    <3>1. pteTable'[v][p] = pteTable[v][p] BY <1>2, <2>3
    <3> QED BY <2>3, <3>1
  <2> QED BY <2>2, <2>3
<1> QED BY <1>4, <1>5

LEMMA FreePageTableTyped ==
  ASSUME FramesTyped, NEW u \in User, P3_FreePageTable(u), job' = job
  PROVE  FramesTyped' /\ free \subseteq free'
<1>1. PICK frames \in SUBSET Frame, count \in 0 .. numFrames :
        /\ BehindTable(frames, count)
        /\ free' = free \cup (FramesOf(u) \cap Frame) \cup frames
        /\ freeFrames' = freeFrames + Cardinality(Scanned(u)) + count
  BY DEF P3_FreePageTable
<1>2. freeFrames' \in Int BY <1>1, BehindTyped, ScannedFinite DEF FramesTyped
<1>3. free' \subseteq Frame /\ free \subseteq free' BY <1>1 DEF FramesTyped
<1>4. ranOut' \in BOOLEAN /\ torn' \in BOOLEAN BY DEF P3_FreePageTable, TableGoes, FramesTyped
<1>5. pteTable' \in [User -> [Page -> Entry]] BY FreePageTableTables
<1> QED BY <1>2, <1>3, <1>4, <1>5 DEF FramesTyped

\* The calls of phase 1 keep the types of the lock.
LEMMA LockTyped ==
  ASSUME PlacesTyped, NEW p \in User \cup {"pager"},
         P1_Lock \/ P1_Unlock \/ Phase1!Wait(p) \/ Phase1!Return(p) \/ UNCHANGED lockVars
  PROVE  busy' \subseteq {"faultLID"} /\ waiting' \subseteq User \cup {"pager"}
BY DEF PlacesTyped, P1_Lock, P1_Unlock, Phase1!Lock, Phase1!Unlock, Phase1!Wait, Phase1!Return, lockVars

\* What popQueue does to a queue that is not empty.
LEMMA PopQueue ==
  ASSUME NEW q \in Seq(Fault3A), q # <<>>
  PROVE  /\ popQueue(q) \in Seq(Fault3A) /\ Len(popQueue(q)) = Len(q)
         /\ \A i \in 2 .. Len(q) : popQueue(q)[i - 1] = q[i]
         /\ q[1] \in Fault3A
<1>1. Len(q) \in Nat \ {0} /\ q[1] \in Fault3A /\ q[Len(q)] \in Fault3A BY EmptySeq, ElementOfSeq
<1>2. /\ Tail(q) \in Seq(Fault3A) /\ Len(Tail(q)) = Len(q) - 1
      /\ \A i \in 1 .. Len(Tail(q)) : Tail(q)[i] = q[i + 1]
  BY HeadTailProperties
<1>3. /\ popQueue(q) \in Seq(Fault3A) /\ Len(popQueue(q)) = Len(Tail(q)) + 1
      /\ \A i \in 1 .. Len(Tail(q)) : popQueue(q)[i] = Tail(q)[i]
  BY <1>1, <1>2, AppendProperties DEF popQueue, Last
<1>4. ASSUME NEW i \in 2 .. Len(q) PROVE popQueue(q)[i - 1] = q[i]
  <2>1. i - 1 \in 1 .. Len(Tail(q)) BY <1>1, <1>2
  <2> QED BY <2>1, <1>2, <1>3
<1> QED BY <1>1, <1>2, <1>3, <1>4

LEMMA TypeInit == P3_VmInit => TypeInv
<1> SUFFICES ASSUME P3_VmInit PROVE TypeInv
  OBVIOUS
<1>1. PagingTypeOK
  <2>1. faultQueue \in Seq(Fault3A) /\ Len(faultQueue) <= MaxFaults
    BY EmptySeq, PagingAssumption DEF P3_VmInit, PagingAssumption
  <2>2. PlacesTyped BY DEF P3_VmInit, Phase1!MonitorInit, PlacesTyped, Place
  <2>3. QueueTyped BY <2>1, FrameFacts DEF P3_VmInit, QueueTyped
  <2>4. FlagsTyped BY DEF P3_VmInit, FlagsTyped
  <2>5. FramesTyped
    <3>1. job \in [pid: User \cup {"pager"}, page: Page, frame: Frame, count: Int]
      BY FrameFacts DEF P3_VmInit, NoJob
    <3>2. pteTable \in [User -> [Page -> Entry]] BY DEF P3_VmInit, NewEntry, Entry
    <3>3. free \subseteq Frame /\ freeFrames \in Int /\ ranOut \in BOOLEAN /\ torn \in BOOLEAN
      <4>1. free = Frame /\ freeFrames = numFrames /\ ranOut = FALSE /\ torn = FALSE
        BY DEF P3_VmInit, P3FrameInit
      <4>2. numFrames \in Int BY PagingAssumption DEF PagingAssumption
      <4> QED BY <4>1, <4>2
    <3> QED BY <3>1, <3>2, <3>3 DEF FramesTyped
  <2> QED BY <2>2, <2>3, <2>4, <2>5 DEF PagingTypeOK
<1>2. QueueFilled /\ JobOfUser BY DEF P3_VmInit, QueueFilled, JobOfUser
<1>3. FirstFindsFrame BY FrameFacts DEF P3_VmInit, P3FrameInit, FirstFindsFrame
<1>4. NobodyTerminated BY DEF P3_VmInit, NobodyTerminated, Terminates
<1> QED BY <1>1, <1>2, <1>3, <1>4 DEF TypeInv

\* A process that moves, with or without a call of phase 1, keeps these types.
LEMMA MoveTyped ==
  ASSUME PlacesTyped, NEW p \in User \cup {"pager"}, NEW q \in User \cup {"pager"},
         UNCHANGED at \/ \E a \in Place : GoTo(p, a),
         P1_Lock \/ P1_Unlock \/ Phase1!Wait(q) \/ Phase1!Return(q) \/ UNCHANGED lockVars
  PROVE  PlacesTyped'
<1>1. at' \in [User \cup {"pager"} -> Place] BY DEF PlacesTyped, GoTo
<1> QED BY <1>1, LockTyped DEF PlacesTyped

\* What only the pager's place, the queue, its flag and the frames decide.
LEMMA FirstFindsKept ==
  ASSUME TypeInv, UNCHANGED <<faultQueue, terminalNotCalled, terminationQueue>>,
         at'["pager"] = at["pager"], free \subseteq free', job' = job
  PROVE  QueueFilled' /\ JobOfUser' /\ FirstFindsFrame' /\ NobodyTerminated'
BY DEF TypeInv, QueueFilled, JobOfUser, FirstFindsFrame, NobodyTerminated, Terminates

\* Steps of a user leave the pager where it is.
LEMMA PagerStays ==
  ASSUME PlacesTyped, NEW u \in User, NEW a, GoTo(u, a)
  PROVE  at'["pager"] = at["pager"]
BY FrameFacts DEF PlacesTyped, GoTo

LEMMA UserTypes ==
  ASSUME TypeInv, NEW u \in User, FaultHandler(u) \/ P1ContextFree(u) \/ P1ContextCreate(u)
  PROVE  TypeInv'
<1>0. /\ PlacesTyped /\ QueueTyped /\ FlagsTyped /\ FramesTyped
      /\ QueueFilled /\ JobOfUser /\ FirstFindsFrame /\ NobodyTerminated
  BY DEF TypeInv, PagingTypeOK
<1>1. ASSUME NEW p \in Page, Enqueue(u, p), Len(faultQueue) < MaxFaults,
             faultInfo' \in Page, fault' \in [User -> Page]
      PROVE  TypeInv'
  <2>1. [pid |-> u, page |-> p] \in Fault3A BY DEF Fault3A
  <2>2. /\ faultQueue' \in Seq(Fault3A) /\ Len(faultQueue') = Len(faultQueue) + 1
        /\ faultQueue' # <<>> /\ Len(faultQueue) \in Nat
    BY <1>0, <1>1, <2>1, AppendProperties, LenProperties DEF Enqueue, QueueTyped
  <2>3. PlacesTyped' BY <1>0, <1>1, MoveTyped DEF Enqueue, Place
  <2>4. QueueTyped' BY <1>0, <1>1, <2>2, PagingAssumption DEF Enqueue, flagVars, QueueTyped, PagingAssumption
  <2>5. FlagsTyped' BY <1>0, <1>1 DEF Enqueue, FlagsTyped
  <2>6. FramesTyped' BY <1>0, <1>1 DEF Enqueue, frameVars, FramesTyped
  <2>7. at'["pager"] = at["pager"] BY <1>0, <1>1, PagerStays DEF Enqueue
  <2>8. QueueFilled' BY <2>2 DEF QueueFilled
  <2>9. JobOfUser' BY <1>0, <1>1, <2>7 DEF Enqueue, JobOfUser
  <2>10. FirstFindsFrame'
    <3>1. Len(faultQueue') <= 1 => faultQueue = <<>> BY <1>0, <2>2, EmptySeq DEF QueueTyped
    <3>2. faultQueue = <<>> => free # {} /\ at["pager"] # "swap"
      <4>1. faultQueue = <<>> => Len(faultQueue) <= 1 BY <1>0, EmptySeq DEF QueueTyped
      <4> QED BY <1>0, <4>1 DEF FirstFindsFrame
    <3> QED BY <1>0, <1>1, <2>2, <2>7, <3>1, <3>2 DEF Enqueue, frameVars, FirstFindsFrame
  <2>11. NobodyTerminated' BY <1>0, <1>1 DEF Enqueue, NobodyTerminated, Terminates
  <2> QED BY <2>3, <2>4, <2>5, <2>6, <2>8, <2>9, <2>10, <2>11 DEF TypeInv, PagingTypeOK
<1>2. ASSUME NEW a \in Place, UNCHANGED at \/ GoTo(u, a),
             UNCHANGED <<faultQueue, terminalNotCalled, terminationQueue, job>>,
             PlacesTyped', FramesTyped', free \subseteq free',
             faultInfo' \in Page, fault' \in [User -> Page], taken' = taken, doomed' = doomed,
             faultNotHandled' \in BOOLEAN, NotShutDown' = NotShutDown
      PROVE  TypeInv'
  <2>1. at'["pager"] = at["pager"] BY <1>0, <1>2, PagerStays
  <2>2. QueueTyped' /\ FlagsTyped' BY <1>0, <1>2 DEF QueueTyped, FlagsTyped
  <2> QED BY <1>2, <2>1, <2>2, FirstFindsKept DEF TypeInv, PagingTypeOK
<1>3. ASSUME NEW p \in Page, Fault(u, p) PROVE TypeInv'
  <2>1. faultInfo' \in Page /\ fault' \in [User -> Page] BY <1>0, <1>3 DEF Fault, QueueTyped
  <2>2. CASE Enqueue(u, p) BY <1>1, <1>3, <2>1, <2>2 DEF Fault
  <2>3. CASE GoTo(u, "lock") /\ UNCHANGED <<lockVars, faultQueue, flagVars, job, frameVars, taken, doomed>>
    <3>1. PlacesTyped' BY <1>0, <2>3, MoveTyped DEF Place
    <3>2. FramesTyped' /\ free \subseteq free' BY <1>0, <2>3 DEF frameVars, FramesTyped
    <3> QED BY <1>0, <1>2, <2>1, <2>3, <3>1, <3>2 DEF flagVars, FlagsTyped, Place
  <2> QED BY <1>3, <2>2, <2>3 DEF Fault
<1>4. ASSUME LockGiven(u) PROVE TypeInv'
  BY <1>0, <1>1, <1>4 DEF LockGiven, QueueTyped
<1>5. ASSUME AwaitPager(u) PROVE TypeInv'
  <2>1. UNCHANGED at \/ GoTo(u, "handled") BY <1>5 DEF AwaitPager
  <2>2. PlacesTyped' BY <1>0, <1>5, <2>1, MoveTyped DEF AwaitPager, Place
  <2>3. FramesTyped' /\ free \subseteq free' BY <1>0, <1>5 DEF AwaitPager, frameVars, FramesTyped
  <2> QED
    BY <1>0, <1>2, <1>5, <2>1, <2>2, <2>3
    DEF AwaitPager, queueVars, flagVars, pastVars, QueueTyped, FlagsTyped, Place
<1>6. ASSUME HandlerReturns(u) PROVE TypeInv'
  <2>1. ~Terminates BY <1>0 DEF NobodyTerminated
  <2>2. GoTo(u, "run") /\ UNCHANGED frameVars BY <1>6, <2>1 DEF HandlerReturns
  <2>3. PlacesTyped' BY <1>0, <1>6, <2>2, MoveTyped DEF HandlerReturns, Place
  <2>4. FramesTyped' /\ free \subseteq free' BY <1>0, <1>6, <2>2 DEF HandlerReturns, frameVars, FramesTyped
  <2>5. fault' \in [User -> Page] BY <1>0, <1>6, FrameFacts DEF HandlerReturns, QueueTyped
  <2> QED
    BY <1>0, <1>2, <1>6, <2>2, <2>3, <2>4, <2>5 DEF HandlerReturns, queueVars, QueueTyped, Place
<1>7. ASSUME AccessFault(u) PROVE TypeInv'
  <2>1. PlacesTyped' BY <1>0, <1>7, MoveTyped DEF AccessFault, Place
  <2>2. FramesTyped' /\ free \subseteq free' BY <1>0, <1>7 DEF AccessFault, frameVars, FramesTyped
  <2> QED
    BY <1>0, <1>2, <1>7, <2>1, <2>2
    DEF AccessFault, queueVars, flagVars, pastVars, QueueTyped, FlagsTyped, Place
<1>8. ASSUME P1ContextFree(u) PROVE TypeInv'
  <2>1. PlacesTyped' BY <1>0, <1>8, MoveTyped DEF P1ContextFree, Place
  <2>2. FramesTyped' /\ free \subseteq free'
    BY <1>0, <1>8, FreePageTableTyped DEF P1ContextFree
  <2> QED
    BY <1>0, <1>2, <1>8, <2>1, <2>2
    DEF P1ContextFree, queueVars, flagVars, pastVars, QueueTyped, FlagsTyped, Place
<1>9. ASSUME P1ContextCreate(u) PROVE TypeInv'
  <2>1. PlacesTyped' BY <1>0, <1>9, MoveTyped DEF P1ContextCreate, Place
  <2>2. FramesTyped' /\ free \subseteq free'
    <3>1. [p \in Page |-> NewEntry] \in [Page -> Entry] BY DEF NewEntry, Entry
    <3>2. pteTable' \in [User -> [Page -> Entry]] BY <1>0, <1>9, <3>1 DEF P1ContextCreate, FramesTyped
    <3> QED BY <1>0, <1>9, <3>2 DEF P1ContextCreate, TableGoes, FramesTyped
  <2> QED
    BY <1>0, <1>2, <1>9, <2>1, <2>2
    DEF P1ContextCreate, queueVars, flagVars, pastVars, QueueTyped, FlagsTyped, Place
<1> QED BY <1>3, <1>4, <1>5, <1>6, <1>7, <1>8, <1>9 DEF FaultHandler

\* P3PageFaultResolve keeps the types of the frames.
LEMMA ResolveTyped ==
  ASSUME FramesTyped, P3PageFaultResolve
  PROVE  FramesTyped' /\ job'.pid = job.pid
<1>1. CASE FrameFound BY <1>1 DEF FrameFound, Taken, FramesTyped
<1>2. CASE FrameCounted BY <1>2 DEF FrameCounted, FreeCount, FramesTyped
<1>3. CASE NoneFree BY <1>3 DEF NoneFree, FramesTyped
<1>4. CASE FrameTakenBack /\ FrameLeft0 BY <1>4, FrameFacts DEF FrameTakenBack, FrameLeft0, FramesTyped
<1>5. CASE FrameTakenBack /\ FrameSwappedOut
  <2>1. PICK f \in Frame :
          /\ job' = [job EXCEPT !.frame = f]
          /\ pteTable' = [u \in User |-> [p \in Page |->
               [pteTable[u][p] EXCEPT !.incore = pteTable[u][p].incore /\ pteTable[u][p].frame # f]]]
    BY <1>5 DEF FrameSwappedOut
  <2>2. ASSUME NEW u \in User, NEW p \in Page
        PROVE  [pteTable[u][p] EXCEPT !.incore = pteTable[u][p].incore /\ pteTable[u][p].frame # f] \in Entry
    <3>1. pteTable[u][p] \in Entry BY DEF FramesTyped
    <3> QED BY <3>1 DEF Entry
  <2>3. pteTable' \in [User -> [Page -> Entry]] BY <2>1, <2>2
  <2>4. job' \in [pid: User \cup {"pager"}, page: Page, frame: Frame, count: Int] /\ job'.pid = job.pid
    BY <2>1 DEF FramesTyped
  <2> QED BY <1>5, <2>3, <2>4 DEF FrameTakenBack, FramesTyped
<1> QED BY <1>1, <1>2, <1>3, <1>4, <1>5 DEF P3PageFaultResolve, FrameTakenBack

\* The two writes of the pager, entry by entry.
LEMMA MapsTyped ==
  ASSUME FramesTyped, PagerMaps, job.pid \in User
  PROVE  /\ pteTable' \in [User -> [Page -> Entry]]
         /\ at["pager"] = "map" =>
              \A u \in User, p \in Page :
                /\ pteTable'[u][p].incore = pteTable[u][p].incore
                /\ pteTable'[u][p].frame = IF u = job.pid /\ p = job.page THEN job.frame
                                           ELSE pteTable[u][p].frame
         /\ at["pager"] # "map" =>
              \A u \in User, p \in Page :
                /\ pteTable'[u][p].frame = pteTable[u][p].frame
                /\ pteTable'[u][p].incore <=> pteTable[u][p].incore \/ (u = job.pid /\ p = job.page)
<1>0. /\ pteTable \in [User -> [Page -> Entry]] /\ job.page \in Page /\ job.frame \in Frame
      /\ \A u \in User, p \in Page : pteTable[u][p] \in Entry
  BY DEF FramesTyped
<1>1. CASE at["pager"] = "map"
  <2>1. pteTable' = [pteTable EXCEPT ![job.pid][job.page].frame = job.frame] BY <1>1 DEF PagerMaps
  <2>2. [pteTable[job.pid][job.page] EXCEPT !.frame = job.frame] \in Entry BY <1>0 DEF Entry
  <2>3. pteTable' \in [User -> [Page -> Entry]] BY <1>0, <2>1, <2>2
  <2>4. ASSUME NEW u \in User, NEW p \in Page
        PROVE  pteTable'[u][p] = IF u = job.pid /\ p = job.page
                                 THEN [pteTable[u][p] EXCEPT !.frame = job.frame] ELSE pteTable[u][p]
    BY <1>0, <2>1
  <2>5. ASSUME NEW u \in User, NEW p \in Page
        PROVE  /\ pteTable'[u][p].incore = pteTable[u][p].incore
               /\ pteTable'[u][p].frame = IF u = job.pid /\ p = job.page THEN job.frame
                                          ELSE pteTable[u][p].frame
    <3>1. pteTable[u][p] \in [frame: Frame \cup {1}, incore: BOOLEAN] BY <1>0 DEF Entry
    <3> QED BY <2>4, <3>1
  <2> QED BY <1>1, <2>3, <2>5
<1>2. CASE at["pager"] # "map"
  <2>1. pteTable' = [pteTable EXCEPT ![job.pid][job.page].incore = TRUE] BY <1>2 DEF PagerMaps
  <2>2. [pteTable[job.pid][job.page] EXCEPT !.incore = TRUE] \in Entry
    <3>1. pteTable[job.pid][job.page] \in Entry BY <1>0
    <3> QED BY <3>1 DEF Entry
  <2>3. pteTable' \in [User -> [Page -> Entry]] BY <1>0, <2>1, <2>2
  <2>4. ASSUME NEW u \in User, NEW p \in Page
        PROVE  pteTable'[u][p] = IF u = job.pid /\ p = job.page
                                 THEN [pteTable[u][p] EXCEPT !.incore = TRUE] ELSE pteTable[u][p]
    BY <1>0, <2>1
  <2>5. ASSUME NEW u \in User, NEW p \in Page
        PROVE  /\ pteTable'[u][p].frame = pteTable[u][p].frame
               /\ pteTable'[u][p].incore <=> pteTable[u][p].incore \/ (u = job.pid /\ p = job.page)
    <3>1. pteTable[u][p] \in [frame: Frame \cup {1}, incore: BOOLEAN] BY <1>0 DEF Entry
    <3>2. CASE u = job.pid /\ p = job.page
      <4>1. pteTable'[u][p] = [pteTable[u][p] EXCEPT !.incore = TRUE] BY <2>4, <3>2
      <4> QED BY <3>1, <3>2, <4>1
    <3>3. CASE ~(u = job.pid /\ p = job.page)
      <4>1. pteTable'[u][p] = pteTable[u][p] BY <2>4, <3>3
      <4>2. pteTable[u][p].incore \in BOOLEAN BY <3>1
      <4> QED BY <3>3, <4>1, <4>2
    <3> QED BY <3>2, <3>3
  <2> QED BY <1>2, <2>3, <2>5
<1> QED BY <1>1, <1>2

LEMMA PagerTypes ==
  ASSUME TypeInv, Pager
  PROVE  TypeInv'
<1>0. /\ PlacesTyped /\ QueueTyped /\ FlagsTyped /\ FramesTyped
      /\ QueueFilled /\ JobOfUser /\ FirstFindsFrame /\ NobodyTerminated
  BY DEF TypeInv, PagingTypeOK
<1>1. ASSUME NEW a, GoTo("pager", a) PROVE at'["pager"] = a
  BY <1>0, <1>1 DEF PlacesTyped, GoTo
<1>2. ASSUME PagerLoops PROVE TypeInv'
  <2>1. PICK a \in {"lock", "over"} : GoTo("pager", a) BY <1>2 DEF PagerLoops
  <2>2. PlacesTyped' BY <1>0, <1>2, <2>1, MoveTyped DEF PagerLoops, Place
  <2>3. QueueTyped' /\ FlagsTyped' /\ FramesTyped'
    BY <1>0, <1>2, FrameFacts
    DEF PagerLoops, queueVars, flagVars, frameVars, pastVars, NoJob, QueueTyped, FlagsTyped, FramesTyped
  <2>4. QueueFilled' /\ JobOfUser' /\ NobodyTerminated' /\ FirstFindsFrame'
    BY <1>0, <1>1, <1>2, <2>1
    DEF PagerLoops, queueVars, flagVars, frameVars, QueueFilled, JobOfUser, NobodyTerminated, Terminates,
        FirstFindsFrame
  <2> QED BY <2>2, <2>3, <2>4 DEF TypeInv, PagingTypeOK
<1>3. ASSUME PagerAwaits PROVE TypeInv'
  <2>1. UNCHANGED at \/ \E a \in Place : GoTo("pager", a) BY <1>3 DEF PagerAwaits, Place
  <2>2. PlacesTyped' BY <1>0, <1>3, <2>1, MoveTyped DEF PagerAwaits
  <2>3. QueueTyped' /\ FlagsTyped' /\ FramesTyped'
    BY <1>0, <1>3
    DEF PagerAwaits, queueVars, flagVars, frameVars, pastVars, QueueTyped, FlagsTyped, FramesTyped
  <2>4. \/ at["pager"] \in {"lock", "await", "sleep"} /\ at'["pager"] = "await"
        \/ at["pager"] = "await" /\ at'["pager"] = "sleep" /\ terminalNotCalled
        \/ at["pager"] = "await" /\ at'["pager"] = "release" /\ ~terminalNotCalled
        \/ at["pager"] = "release" /\ at'["pager"] = "take"
    <3>1. CASE Here("pager", "await") /\ terminalNotCalled /\ GoTo("pager", "sleep")
      BY <1>1, <3>1 DEF Here
    <3>2. CASE Here("pager", "await") /\ ~terminalNotCalled /\ GoTo("pager", "release")
      BY <1>1, <3>2 DEF Here
    <3>3. CASE at["pager"] \in {"lock", "sleep"} /\ GoTo("pager", "await") BY <1>1, <3>3
    <3>4. CASE at["pager"] = "await" /\ UNCHANGED at BY <3>4
    <3>5. CASE at["pager"] = "release" /\ GoTo("pager", "take") BY <1>1, <3>5
    <3> QED BY <1>3, <3>1, <3>2, <3>3, <3>4, <3>5 DEF PagerAwaits
  <2>5. UNCHANGED <<queueVars, flagVars, job, frameVars>> BY <1>3 DEF PagerAwaits
  <2>6. QueueFilled' /\ JobOfUser' /\ NobodyTerminated' /\ FirstFindsFrame'
    BY <1>0, <2>4, <2>5
    DEF queueVars, flagVars, frameVars, QueueFilled, JobOfUser, NobodyTerminated, Terminates, FirstFindsFrame
  <2> QED BY <2>2, <2>3, <2>6 DEF TypeInv, PagingTypeOK
<1>4. ASSUME PagerTakes PROVE TypeInv'
  <2>1. faultQueue \in Seq(Fault3A) /\ faultQueue # <<>> BY <1>0, <1>4 DEF PagerTakes, QueueFilled, QueueTyped
  <2>2. /\ faultQueue' \in Seq(Fault3A) /\ Len(faultQueue') = Len(faultQueue)
        /\ faultQueue[1] \in Fault3A
    BY <1>4, <2>1, PopQueue DEF PagerTakes
  <2>3. faultQueue[1].pid \in User /\ faultQueue[1].page \in Page BY <2>2 DEF Fault3A
  <2>4. PlacesTyped' BY <1>0, <1>4, MoveTyped DEF PagerTakes, Place
  <2>5. QueueTyped' BY <1>0, <1>4, <2>2, <2>3 DEF PagerTakes, flagVars, QueueTyped
  <2>6. FlagsTyped' BY <1>0, <1>4 DEF PagerTakes, flagVars, FlagsTyped
  <2>7. FramesTyped' BY <1>0, <1>4, <2>3 DEF PagerTakes, frameVars, FramesTyped
  <2>8. faultQueue' # <<>> BY <2>1, <2>2, EmptySeq
  <2>9. QueueFilled' /\ NobodyTerminated' BY <1>0, <1>4, <2>8
    DEF PagerTakes, flagVars, QueueFilled, NobodyTerminated, Terminates
  <2>10. JobOfUser' BY <1>0, <1>1, <1>4, <2>3 DEF PagerTakes, JobOfUser, FramesTyped
  <2>11. FirstFindsFrame'
    <3>1. at["pager"] = "take" /\ at'["pager"] = "resolve" /\ UNCHANGED free
      BY <1>1, <1>4 DEF PagerTakes, frameVars
    <3> QED BY <1>0, <2>2, <2>8, <3>1 DEF FirstFindsFrame
  <2> QED BY <2>4, <2>5, <2>6, <2>7, <2>9, <2>10, <2>11 DEF TypeInv, PagingTypeOK
<1>5. ASSUME P3PageFaultResolve PROVE TypeInv'
  <2>1. /\ at["pager"] \in {"resolve", "load", "store", "swap"} /\ job.pid \in User
        /\ UNCHANGED <<lockVars, queueVars, flagVars, pastVars>>
    BY <1>0, <1>5 DEF P3PageFaultResolve, FrameFound, FrameCounted, NoneFree, FrameTakenBack, JobOfUser
  <2>2. \/ at["pager"] = "resolve" /\ GoTo("pager", "load")
        \/ at["pager"] = "load" /\ GoTo("pager", "store")
        \/ at["pager"] \in {"store", "swap"} /\ GoTo("pager", "map")
        \/ at["pager"] = "resolve" /\ GoTo("pager", "swap") /\ free = {} /\ UNCHANGED free
    BY <1>5 DEF P3PageFaultResolve, FrameFound, FrameCounted, NoneFree, FrameTakenBack
  <2>3. PlacesTyped' BY <1>0, <2>1, <2>2, MoveTyped DEF Place
  <2>4. QueueTyped' /\ FlagsTyped' BY <1>0, <2>1 DEF queueVars, flagVars, pastVars, QueueTyped, FlagsTyped
  <2>5. FramesTyped' /\ job'.pid = job.pid BY <1>0, <1>5, ResolveTyped
  <2>6. \/ at'["pager"] \in {"load", "store", "map"}
        \/ at["pager"] = "resolve" /\ at'["pager"] = "swap" /\ free = {} /\ UNCHANGED free
    BY <1>1, <2>2
  <2>7. UNCHANGED <<faultQueue, terminalNotCalled, terminationQueue>> BY <2>1 DEF queueVars, flagVars
  <2>8. QueueFilled' /\ NobodyTerminated' /\ JobOfUser'
    BY <1>0, <2>1, <2>5, <2>6, <2>7
    DEF QueueFilled, NobodyTerminated, Terminates, JobOfUser
  <2>9. Len(faultQueue) \in Nat /\ (faultQueue = <<>> => Len(faultQueue) <= 1)
    BY <1>0, LenProperties, EmptySeq DEF QueueTyped
  <2>10. CASE at["pager"] = "resolve"
    <3>1. faultQueue # <<>> BY <1>0, <2>10 DEF QueueFilled
    <3>2. Len(faultQueue) <= 1 => free # {} BY <1>0, <2>10 DEF FirstFindsFrame
    <3>3. FirstFindsFrame' BY <2>6, <2>7, <3>1, <3>2 DEF FirstFindsFrame
    <3> QED BY <2>3, <2>4, <2>5, <2>8, <3>3 DEF TypeInv, PagingTypeOK
  <2>11. CASE at["pager"] # "resolve"
    <3>1. UNCHANGED free /\ at'["pager"] \in {"load", "store", "map"}
      BY <1>5, <2>6, <2>11 DEF P3PageFaultResolve, FrameFound, FrameCounted, NoneFree, FrameTakenBack
    <3>2. FirstFindsFrame' BY <1>0, <2>7, <3>1 DEF FirstFindsFrame
    <3> QED BY <2>3, <2>4, <2>5, <2>8, <3>2 DEF TypeInv, PagingTypeOK
  <2> QED BY <2>10, <2>11
<1>6. ASSUME OutOfSwap PROVE TypeInv'
  <2>1. Len(faultQueue) \in Nat /\ Len(faultQueue) > 1
    BY <1>0, <1>6, LenProperties DEF OutOfSwap, FirstFindsFrame, QueueTyped
  <2>2. PlacesTyped' BY <1>0, <1>6, MoveTyped DEF OutOfSwap, Place
  <2>3. QueueTyped'
    <3>1. MaxFaults \in Nat BY PagingAssumption DEF PagingAssumption
    <3>2. Len(faultQueue) - 1 \in 0 .. MaxFaults - 1 BY <1>0, <2>1, <3>1 DEF QueueTyped
    <3>3. job.pid \in User BY <1>0, <1>6 DEF OutOfSwap, JobOfUser
    <3> QED BY <1>0, <1>6, <3>2, <3>3 DEF OutOfSwap, queueVars, QueueTyped
  <2>4. FlagsTyped' /\ FramesTyped' BY <1>0, <1>6 DEF OutOfSwap, frameVars, FlagsTyped, FramesTyped
  <2>5. at'["pager"] = "report" BY <1>1, <1>6 DEF OutOfSwap
  <2>6. QueueFilled' /\ JobOfUser'
    BY <1>0, <1>6, <2>5 DEF OutOfSwap, queueVars, QueueFilled, JobOfUser
  <2>8. NobodyTerminated'
    <3>1. \A n \in Nat : n > 1 => n - 1 # 0 OBVIOUS
    <3> QED BY <1>0, <1>6, <2>1, <3>1 DEF OutOfSwap, NobodyTerminated, Terminates
  <2>7. FirstFindsFrame'
    BY <1>0, <1>6, <2>1, <2>5 DEF OutOfSwap, queueVars, frameVars, FirstFindsFrame
  <2> QED BY <2>2, <2>3, <2>4, <2>6, <2>7, <2>8 DEF TypeInv, PagingTypeOK
<1>7. ASSUME PagerMaps PROVE TypeInv'
  <2>1. /\ at["pager"] \in {"map", "incore"} /\ job.pid \in User
        /\ \/ at["pager"] = "map" /\ GoTo("pager", "incore")
           \/ at["pager"] = "incore" /\ GoTo("pager", "report")
        /\ UNCHANGED <<lockVars, queueVars, flagVars, job, free, freeFrames, ranOut, torn, pastVars>>
    BY <1>0, <1>7 DEF PagerMaps, JobOfUser
  <2>2. PlacesTyped' BY <1>0, <2>1, MoveTyped DEF Place
  <2>3. QueueTyped' /\ FlagsTyped' BY <1>0, <2>1 DEF queueVars, flagVars, pastVars, QueueTyped, FlagsTyped
  <2>4. FramesTyped' BY <1>0, <1>7, <2>1, MapsTyped DEF FramesTyped
  <2>5. \/ at["pager"] = "map" /\ at'["pager"] = "incore"
        \/ at["pager"] = "incore" /\ at'["pager"] = "report"
    BY <1>1, <2>1
  <2>6. QueueFilled' /\ JobOfUser' /\ NobodyTerminated' /\ FirstFindsFrame'
    BY <1>0, <2>1, <2>5
    DEF queueVars, flagVars, QueueFilled, JobOfUser, NobodyTerminated, Terminates, FirstFindsFrame
  <2> QED BY <2>2, <2>3, <2>4, <2>6 DEF TypeInv, PagingTypeOK
<1>8. ASSUME PagerReports PROVE TypeInv'
  <2>1. PICK a \in {"tell", "reset", "unlock", "loop"} : GoTo("pager", a) BY <1>8 DEF PagerReports
  <2>2. PlacesTyped' BY <1>0, <1>8, <2>1, MoveTyped DEF PagerReports, Place
  <2>3. QueueTyped' /\ FramesTyped'
    BY <1>0, <1>8 DEF PagerReports, queueVars, frameVars, pastVars, QueueTyped, FramesTyped
  <2>4. FlagsTyped' BY <1>0, <1>8 DEF PagerReports, FlagsTyped
  <2>5. QueueFilled' /\ JobOfUser' /\ NobodyTerminated'
    BY <1>0, <1>1, <1>8, <2>1
    DEF PagerReports, queueVars, QueueFilled, JobOfUser, NobodyTerminated, Terminates
  <2>6. \/ at["pager"] = "report" /\ at'["pager"] = "tell" /\ UNCHANGED terminalNotCalled
        \/ at["pager"] = "tell" /\ at'["pager"] = "reset" /\ UNCHANGED terminalNotCalled
        \/ at'["pager"] = "unlock" /\ terminalNotCalled' = TRUE
        \/ at["pager"] = "unlock" /\ at'["pager"] = "loop" /\ UNCHANGED terminalNotCalled
    BY <1>1, <1>8 DEF PagerReports
  <2>7. FirstFindsFrame'
    BY <1>0, <1>8, <2>6 DEF PagerReports, queueVars, frameVars, FirstFindsFrame
  <2> QED BY <2>2, <2>3, <2>4, <2>5, <2>7 DEF TypeInv, PagingTypeOK
<1> QED BY <1>2, <1>3, <1>4, <1>5, <1>6, <1>7, <1>8 DEF Pager

LEMMA TypeInvariance == Spec => []TypeInv
<1>1. TypeInv /\ [Next]_vars => TypeInv'
  <2> SUFFICES ASSUME TypeInv, [Next]_vars PROVE TypeInv'
    OBVIOUS
  <2>0. PlacesTyped /\ QueueTyped /\ FlagsTyped /\ FramesTyped BY DEF TypeInv, PagingTypeOK
  <2>1. ASSUME P3_VmShutdown PROVE TypeInv'
    <3>1. PlacesTyped' BY <2>0, <2>1 DEF P3_VmShutdown, lockVars, PlacesTyped
    <3>2. QueueTyped' BY <2>0, <2>1 DEF P3_VmShutdown, queueVars, pastVars, QueueTyped
    <3>3. FlagsTyped' BY <2>0, <2>1 DEF P3_VmShutdown, FlagsTyped
    <3>4. FramesTyped' BY <2>0, <2>1 DEF P3_VmShutdown, frameVars, FramesTyped
    <3>5. QueueFilled' /\ JobOfUser' /\ FirstFindsFrame' /\ NobodyTerminated'
      BY <2>1, FirstFindsKept DEF P3_VmShutdown, queueVars, frameVars
    <3> QED BY <3>1, <3>2, <3>3, <3>4, <3>5 DEF TypeInv, PagingTypeOK
  <2>2. CASE UNCHANGED vars
    <3>1. PlacesTyped' BY <2>0, <2>2 DEF vars, lockVars, PlacesTyped
    <3>2. QueueTyped' BY <2>0, <2>2 DEF vars, queueVars, flagVars, pastVars, QueueTyped
    <3>3. FlagsTyped' BY <2>0, <2>2 DEF vars, flagVars, FlagsTyped
    <3>4. FramesTyped' BY <2>0, <2>2 DEF vars, frameVars, FramesTyped
    <3>5. QueueFilled' /\ JobOfUser' /\ FirstFindsFrame' /\ NobodyTerminated'
      BY <2>2, FirstFindsKept DEF vars, queueVars, flagVars, frameVars
    <3> QED BY <3>1, <3>2, <3>3, <3>4, <3>5 DEF TypeInv, PagingTypeOK
  <2> QED BY <2>1, <2>2, UserTypes, PagerTypes DEF Next
<1> QED BY <1>1, TypeInit, PTL DEF Spec

\* PagingTypeOK holds in every reachable state.
THEOREM PagingTypeCorrect == Spec => []PagingTypeOK
<1>1. TypeInv => PagingTypeOK BY DEF TypeInv
<1> QED BY <1>1, TypeInvariance, PTL

\* Nobody is terminated for want of swap space, against phase3a.c:77 and 143:
\* the mark goes behind the faults so far, and the first fault finds a frame.
THEOREM TerminationNeverReached == Spec => []NobodyTerminated
<1>1. TypeInv => NobodyTerminated BY DEF TypeInv
<1> QED BY <1>1, TypeInvariance, PTL

------------------------------------------------------------------------------
(* The queue. *)

\* A fault once in the queue and not yet taken is in it.
Stands(u) == \E i \in 1 .. Len(faultQueue) : faultQueue[i].pid = u

LEMMA StandsInQueue ==
  ASSUME QueueTyped, NEW u
  PROVE  (\E f \in ToSet(faultQueue) : f.pid = u) <=> Stands(u)
BY LenProperties DEF QueueTyped, ToSet, Stands

AllStand == \A u \in User : at[u] = "wait" /\ u \notin taken => Stands(u)

LEMMA StandKept ==
  ASSUME AllStand, UNCHANGED <<faultQueue, taken>>, \A u \in User : at'[u] = "wait" => at[u] = "wait"
  PROVE  AllStand'
BY DEF AllStand, Stands

LEMMA StandStep ==
  ASSUME TypeInv, AllStand, [Next]_vars
  PROVE  AllStand'
<1>0. PlacesTyped /\ QueueTyped /\ QueueFilled /\ NobodyTerminated BY DEF TypeInv, PagingTypeOK
<1>1. ASSUME NEW u \in User \cup {"pager"}, NEW a \in Place \ {"wait"}, GoTo(u, a),
             UNCHANGED <<faultQueue, taken>>
      PROVE  AllStand'
  <2>1. \A v \in User : at'[v] = "wait" => at[v] = "wait" BY <1>0, <1>1 DEF PlacesTyped, GoTo
  <2> QED BY <1>1, <2>1, StandKept
<1>2. ASSUME UNCHANGED <<at, faultQueue, taken>> PROVE AllStand' BY <1>2, StandKept
<1>3. ASSUME NEW u \in User, NEW p \in Page, Enqueue(u, p) PROVE AllStand'
  <2>1. [pid |-> u, page |-> p] \in Fault3A BY DEF Fault3A
  <2>2. /\ Len(faultQueue') = Len(faultQueue) + 1 /\ Len(faultQueue) \in Nat
        /\ \A i \in 1 .. Len(faultQueue) : faultQueue'[i] = faultQueue[i]
        /\ faultQueue'[Len(faultQueue) + 1].pid = u
    BY <1>0, <1>3, <2>1, AppendProperties, LenProperties DEF Enqueue, QueueTyped
  <2>3. \A v \in User : v # u => (at'[v] = at[v] /\ (v \in taken <=> v \in taken'))
    BY <1>0, <1>3 DEF Enqueue, PlacesTyped, GoTo
  <2>4. \A v : Stands(v) => Stands(v)' BY <2>2 DEF Stands
  <2>5. Stands(u)' BY <2>2 DEF Stands
  <2> QED BY <2>3, <2>4, <2>5 DEF AllStand
<1>4. ASSUME PagerTakes PROVE AllStand'
  <2>1. faultQueue \in Seq(Fault3A) /\ faultQueue # <<>>
    BY <1>0, <1>4 DEF PagerTakes, QueueFilled, QueueTyped
  <2>2. /\ Len(faultQueue') = Len(faultQueue) /\ Len(faultQueue) \in Nat
        /\ \A i \in 2 .. Len(faultQueue) : faultQueue'[i - 1] = faultQueue[i]
    BY <1>4, <2>1, PopQueue, LenProperties DEF PagerTakes
  <2>3. ASSUME NEW v \in User, at'[v] = "wait", v \notin taken' PROVE Stands(v)'
    <3>1. at[v] = "wait" /\ v \notin taken /\ v # faultQueue[1].pid
      BY <1>0, <1>4, <2>3, FrameFacts DEF PagerTakes, PlacesTyped, GoTo
    <3>2. PICK i \in 1 .. Len(faultQueue) : faultQueue[i].pid = v BY <3>1 DEF AllStand, Stands
    <3>3. i - 1 \in 1 .. Len(faultQueue') /\ faultQueue'[i - 1] = faultQueue[i] BY <2>2, <3>1, <3>2
    <3> QED BY <3>2, <3>3 DEF Stands
  <2> QED BY <2>3 DEF AllStand
<1>5. ASSUME NEW u \in User, FaultHandler(u) PROVE AllStand'
  <2>1. ASSUME NEW p \in Page, Fault(u, p) PROVE AllStand'
    <3>1. CASE Enqueue(u, p) BY <1>3, <3>1
    <3>2. CASE GoTo(u, "lock") /\ UNCHANGED <<faultQueue, taken>> BY <1>1, <3>2 DEF Place
    <3> QED BY <2>1, <3>1, <3>2 DEF Fault
  <2>2. ASSUME LockGiven(u) PROVE AllStand' BY <1>0, <1>3, <2>2 DEF LockGiven, QueueTyped
  <2>3. ASSUME AwaitPager(u) PROVE AllStand'
    <3>1. UNCHANGED at \/ GoTo(u, "handled") BY <2>3 DEF AwaitPager
    <3> QED BY <1>1, <1>2, <2>3, <3>1 DEF AwaitPager, queueVars, pastVars, Place
  <2>4. ASSUME HandlerReturns(u) PROVE AllStand'
    BY <1>0, <1>1, <2>4 DEF HandlerReturns, NobodyTerminated, queueVars, Place
  <2>5. ASSUME AccessFault(u) PROVE AllStand' BY <1>1, <2>5 DEF AccessFault, queueVars, pastVars, Place
  <2> QED BY <1>5, <2>1, <2>2, <2>3, <2>4, <2>5 DEF FaultHandler
<1>6. ASSUME NEW u \in User, P1ContextFree(u) \/ P1ContextCreate(u) PROVE AllStand'
  BY <1>1, <1>6 DEF P1ContextFree, P1ContextCreate, queueVars, pastVars, Place
<1>7. ASSUME Pager PROVE AllStand'
  <2>1. ASSUME ~PagerTakes PROVE UNCHANGED <<faultQueue, taken>>
    BY <1>7, <2>1
    DEF Pager, PagerLoops, PagerAwaits, P3PageFaultResolve, OutOfSwap, PagerMaps, PagerReports, queueVars, pastVars
  <2>2. ASSUME ~PagerTakes PROVE UNCHANGED at \/ \E a \in Place \ {"wait"} : GoTo("pager", a)
    BY <1>7, <2>2
    DEF Pager, PagerLoops, PagerAwaits, P3PageFaultResolve, FrameFound, FrameCounted, NoneFree, FrameTakenBack,
        OutOfSwap, PagerMaps, PagerReports, Place
  <2> QED BY <1>1, <1>2, <1>4, <2>1, <2>2
<1>8. ASSUME P3_VmShutdown \/ UNCHANGED vars PROVE AllStand'
  BY <1>2, <1>8 DEF P3_VmShutdown, vars, queueVars, pastVars
<1> QED BY <1>5, <1>6, <1>7, <1>8 DEF Next

\* A fault stays in the queue until the pager takes it: phase3a.c:82-87.
THEOREM NoFaultIsLost == Spec => []QueuedUntilTaken
<1>1. P3_VmInit => AllStand BY DEF P3_VmInit, AllStand
<1>2. TypeInv /\ AllStand => QueuedUntilTaken
  BY StandsInQueue DEF TypeInv, PagingTypeOK, AllStand, QueuedUntilTaken
<1> QED BY <1>1, <1>2, StandStep, TypeInvariance, PTL DEF Spec

------------------------------------------------------------------------------
(* The frames. *)

LEMMA OnceFromPages == EachOnce => FramesMappedOnce
<1>1. ASSUME NEW x \in InCore
      PROVE  x = <<x[1], x[2]>> /\ x[1] \in User /\ x[2] \in Page /\ pteTable[x[1]][x[2]].incore
  BY DEF InCore
<1>2. ASSUME EachOnce, Orderly, NEW x \in InCore, NEW y \in InCore, FrameOf(x) = FrameOf(y)
      PROVE  x = y
  <2>1. x[1] = y[1] /\ x[2] = y[2] BY <1>1, <1>2 DEF EachOnce, FrameOf
  <2> QED BY <1>1, <2>1
<1>3. ASSUME EachOnce, Orderly, NEW x \in InCore PROVE FrameOf(x) \notin free
  BY <1>1, <1>3 DEF EachOnce, FrameOf
<1> QED BY <1>2, <1>3 DEF FramesMappedOnce

LEMMA FreeFinite ==
  ASSUME FramesTyped
  PROVE  IsFiniteSet(free) /\ Cardinality(free) \in Nat
BY FrameFacts, FS_Subset, FS_CardinalityType DEF FramesTyped

\* Frames that are each mapped once are as many as the pages that map them.
LEMMA AsManyFrames ==
  ASSUME FramesTyped, EachOnce, Orderly, NEW u \in User
  PROVE  /\ FramesOf(u) \subseteq Frame /\ FramesOf(u) \cap free = {}
         /\ IsFiniteSet(FramesOf(u)) /\ Cardinality(FramesOf(u)) = Cardinality(Scanned(u))
<1> DEFINE m == [p \in Scanned(u) |-> pteTable[u][p].frame]
<1>1. \A p \in Scanned(u) : p \in Page /\ pteTable[u][p].incore BY DEF Scanned
<1>2. m \in [Scanned(u) -> FramesOf(u)] BY DEF FramesOf
<1>3. \A p, r \in Scanned(u) : m[p] = m[r] => p = r BY <1>1 DEF EachOnce
<1>4. \A t \in FramesOf(u) : \E p \in Scanned(u) : m[p] = t BY DEF FramesOf
<1>5. m \in Injection(Scanned(u), FramesOf(u)) /\ m \in Surjection(Scanned(u), FramesOf(u))
  <2> HIDE DEF m
  <2> QED BY <1>2, <1>3, <1>4, Fun_IsInj, Fun_IsSurj
<1>6. IsFiniteSet(FramesOf(u)) /\ Cardinality(FramesOf(u)) = Cardinality(Scanned(u))
  <2> HIDE DEF m
  <2> QED BY <1>5, ScannedFinite, FS_Surjection
<1>7. FramesOf(u) \subseteq Frame /\ FramesOf(u) \cap free = {} BY <1>1 DEF EachOnce, FramesOf
<1> QED BY <1>6, <1>7

\* Frames given back are counted once each, as long as all is in order.
LEMMA FreedCounted ==
  ASSUME FramesTyped, EachOnce, Orderly, NEW u \in User, P3_FreePageTable(u)
  PROVE  /\ free' = free \cup FramesOf(u)
         /\ freeFrames' = freeFrames + Cardinality(Scanned(u))
         /\ Cardinality(free') = Cardinality(free) + Cardinality(Scanned(u))
<1>1. PICK frames \in SUBSET Frame, count \in 0 .. numFrames :
        /\ BehindTable(frames, count)
        /\ free' = free \cup (FramesOf(u) \cap Frame) \cup frames
        /\ freeFrames' = freeFrames + Cardinality(Scanned(u)) + count
  BY DEF P3_FreePageTable
<1>2. frames = {} /\ count = 0 BY <1>1, BehindTyped DEF Orderly
<1>3. free' = free \cup FramesOf(u) BY <1>1, <1>2, AsManyFrames
<1>4. Cardinality(Scanned(u)) \in Nat BY ScannedFinite
<1>5. freeFrames' = freeFrames + Cardinality(Scanned(u)) BY <1>1, <1>2, <1>4 DEF FramesTyped
<1>6. free \cap FramesOf(u) = {} BY AsManyFrames
<1>7. Cardinality(free \cup FramesOf(u)) = Cardinality(free) + Cardinality(FramesOf(u)) - Cardinality({})
  BY <1>6, AsManyFrames, FreeFinite, FS_Union
<1>8. Cardinality(free') = Cardinality(free) + Cardinality(Scanned(u))
  <2>1. Cardinality({}) = 0 BY FS_EmptySet
  <2>2. Cardinality(free) \in Nat BY FreeFinite
  <2>3. Cardinality(FramesOf(u)) = Cardinality(Scanned(u)) BY AsManyFrames
  <2> QED BY <1>3, <1>4, <1>7, <2>1, <2>2, <2>3
<1> QED BY <1>3, <1>5, <1>8

LEMMA FreePageTableFrames ==
  ASSUME FramesTyped, JobOfUser, FrameInv, NEW u \in User, P3_FreePageTable(u),
         job' = job, at'["pager"] = at["pager"]
  PROVE  FrameInv'
<1>0. EachOnce /\ FrameInHand /\ CountInHand /\ NeverMoreThanFree BY DEF FrameInv
<1>1. Orderly' => Orderly /\ ~(at["pager"] = "incore" /\ job.pid = u)
  BY DEF P3_FreePageTable, TableGoes, Orderly
<1>2. \A v \in User, p \in Page :
        /\ pteTable'[v][p].frame = pteTable[v][p].frame
        /\ pteTable'[v][p].incore => pteTable[v][p].incore /\ ~(v = u /\ p \in Scanned(u))
  BY FreePageTableTables
<1>3. \A f \in FramesOf(u) : \E s \in Scanned(u) :
        s \in Page /\ pteTable[u][s].incore /\ pteTable[u][s].frame = f
  BY DEF FramesOf, Scanned
<1>4. EachOnce'
  <2> SUFFICES ASSUME Orderly', NEW v \in User, NEW w \in User, NEW p \in Page, NEW r \in Page,
                      pteTable'[v][p].incore
               PROVE  /\ pteTable'[v][p].frame \in Frame \ free'
                      /\ pteTable'[w][r].incore /\ pteTable'[w][r].frame = pteTable'[v][p].frame
                           => v = w /\ p = r
    BY DEF EachOnce
  <2>1. /\ pteTable[v][p].incore /\ ~(v = u /\ p \in Scanned(u))
        /\ pteTable'[v][p].frame = pteTable[v][p].frame
    BY <1>2
  <2>2. /\ pteTable[v][p].frame \in Frame \ free
        /\ \A x \in User, s \in Page :
             pteTable[x][s].incore /\ pteTable[x][s].frame = pteTable[v][p].frame => x = v /\ s = p
    BY <1>0, <1>1, <2>1 DEF EachOnce
  <2>3. pteTable[v][p].frame \notin FramesOf(u) BY <1>3, <2>1, <2>2
  <2>4. free' = free \cup FramesOf(u) BY <1>0, <1>1, FreedCounted
  <2> QED BY <1>2, <2>1, <2>2, <2>3, <2>4
<1>5. FrameInHand'
  <2> SUFFICES ASSUME Orderly', at["pager"] \in {"load", "store", "map", "incore"}
               PROVE  /\ job.frame \notin free'
                      /\ \A v \in User, p \in Page :
                           pteTable'[v][p].incore /\ pteTable'[v][p].frame = job.frame =>
                             at["pager"] = "incore" /\ v = job.pid /\ p = job.page
                      /\ at["pager"] = "incore" => pteTable'[job.pid][job.page].frame = job.frame
    BY DEF FrameInHand
  <2>1. /\ job.frame \notin free
        /\ \A v \in User, p \in Page :
             pteTable[v][p].incore /\ pteTable[v][p].frame = job.frame =>
               at["pager"] = "incore" /\ v = job.pid /\ p = job.page
        /\ at["pager"] = "incore" => pteTable[job.pid][job.page].frame = job.frame
    BY <1>0, <1>1 DEF FrameInHand
  <2>2. job.frame \notin FramesOf(u) BY <1>1, <1>3, <2>1
  <2>3. free' = free \cup FramesOf(u) BY <1>0, <1>1, FreedCounted
  <2>4. job.pid \in User /\ job.page \in Page BY DEF JobOfUser, FramesTyped
  <2> QED BY <1>2, <2>1, <2>2, <2>3, <2>4
<1>6. CountInHand' /\ NeverMoreThanFree'
  <2>1. freeFrames' \in Int /\ freeFrames <= freeFrames'
    <3>1. PICK frames \in SUBSET Frame, count \in 0 .. numFrames :
            /\ BehindTable(frames, count)
            /\ freeFrames' = freeFrames + Cardinality(Scanned(u)) + count
      BY DEF P3_FreePageTable
    <3>2. count \in Nat /\ Cardinality(Scanned(u)) \in Nat BY <3>1, BehindTyped, ScannedFinite
    <3> QED BY <3>1, <3>2 DEF FramesTyped
  <2>2. CountInHand' BY <1>0, <2>1 DEF CountInHand, FramesTyped
  <2>3. NeverMoreThanFree'
    <3> SUFFICES ASSUME Orderly'
                 PROVE  freeFrames' <= Cardinality(free') + IF at["pager"] \in {"load", "store"} THEN 1 ELSE 0
      BY DEF NeverMoreThanFree
    <3>1. /\ freeFrames' = freeFrames + Cardinality(Scanned(u))
          /\ Cardinality(free') = Cardinality(free) + Cardinality(Scanned(u))
      BY <1>0, <1>1, FreedCounted
    <3>2. freeFrames <= Cardinality(free) + IF at["pager"] \in {"load", "store"} THEN 1 ELSE 0
      BY <1>0, <1>1 DEF NeverMoreThanFree
    <3>3. freeFrames \in Int /\ Cardinality(free) \in Nat /\ Cardinality(Scanned(u)) \in Nat
      BY FreeFinite, ScannedFinite DEF FramesTyped
    <3> QED BY <3>1, <3>2, <3>3
  <2> QED BY <2>2, <2>3
<1>7. RanOutAtSwap' BY DEF FrameInv, RanOutAtSwap, P3_FreePageTable
<1> QED BY <1>4, <1>5, <1>6, <1>7 DEF FrameInv

\* Steps that leave the frames alone and the pager without one, or where it is.
LEMMA FramesUntouched ==
  ASSUME FrameInv, UNCHANGED frameVars,
         \/ at'["pager"] = at["pager"] /\ job' = job
         \/ /\ {at["pager"], at'["pager"]} \cap {"load", "store", "map", "incore"} = {}
            /\ at'["pager"] # "swap"
  PROVE  FrameInv'
<1>1. Orderly' <=> Orderly BY DEF Orderly, frameVars
<1>2. CASE at'["pager"] = at["pager"] /\ job' = job
  BY <1>1, <1>2 DEF FrameInv, EachOnce, FrameInHand, CountInHand, NeverMoreThanFree, RanOutAtSwap, frameVars
<1>3. CASE /\ {at["pager"], at'["pager"]} \cap {"load", "store", "map", "incore"} = {}
           /\ at'["pager"] # "swap"
  <2>1. /\ at["pager"] \notin {"load", "store", "map", "incore"}
        /\ at'["pager"] \notin {"load", "store", "map", "incore"}
    BY <1>3
  <2> QED
    BY <1>1, <1>3, <2>1
    DEF FrameInv, EachOnce, FrameInHand, CountInHand, NeverMoreThanFree, RanOutAtSwap, frameVars
<1> QED BY <1>2, <1>3

LEMMA FoundFrames ==
  ASSUME FramesTyped, FrameInv, FrameFound, at'["pager"] = "load"
  PROVE  FrameInv'
<1>0. EachOnce /\ NeverMoreThanFree BY DEF FrameInv
<1>1. PICK f \in free : free' = free \ {f} /\ job' = [job EXCEPT !.frame = f]
  BY DEF FrameFound, Taken
<1>2. at["pager"] = "resolve" /\ UNCHANGED <<pteTable, freeFrames, ranOut, torn>> BY DEF FrameFound
<1>3. Orderly' => Orderly BY <1>2 DEF Orderly
<1>4. job'.frame = f BY <1>1 DEF FramesTyped
<1>5. EachOnce' BY <1>0, <1>1, <1>2, <1>3 DEF EachOnce
<1>6. Orderly => \A u \in User, p \in Page : ~(pteTable[u][p].incore /\ pteTable[u][p].frame = f)
  BY <1>0 DEF EachOnce
<1>7. FrameInHand' BY <1>1, <1>2, <1>3, <1>4, <1>6 DEF FrameInHand
<1>8. NeverMoreThanFree'
  <2>1. Cardinality(free') = Cardinality(free) - 1 BY <1>1, FreeFinite, FS_RemoveElement
  <2>2. Orderly => freeFrames <= Cardinality(free) BY <1>0, <1>2, FreeFinite DEF NeverMoreThanFree, FramesTyped
  <2>3. Orderly' => freeFrames' <= Cardinality(free') + 1
    BY <1>2, <1>3, <2>1, <2>2, FreeFinite DEF FramesTyped
  <2> QED BY <2>3 DEF NeverMoreThanFree
<1>9. CountInHand' /\ RanOutAtSwap' BY DEF CountInHand, RanOutAtSwap
<1> QED BY <1>5, <1>7, <1>8, <1>9 DEF FrameInv

LEMMA CountedFrames ==
  ASSUME FramesTyped, FrameInv, FrameCounted,
         \/ at["pager"] = "load" /\ at'["pager"] = "store"
         \/ at["pager"] = "store" /\ at'["pager"] = "map"
  PROVE  FrameInv'
<1>0. EachOnce /\ FrameInHand /\ CountInHand /\ NeverMoreThanFree BY DEF FrameInv
<1>1. UNCHANGED <<pteTable, free, ranOut, torn>> BY DEF FrameCounted
<1>2. Orderly' => Orderly BY <1>1 DEF Orderly
<1>3. /\ at["pager"] = "load" => job' = [job EXCEPT !.count = freeFrames] /\ freeFrames' = freeFrames
      /\ at["pager"] = "store" => job' = [job EXCEPT !.count = 0] /\ freeFrames' = job.count - 1
  BY DEF FrameCounted, FreeCount
<1>4. job'.frame = job.frame BY <1>3 DEF FramesTyped
<1>5. EachOnce' BY <1>0, <1>1, <1>2 DEF EachOnce
<1>6. FrameInHand' BY <1>0, <1>1, <1>2, <1>4 DEF FrameInHand
<1>7. CountInHand' BY <1>3 DEF CountInHand, FramesTyped
<1>8. NeverMoreThanFree'
  <2>1. freeFrames \in Int /\ job.count \in Int /\ Cardinality(free) \in Nat BY FreeFinite DEF FramesTyped
  <2>2. Orderly => freeFrames <= Cardinality(free) + 1 BY <1>0 DEF NeverMoreThanFree
  <2>3. CASE at["pager"] = "load" BY <1>1, <1>2, <1>3, <2>2, <2>3 DEF NeverMoreThanFree
  <2>4. CASE at["pager"] = "store"
    <3>1. freeFrames' = job.count - 1 /\ job.count <= freeFrames BY <1>0, <1>3, <2>4 DEF CountInHand
    <3>2. Orderly' => freeFrames' <= Cardinality(free') BY <1>1, <1>2, <2>1, <2>2, <3>1
    <3>3. at'["pager"] = "map" BY <2>4
    <3> QED BY <1>1, <2>1, <3>2, <3>3 DEF NeverMoreThanFree
  <2> QED BY <2>3, <2>4
<1>9. RanOutAtSwap' BY DEF RanOutAtSwap
<1> QED BY <1>5, <1>6, <1>7, <1>8, <1>9 DEF FrameInv

\* Once it ran out of frames the pager may do what it likes.
LEMMA RanOutFrames ==
  ASSUME CountInHand', ranOut'
  PROVE  FrameInv'
BY DEF FrameInv, EachOnce, FrameInHand, NeverMoreThanFree, RanOutAtSwap, Orderly

LEMMA MapsFrames ==
  ASSUME FramesTyped, FrameInv, PagerMaps, job.pid \in User,
         \/ at["pager"] = "map" /\ at'["pager"] = "incore"
         \/ at["pager"] = "incore" /\ at'["pager"] = "report"
  PROVE  FrameInv'
<1>0. EachOnce /\ FrameInHand /\ NeverMoreThanFree BY DEF FrameInv
<1>1. UNCHANGED <<free, freeFrames, ranOut, torn, job>> BY DEF PagerMaps
<1>2. Orderly' => Orderly BY <1>1 DEF Orderly
<1>3. job.frame \in Frame /\ job.page \in Page BY DEF FramesTyped
<1>4. CountInHand' /\ RanOutAtSwap' BY DEF CountInHand, RanOutAtSwap
<1>5. NeverMoreThanFree' BY <1>0, <1>1, <1>2 DEF NeverMoreThanFree
<1>6. Orderly => /\ job.frame \notin free
                 /\ \A u \in User, p \in Page :
                      pteTable[u][p].incore /\ pteTable[u][p].frame = job.frame =>
                        at["pager"] = "incore" /\ u = job.pid /\ p = job.page
                 /\ at["pager"] = "incore" => pteTable[job.pid][job.page].frame = job.frame
  BY <1>0 DEF FrameInHand
<1>7. CASE at["pager"] = "map"
  <2>1. \A u \in User, p \in Page :
          /\ pteTable'[u][p].incore = pteTable[u][p].incore
          /\ pteTable'[u][p].frame = IF u = job.pid /\ p = job.page THEN job.frame ELSE pteTable[u][p].frame
    BY <1>7, MapsTyped
  <2>2. EachOnce' BY <1>0, <1>1, <1>2, <1>3, <1>6, <1>7, <2>1 DEF EachOnce
  <2>3. FrameInHand' BY <1>1, <1>2, <1>3, <1>6, <1>7, <2>1 DEF FrameInHand
  <2> QED BY <1>4, <1>5, <2>2, <2>3 DEF FrameInv
<1>8. CASE at["pager"] = "incore"
  <2>1. \A u \in User, p \in Page :
          /\ pteTable'[u][p].frame = pteTable[u][p].frame
          /\ pteTable'[u][p].incore <=> pteTable[u][p].incore \/ (u = job.pid /\ p = job.page)
    BY <1>8, MapsTyped
  <2>2. EachOnce' BY <1>0, <1>1, <1>2, <1>3, <1>6, <1>8, <2>1 DEF EachOnce
  <2>3. FrameInHand' BY <1>8 DEF FrameInHand
  <2> QED BY <1>4, <1>5, <2>2, <2>3 DEF FrameInv
<1> QED BY <1>7, <1>8

LEMMA AwaitsFrames ==
  ASSUME PlacesTyped, FrameInv, PagerAwaits
  PROVE  FrameInv'
<1>1. /\ at["pager"] \in {"lock", "await", "sleep", "release"}
      /\ at'["pager"] \in {"await", "sleep", "release", "take"}
  BY DEF PagerAwaits, Here, GoTo, PlacesTyped
<1> QED BY <1>1, FramesUntouched DEF PagerAwaits

LEMMA FrameStep ==
  ASSUME TypeInv, FrameInv, [Next]_vars
  PROVE  FrameInv'
<1>0. PlacesTyped /\ QueueTyped /\ FramesTyped /\ JobOfUser /\ NobodyTerminated BY DEF TypeInv, PagingTypeOK
<1>1. ASSUME NEW a, GoTo("pager", a) PROVE at'["pager"] = a
  BY <1>0, <1>1 DEF PlacesTyped, GoTo
<1>2. ASSUME NEW u \in User, FaultHandler(u) PROVE FrameInv'
  <2>1. UNCHANGED frameVars /\ job' = job
    BY <1>0, <1>2
    DEF FaultHandler, Fault, Enqueue, LockGiven, AwaitPager, HandlerReturns, AccessFault, NobodyTerminated
  <2>2. UNCHANGED at \/ \E a : GoTo(u, a)
    BY <1>0, <1>2
    DEF FaultHandler, Fault, Enqueue, LockGiven, AwaitPager, HandlerReturns, AccessFault
  <2>3. at'["pager"] = at["pager"] BY <1>0, <2>2, PagerStays
  <2> QED BY <2>1, <2>3, FramesUntouched
<1>3. ASSUME NEW u \in User, P1ContextFree(u) PROVE FrameInv'
  BY <1>0, <1>3, PagerStays, FreePageTableFrames DEF P1ContextFree
<1>4. ASSUME NEW u \in User, P1ContextCreate(u) PROVE FrameInv'
  <2>0. EachOnce /\ FrameInHand /\ CountInHand /\ NeverMoreThanFree BY DEF FrameInv
  <2>1. at'["pager"] = at["pager"] BY <1>0, <1>4, PagerStays DEF P1ContextCreate
  <2>2. UNCHANGED <<job, free, freeFrames, ranOut>> BY <1>4 DEF P1ContextCreate
  <2>3. Orderly' => Orderly /\ ~(at["pager"] = "incore" /\ job.pid = u)
    <3>1. TableGoes(u) /\ ranOut' = ranOut BY <1>4 DEF P1ContextCreate
    <3> QED BY <3>1 DEF TableGoes, Orderly
  <2>4. /\ \A p \in Page : ~pteTable'[u][p].incore
        /\ \A v \in User \ {u} : pteTable'[v] = pteTable[v]
    BY <1>0, <1>4 DEF P1ContextCreate, NewEntry, FramesTyped
  <2>5. EachOnce' BY <2>0, <2>2, <2>3, <2>4 DEF EachOnce
  <2>8. RanOutAtSwap' BY <2>1, <2>2 DEF FrameInv, RanOutAtSwap
  <2>6. FrameInHand'
    <3>1. at["pager"] = "incore" => job.pid \in User BY <1>0 DEF JobOfUser
    <3> QED BY <2>0, <2>1, <2>2, <2>3, <2>4, <3>1 DEF FrameInHand
  <2>7. CountInHand' /\ NeverMoreThanFree' BY <2>0, <2>1, <2>2, <2>3 DEF CountInHand, NeverMoreThanFree
  <2> QED BY <2>5, <2>6, <2>7, <2>8 DEF FrameInv
<1>5. ASSUME UNCHANGED frameVars, at'["pager"] # "swap",
             {at["pager"], at'["pager"]} \cap {"load", "store", "map", "incore"} = {}
      PROVE  FrameInv'
  BY <1>5, FramesUntouched
<1>6. ASSUME Pager PROVE FrameInv'
  <2>1. CASE PagerLoops
    <3>1. at'["pager"] \in {"lock", "over"} BY <1>1, <2>1 DEF PagerLoops
    <3> QED BY <1>5, <2>1, <3>1 DEF PagerLoops
  <2>2. CASE PagerAwaits BY <1>0, <2>2, AwaitsFrames
  <2>3. CASE PagerTakes
    <3>1. at'["pager"] = "resolve" BY <1>1, <2>3 DEF PagerTakes
    <3> QED BY <1>5, <2>3, <3>1 DEF PagerTakes
  <2>4. CASE FrameFound
    <3>1. at'["pager"] = "load" BY <1>1, <2>4 DEF FrameFound
    <3> QED BY <1>0, <2>4, <3>1, FoundFrames
  <2>5. CASE FrameCounted
    <3>1. \/ at["pager"] = "load" /\ at'["pager"] = "store"
          \/ at["pager"] = "store" /\ at'["pager"] = "map"
      BY <1>1, <2>5 DEF FrameCounted
    <3> QED BY <1>0, <2>5, <3>1, CountedFrames
  <2>6. CASE NoneFree
    <3>1. at'["pager"] = "swap" /\ ranOut' BY <1>1, <2>6 DEF NoneFree
    <3>2. CountInHand' BY <3>1 DEF CountInHand
    <3> QED BY <3>1, <3>2, RanOutFrames
  <2>7. CASE FrameTakenBack
    <3>1. at["pager"] = "swap" /\ at'["pager"] = "map" /\ UNCHANGED ranOut BY <1>1, <2>7 DEF FrameTakenBack
    <3>2. CountInHand' BY <3>1 DEF CountInHand
    <3>3. ranOut BY <3>1 DEF FrameInv, RanOutAtSwap
    <3> QED BY <3>1, <3>2, <3>3, RanOutFrames
  <2>8. CASE OutOfSwap
    <3>1. at["pager"] = "swap" /\ at'["pager"] = "report" BY <1>1, <2>8 DEF OutOfSwap
    <3> QED BY <1>5, <2>8, <3>1 DEF OutOfSwap
  <2>9. CASE PagerMaps
    <3>1. \/ at["pager"] = "map" /\ at'["pager"] = "incore"
          \/ at["pager"] = "incore" /\ at'["pager"] = "report"
      BY <1>1, <2>9 DEF PagerMaps
    <3> QED BY <1>0, <2>9, <3>1, MapsFrames DEF JobOfUser
  <2>10. CASE PagerReports
    <3>1. /\ at["pager"] \in {"report", "tell", "reset", "unlock"}
          /\ at'["pager"] \in {"tell", "reset", "unlock", "loop"}
      BY <1>1, <2>10 DEF PagerReports
    <3> QED BY <1>5, <2>10, <3>1 DEF PagerReports
  <2> QED BY <1>6, <2>1, <2>2, <2>3, <2>4, <2>5, <2>6, <2>7, <2>8, <2>9, <2>10 DEF Pager, P3PageFaultResolve
<1>7. ASSUME P3_VmShutdown \/ UNCHANGED vars PROVE FrameInv'
  BY <1>7, FramesUntouched DEF P3_VmShutdown, vars
<1> QED BY <1>2, <1>3, <1>4, <1>6, <1>7 DEF Next

LEMMA FrameInit == P3_VmInit => FrameInv
<1> SUFFICES ASSUME P3_VmInit PROVE FrameInv
  OBVIOUS
<1>1. EachOnce BY DEF P3_VmInit, NewEntry, EachOnce
<1>2. at["pager"] = "loop" BY DEF P3_VmInit
<1>3. FrameInHand /\ CountInHand /\ RanOutAtSwap BY <1>2 DEF FrameInHand, CountInHand, RanOutAtSwap
<1>4. Cardinality(Frame) = numFrames
  <2>1. numFrames \in Nat \ {0} BY PagingAssumption DEF PagingAssumption
  <2> QED BY <2>1, FS_Interval DEF Frame
<1>5. NeverMoreThanFree
  <2>1. free = Frame /\ freeFrames = numFrames BY DEF P3_VmInit, P3FrameInit
  <2>2. numFrames \in Nat BY PagingAssumption DEF PagingAssumption
  <2> QED BY <1>2, <1>4, <2>1, <2>2 DEF NeverMoreThanFree
<1> QED BY <1>1, <1>3, <1>5 DEF FrameInv

LEMMA FrameInvariance == Spec => []FrameInv
BY FrameInit, FrameStep, TypeInvariance, PTL DEF Spec

\* In order, no frame is mapped twice or handed out while it is mapped, whatever
\* processes end and begin between the steps of the pager: phase3b.c:185-199 and
\* phase3a.c:126-127.
THEOREM NoFrameIsShared == Spec => []FramesMappedOnce
<1>1. FrameInv => FramesMappedOnce BY OnceFromPages DEF FrameInv
<1> QED BY <1>1, FrameInvariance, PTL

\* In order, the statistics never promise a frame that is not free, whatever is
\* added to them between the pager's read and its write: phase3b.c:137 and 191.
THEOREM NoPhantomFrames == Spec => []NeverMoreThanFree
<1>1. FrameInv => NeverMoreThanFree BY DEF FrameInv
<1> QED BY <1>1, FrameInvariance, PTL

==============================================================================
