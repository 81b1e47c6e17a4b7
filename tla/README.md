# A verification project for the CPU simulation in `src/CPUProjectCode`

The repository is a portfolio site. Its one program is an operating-system
kernel written over the USLOSS simulator, in ten C files (3067 lines, phases 1a
to 3b), to which this project belongs. The USLOSS library, the headers, phase 3c
(swap) and the tests are not in the repository: what they do is taken from how
the code uses them, and is marked external in `PROJECT.json`.

## 1. Inventory

| Component | State | Operations | Uses |
|---|---|---|---|
| Contexts and PSR, `phase1a.c` | `contexts`, `currentCid`, the PSR | `P1ContextInit/Create/Switch/Free`, `P1EnableInterrupts`, `P1DisableInterrupts` | USLOSS contexts, `malloc`, page tables of 3a |
| Processes, `phase1b.c` | `processTable`, `queueTable`, `queueIndex`, `currentProcess` | `P1ProcInit`, `P1_Fork`, `P1_Quit`, `P1_GetPid`, `P1Dispatch`; `P1SetState`, `P1GetChildStatus`, `P1_GetProcInfo` are stubs | contexts |
| Locks, `phase1c.c` 22-276 | `locks` (state, pid, queue of ten pids) | `P1LockInit`, `P1_LockCreate/Free/Name`, `P1_Lock`, `P1_Unlock` | `P1SetState`, `P1Dispatch`, interrupt calls |
| Conditions, `phase1c.c` 278-684 | `conditions` (lock, queue) | `P1CondInit`, `P1_CondCreate/Free/Name`, `P1_Wait`, `P1_Signal`, `P1_Broadcast`, `P1_NakedSignal` | the lock table |
| Devices, `phase1d.c` 36-90, 129-340 | flags per device, `newStatus`, two tick counters | `P1_DeviceWait`, `P1_DeviceAbort`, `DeviceHandler` | locks, naked signals, `P1Dispatch(TRUE)` |
| Start-up, sentinel, join, `phase1d.c` 92-127, 342-411 | none of its own | `startup`, `Sentinel`, `P1_Join`, `SyscallHandler` | processes |
| System calls, `phase2a.c` | globals `wrapper`, `argRef`, ..., `userPID` | `P2_Spawn`, `launch`, `P2_Wait`, `P2_Terminate`, handlers | processes |
| Sleep, `phase2b.c` | `now`, the sleepers' seconds | `ClockDriver`, `P2_Sleep`, shutdown | devices, locks, conditions |
| Disk, `phase2c.c` | request list, `listSize`, `RequestNotTaken` | `DiskDriver`, `P2_DiskRead/Write/Size`, shutdown | devices, locks, conditions |
| User locks, `phase2d.c` | `UserLockLID`, `UserCondVID` | eleven stubs, `P2_Startup` | locks, conditions |
| Pager, `phase3a.c` | fault queue, `faultNotHandled`, `terminalNotCalled`, `pteTable` | `FaultHandler`, `Pager`, `P3_VmInit/Shutdown`, page tables | locks, conditions, frames, contexts |
| Frames, `phase3b.c` | `frameArray`, `P3_vmStats` | `P3FrameInit`, `P3FrameFreeAll`, `P3PageFaultResolve` | page tables, swap |
| Site, excerpts, images | none | none | none |

There is one CPU. A process runs until it dispatches or is interrupted; the clock
interrupt dispatches from within its handler. A call that has disabled interrupts
is atomic up to its next dispatch, so the hard behaviour lies

- between two dispatches: what a waiter finds when it comes back (locks, conditions);
- in `P1_DeviceWait`, which polls and updates its flags with interrupts on;
- in the drivers, the pager and `P2_Startup`, which have interrupts on throughout;
- in variables that several processes use for one purpose each (`wrapper`,
  `RequestNotTaken`, `faultNotHandled`, `faultInfo`) and in globals that two files
  declare (`lid`, `vid`, `NotShutDown`), which common symbols make one;
- in copies that outlive what they were copied from (contexts, PCBs, pids in queues);
- in early returns, and in searches and queues that nothing bounds.

What makes each part correct: contexts own their memory and the running one is
never freed; the process, context and queue tables agree; a lock has one holder,
is recorded as his, and no waiter is out of reach of an unlock; a condition wakes
those who wait for it and gives them their lock back; an interrupt ends one wait,
on its own device; a spawned process gets its own function; a sleeper sleeps long
enough; a disk request is in the list until it is served, and nobody is told so
before; users keep their hands off the kernel's locks; a fault stays queued until
it is resolved, and its process comes back to a page in core; frames are mapped
once and counted once. Not all of this is true of the code: section 4 says what is.

`PROJECT.json` lists every hazard at its line, with the property that covers it or why none does.

## 2. Plan

Done: the kernel of phase 1 (`Mutex`, `Locks`, `Monitor`, `Conds`, `Contexts`,
`Processes`, `Devices`), phase 2 (`Clients`, `Sleep`, `Disk`, `Spawn`, their
composition `Phase2`, and `UserSync`), phase 3 (`Paging`), and the proofs, one
module for each component or composition: `LocksProofs`, `CondsProofs`, `UserSyncProofs`,
`ContextsProofs`, `ProcessesProofs`, `DevicesProofs`, `Phase2Proofs`, `PagingProofs`.

Next, in this order:

1. `Devices` over `Monitor` in place of `Mutex`, so that the naked signals wake the
   waiters of a condition, with `NoInterruptAnswersTwo` proved again for it.
2. That the calls of `Clients` and `Paging` on their lock are steps of `Monitor`, as a
   refinement; today both are written with its operators, and that is read off the text.

## 3. The modules and the code

**Contexts.** `contexts` holds the active flag and the two blocks of memory of each
context; `heap` the blocks `malloc` gave out; `pteTable` is that of phase3a.c. The
PSR has its four bits, in an integer, as in the code. `at` and `left` say how far
the code of each context has come, so that a context that starts over can be told
from one that goes on. The cid `P1_MAXPROC` passes the range tests: what lies
behind the table then decides, and the CPU goes `"wild"`. Page tables are taken
with the stack, by `ContextCreate`, as `P1ContextCreate` does.

**Processes** extends `Contexts` and uses its effects (`ContextCreate`, `SwitchTo`)
inside its own steps. `P1Dispatch` takes the tables as its caller leaves them,
because it runs at the end of `P1_Fork` and `P1_Quit`. Once it switches, its caller
is never resumed (see the run `contexts_resume`), so a call is one step. `*pid` is
an input of `P1_Fork`: the code reads it before anyone has set it. Of the PCB,
fields that nothing reads (cpuTime, status, tableIndex) are left out; the parent
and child indices are -1 from `P1ProcInit` on, so the branches of `P1_Quit` on them
never run. A clock tick may dispatch at any time here; that it does so only every
fourth time is in `Devices`.

**Locks** is written against what phase 1c calls: `P1SetState` changes a state and
`P1Dispatch` goes to some ready process. phase1b.c leaves `P1SetState` empty, and the
constant `StubSetState` lets it return without effect as well. `call[p]` is where a
process is inside a call that dispatched, `intr[p]` the interrupt bit of its PSR,
`held[p]` a history of the locks it was given. Clients give back locks they have
and free no lock that another has; `P1_Lock`, `P1_LockCreate` and the calls with a
bad lid are unrestricted. The test of the name's length looks for a newline
(phase1c.c:74), past the end of a name that has none: such a name is refused or
not.

**Conds** extends `Locks`. Pids are small integers because the code stores pids in
`lockQueue` and then looks for a lock with that lid. A pid without a lock of that
number leaves `nextLock` uninitialized: any process may then be made ready.
`P1_NakedSignal` runs on behalf of an interrupt. The calls are checked with two sets
of clients: those of `UserSync`, which may do anything the stubs let them, and
careful ones that hold a condition's lock whenever they wait or signal
(`CarefulSpec`). A violation found for the careful ones is not the client's fault.

**Monitor** is the abstract specification of phase1c.c for its clients: a set of BUSY
locks and a set of waiting processes. It is weak on purpose: a wait may give up a
lock that is not the caller's and may come back at any time with one that is BUSY
already, because the code does both. `Conds` implements it under every client
(`ImplementsMonitor`, in the run `user_sync`), with `Busy` and `Waiters` read off the lock table and the
calls in progress. Phases 2 and 3 are modelled over it, so what they are shown to do
does not rest on a lock that excludes or on a wake-up that comes from a signal.

**Mutex** is the abstract lock. `Locks` implements it, with the owner of a lock read
off its `state` and `pid` fields; `Devices` uses its actions for the device locks,
so that a device wait is not multiplied by lock queues.

**Devices** cuts `P1_DeviceWait` at every point where an interrupt matters: start,
lock, poll, read the status, clear the flags, unlock. `handler[p]` is what is left
of a `DeviceHandler` on the stack of `p`, because it may dispatch in two places (the
naked signal and the rotation) and come back much later. The flags start
with any value, as `malloc` leaves them. A device type's lock is its own or lid 0,
depending on which creations succeeded. Of a status only matters that it was read: its
value, which is one variable for all devices (1d:271), is left out. A naked signal dispatches or not: who waits for a condition is the
business of `Conds`. No module joins the two yet.

**UserSync** extends `Conds` with the eleven stubs of phase2d.c. Each looks at a table
of marks (`UserLockLID`, `UserCondVID`), makes the call of phase 1c, and asserts that
it succeeded; a failed assertion stops the machine and is a step not taken. The
kernel's own calls are made beside them: it creates locks and conditions and uses
them, as `P2ProcInit`, the drivers and the pager do, and frees and renames none.

**Clients** holds what the processes of phases 2b and 2c share: the one lock and
condition behind `lid` and `vid`, where each process is (`pc`), and the device waits.
A system call runs with interrupts off and is cut where phase 1 may dispatch, and
after `P1_Unlock`, which enables interrupts. The drivers and `P2_Startup` have interrupts
on: they are cut between any two accesses to different shared data, and between a test
and what follows it (the wait of a driver is not the step of its test). `lid` is a
variable: it is lock 0 until `P2ClockInit` creates one, and again whatever it was if a
creation fails, and lock 0 has other users (`LockOfOthers`).

**Sleep** is phase2b.c, from `P2ClockInit` on: the clock driver may run before
`P2DiskInit` creates the lock anew, or not at all, as nobody looks whether its fork
succeeded. `now` is what the driver read last, in seconds; the reading may be
another device's, or missing after an abort (`Devices`). `sleeperPID` and `time` are
written or declared and never read. The loop of `P2_Sleep` compares what the clock
shows with the seconds asked for, and so does the model.

**Disk** is phase2c.c, with `P2DiskInit`. The list is a set of places that hold a pid, with `listSize` beside
it, because the two disagree: a write clears the place behind the last request, a
read clears nothing and leaves `listSize` as it is. Which user, which unit and what data are left out: a
request does not record its unit, and both drivers take place 0. The driver
tests `listSize`, waits, and reads place 0 in steps of their own: a request that comes
between the test and the wait has signalled nobody. It keeps the lock during its device wait and when it leaves. `DriverReport` merges the clearing of the
abort flag with the report that follows, as nobody else looks at that flag. Past the
end of the list, which the code does not test, the model stops.

**Spawn** is `P2_Spawn`, `launch` (the test and the call are two steps, in user mode), the handler table of phase2a.c and `P2_Startup`. Six
system calls go to `SpawnStub` (phase2a.c:120-125), `Sys_Terminate` among them, which takes what the
function returned as a function to spawn. `P2_Wait` returns at once, so `P2_Startup` shuts the drivers
down while the users run; `AbortDisk` takes the two disks in either order.

**Phase2** joins the three: the next-state relation is the union of theirs, each leaving
the others' variables alone. `P2DiskShutdown` is the one step of both.

**Paging** is phase3a.c with phase3b.c. `at` is where each process and the pager is;
`faultQueue` has `faultIndex` as its length, which never shrinks: `popQueue` moves all
faults up and leaves the last where it was as well. `FaultHandler` is cut where it
may wait for the lock, at its wait and after its unlock. The pager has interrupts on and is
cut before each test of a flag, before its wait, and at each access to the frames and the
page tables: it takes a frame (3b:190), reads `freeFrames` and writes it back (3b:191), and
writes `frame` and `incore` through `pteTable[pid]` (3a:126, 127), each in a step of its own.
`P1ContextFree` and `P1ContextCreate` are what phase1a.c does to the page table of a process
that ended and of the next one with its pid, each in one step, as phase 1b has interrupts
off when it creates a context; no code here frees one, but phase 3 is there for that. They may come between any two steps of the pager. The search for a frame is one step, because other processes only free frames meanwhile. An
uninitialized `free` is either outcome, and `P3SwapOut` any frame or no swap. With more
frames than pages `P3FrameFreeAll` reads past the table, and what it finds there frees
any frames (`BehindTable`).
The pager begins with `P1_Lock(pagerLID)`, which is lock 0, a lock
phase 3 never made: if it is never given the pager takes no step. Page tables are
given their entries, although `P3_vmStats.pages` is 0 in the code that is here and
`P3_AllocatePageTable` allocates as many. `fault`, `taken`, `doomed`, `ranOut` and `torn` are history.

## 4. The runs

A run that passes is exhaustive within its bounds.

| Run | Checks | Bounds |
|---|---|---|
| `contexts` | types, `OwnMemory`, `CurrentActive`, `TableIsNoStack`, `OnlyInterruptBit` | 2 contexts, 6 blocks, cids 0 to 2, one step at most per launch: tables leak, so six blocks let contexts be freed and created again |
| `processes` | types, `Lockstep`, `CurrentIsRunning`, `QueueAgrees` | 3 slots, so that the tables fill; priorities below and inside the range; pids inside and outside the table |
| `locks` | types, `MutualExclusion`, `OwnerRecorded`, `WaiterQueued`, `FreedLockHasNoWaiter`, `CreatedNameIsNew`, `ImplementsMutex` | 2 processes, 2 locks, 2 names, one of them without a newline, a queue of 2; the run stops when a queue outgrows that |
| `user_sync` | types, `BlockedIsQueued`, `KernelLocksKept`, `ImplementsMonitor` | 2 user processes, one of which also runs code of the kernel, 2 locks, 2 conditions, 2 names, a lock queue of 1. Every pid is the number of a lock here, so `nextLock` is always set (1c:520); the case that it is not is in the proofs alone |
| `devices` | types, `OneReturnPerInterrupt`, `PollerServed` under fairness | 2 processes, clock and one disk, tick counts 3 and 2: the properties depend on there being counts, not on which; the proof of safety has the alarm, both disks and the terminals too |
| `phase2` | types, `DriverFindsRequest`, `EmptyListHasNoRequests` | 2 users, one disk, a list of 3, seconds 0 and 1. Two requests meet in the list, places behind the last are cleared, and the list runs full |
| `paging` | types, `QueuedUntilTaken`, `NeverMoreThanFree`, `FramesMappedOnce` | 2 processes, 2 pages each, 2 frames, 3 faults: frames run out, faults queue up behind each other, the last is resolved twice, and a page table is freed and replaced between any two steps of the pager |

Ten slots of a lock queue are replaced by one to four: the queue is written at its
end and read at its head, so its length matters only for the overflow, where the
models stop (`Overflowed`, `CondOverflow`) because the code writes over the fields
behind it. The 200 places of the fault queue (`MaxFaults`) and the request list
(`P1_MAXPROC`) stop in the same way. `MCProcesses` compares states without the block numbers (a VIEW), and
`phase2` and `paging` use symmetry in the users, for safety only.

`phase2` has one disk: two multiply its states beyond what a run of some minutes
reaches. A driver takes place 0 whatever its unit, so a second one adds an order of
reports, not a new kind of step; the proofs are for any set of disks. `user_sync` with a
pid that is the number of no lock is out of reach in the same way.

What these runs say is narrower than what one would like of the code, and the
properties are stated accordingly. A driver finds *some* request in place 0, not the
latest. It goes to sleep only after it *found* the list empty, with nobody waiting in it; a
request that comes before it sleeps is in the list, and nobody is woken for it. A waiter
*stands* in a queue, which is not to say that it is served. A poller of the clock returns
*if* it keeps getting the CPU. Frames are mapped once, and the count promises no frame that is not free,
*until* the frames run out, or a table goes away between the pager's two writes, and only if there are no more frames than pages.

Five runs find a disagreement between the code and what its own comments say; each
is a row of `findings`, with the lines:

- `contexts_resume`: a context that is switched out starts again from its function;
- `processes_highest`: a process forked with a better priority does not get the CPU, then or
  on any later tick (1b:213 "select the highest-priority runnable process");
- `conds_reacquire`: `P1_Wait` takes its lock back without looking whether it is free,
  even from clients that are careful;
- `paging_handled`: `faultNotHandled` is one flag for all faults, so a process whose
  fault is queued while the flag is down for another comes back at once, with its
  page not in core. `faultInfo`, overwritten while a handler waits for the lock, is a second
  cause, which this trace does not show;
- `paging_out_of_swap`: the mark of a process to be terminated goes behind all faults
  (3a:121) and is looked for in place 0 (3a:64), so the process goes on (3a:77 "terminate the process if necessary").

The models do what the code does in other places too where that is not what a comment
says, without a run of its own for each.

- Phase 1: a quit of the current process comes back from
  its dispatch (1b:180); pids are what the caller's variable held (1b:128); early
  returns leave interrupts off (1b:92, 1c:72); `P1_Unlock` wakes only the first process
  that ever waited (1c:237), so the second waiter of a lock is never woken, whatever 1c:206 says of the
  next process in queue, and a lock that had a waiter once can never
  be freed (1c:132); a process that gave a lock back still passes the test of `P1_Wait`
  (1c:444); all conditions share slot 1 (1c:351), and waking a waiter writes a pid into
  their lock field (1c:303); a wait for any terminal polls the flag of terminal 0 and clears its
  own (1d:144), so it may end on no interrupt of its unit; abort flags are
  not polled (1d:132), a status may be another device's (1d:271), an interrupt between
  the reading of the status and the clearing of the flag is forgotten (1d:166), and ticks dispatch
  more often while the interrupted process is away (1d:288).
- Phase 2: six system calls are `SpawnStub` (2a:120-125); the assertion that there is a function
  (2a:158) fails after a `Sys_Terminate(0)`, and a process may run the function of another (2a:167); `P2_Spawn` succeeds when the
  fork did not (2a:172); a sleep of n seconds ends at time n, not after n seconds, whatever 2b:103, 115 and 120 say (2b:121); reads never
  leave the list (2c:185), and that of a process which never wrote gives the device nothing to do, as only writes set
  the number of sectors (2c:119-120); a request that comes
  between a driver's test and its wait wakes nobody (2c:113-114); the flag that a request was taken is one for all, so a request may be
  reported as done that no driver saw (2c:190, 242); drivers serve each other's requests, keep the
  lock while they wait, and leave with it (2c:112-145); shutdown does not wait for `P3_Startup` (2d:74); users
  release and free each other's locks (2d:118, 130).
- Phase 3: `faultInfo` may be another process's by the time it is queued (3a:53); a fault that comes between the pager's test
  and its wait wakes nobody (3a:102-103); the pager resolves the
  last fault again (3a:82); a page table replaced between its two writes has a page in core with the default frame of
  3a:229 (3a:126-127); an addition to `freeFrames` between the pager's read and write is lost (3b:191); `P3_VmInit` takes more frames than pages, and frees then
  read past the table (3b:133).

**The scheduler.** `Locks` and everything above it assume the dispatcher they are written for, which
gives the CPU to some ready process. The one in phase1b.c never leaves the first process
(`OthersNeverRun`), so on the code as it stands most of these interleavings wait for
a dispatcher that is finished; what holds for every choice of the dispatcher holds for that one too.

**Fairness.** One specification has it. `FairDevSpec` asks that the clock ticks (strong,
because an interrupt must find the CPU ready for it), that a handler on the CPU goes on
(weak: interrupts are off), and that a process that has the CPU again and again gets a step
in between two interrupts (strong, because a dispatch takes the CPU away). It does not ask
that anybody gets the CPU: the dispatcher of phase1b.c rotates in no way that would justify it, so
`PollerServed` says what follows for a process that does, and nothing for others. Nothing is asked of the other devices,
so a disk may stay silent, and no process need ever start a wait. That a waiter of a lock is served, a sleeper wakes or a
request is done is stated nowhere: the second waiter of a lock is not served, and wake-ups are lost.

## 5. The proofs

All are checked by TLAPS, for every value of the constants that the modules'
assumptions allow. Those say that names and processes are not taken for the values
that stand for "none", that tables have at least one place, and, where a proof needs it:

- `CondsAssumption`: two conditions or more, because all of them use slot 1 (1c:351), no more
  conditions than locks, and pids that are also lids, because the code stores
  a pid and looks for a lock of that number;
- `DevicesAssumption`: devices of the machine, terminal 0 if any, and tick bounds above the counts;
- `ClientsAssumption`: finitely many users, whose requests are counted;
- `PagingAssumption`: at least one frame and one page. More frames than pages are in the model, and
  the two properties of frames say under which conditions they hold (`Orderly`).

**Locks.** `LockInv` is `LockTypeOK`, `OwnerRecorded`, `BusyHasOwner`,
`WaiterQueued` and `RunningReady`. `OwnerRecorded` alone is not inductive: an unlock that comes
back from its dispatch must leave the lock alone, and the pid of a BUSY lock must
be one that holds it, which is `BusyHasOwner`. `WaiterQueued` needs that the
process on the CPU is ready (`RunningReady`). From the invariant follow mutual
exclusion, that a free spares waiters, and step by step that every lock call maps to
an acquire, a release or a stutter of `Mutex`. `CreatedNameIsNew` is an action property of the
types alone: of all the steps that change the table only a creation takes a slot into use.

**Conditions.** The theorems are about `AnyClients`: any process makes any call at any time,
frees, renames and gives back locks of others, and signals what it likes. `CondInv` is
`CondTypeOK`, `BlockedIsQueued` and `RunningReady`. No call ever takes a process
out of a queue, and a wake-up makes ready whom it likes, so what remains is that only the process
on the CPU leaves a call, and that one is ready. The types are the longer part: a
wake-up writes a pid into the lock field of its condition, which stays a lid only because of
`CondsAssumption`, and `WaitTable` shows what is left of the lock table when `P1_Wait` gives up a lock
that may not be its caller's. `FirstFreeIsFree` and `FirstRecorded` say that the searches end at
a slot that is free, or has the caller's pid; both rest on `LeastElement`, that a set of numbers
has a least, which follows from the well-foundedness of finite sets. `CallsRefineMonitor` then
maps each call to a step of `Monitor`: a lock becomes BUSY by a `P1_Lock` that found it FREE or by the
return of a wait. This is what the modules of phases 2 and 3 are built on, and it holds for
the careful clients of `conds_reacquire` too (`CarefulRefinesMonitor`).

**User locks.** Each stub, and each call of the kernel, is one of `AnyClients` (`SyncIsAnyCall`), so
`BlockedIsQueued` and the refinement carry over. `KernelLocksKept` is not inductive: it needs
`MarkedInUse`, that a mark is on a lock in use, so that the slot a kernel's creation takes
has no mark. That the stubs clear the mark after the free is what keeps it.

**Contexts.** `ContextInv` adds `TablesAllocated` to the checked invariants: every
block in `pteTable` is allocated, even after its context is gone. Without it a new
stack could be a block some stale entry still points to, and `TableIsNoStack` would
not be inductive. It is the leak that makes it true. `OnlyInterruptBit` is arithmetic on the four bits of
the PSR (`InterruptCalls`), for every PSR the types allow.

**Processes.** `ProcInv` is `ProcTypeOK`, `Lockstep` and `Booted`: from the first fork on,
the current process is that of context 0. `NextSlot` is the heart of it: the two
searches, for a PCB and for a context, end at `queueIndex`, so the slot, the cid
and the place in the queue are the same number, and the ignored result is a success.
`Booted` also gives `OthersNeverRun`: only context 0 ever has the CPU, for all priorities, where
`processes_highest` shows one case. `NextSlot` gives
`CopiesAgree` too: a fork writes the same place of the process table and of the queue.

**Devices.** `NoInterruptAnswersTwo` is about the step that reads a status; the process saw
the flag a step before, and other processes and handlers run between any two steps. `DevInv`
goes back in time: a process about to read has a fresh status (`ReadFresh`), because a flag
that is set stands for a status nobody has read, or one whose reader is about to clear
the flag (`FlagFresh`), because whoever is past `P1_Lock` owns the lock of its device
(`PastLockOwns`), whether or not device types share it. The restriction of the
property to devices that poll their own flag is used in `ReadFresh` and nowhere else:
for terminals 1 to 3 the statement is false, because they poll the flag of
terminal 0 (1d:144), and two waits may return for one interrupt of that.

**Phase 2.** `Phase2Inv` is `Phase2TypeOK` in two parts (`PcOK`, where each process may
be, and `DataOK`), `ListCoversRequests`, `DriverFindsRequest` and `FirstPlaceKept`:
while the list is not empty its first place holds a process. That is what a driver
relies on between its test and its pick, and it is kept because a write clears the place
`listSize`, never place 0 while a request is counted. `ListCoversRequests`, that the list is
never shorter than the requests that wait, gives
`listSize > 0` for whoever returns from a write, so the count stays a number of places; counting the requests
that wait needs finitely many users (`ClientsAssumption`). It also gives `EmptyListIsTrue`: the only step of a
driver from its test to its sleep finds `listSize` 0, so nobody waits then. That nobody waits when the driver
does go to sleep is not a theorem; it is false.

**Paging.** `TypeInv` is `PagingTypeOK` in four parts and what keeps the pager within its queue:
it takes only from a queue that has a fault (`QueueFilled`), its job names a user
(`JobOfUser`), and `FirstFindsFrame`: until a second fault there is a free frame before the
pager, or it is past the search. That is why `TerminationNeverReached` holds, whatever the comments say: the mark for a
process to be terminated goes to the place behind all faults (3a:121), where a handler
would read it only if the first fault found no frame. `QueuedUntilTaken` needs no more
than these types and a lemma on `popQueue`: what leaves the queue is its head.

`FrameInv` is `FramesMappedOnce` page by page (`EachOnce`), `FrameInHand`, `CountInHand`, `NeverMoreThanFree` and
`RanOutAtSwap`. `FrameInHand`, that the frame found is free no more and in no page that is in core, and between
the two writes of the pager in the one page it is for, is what carries `EachOnce` over the steps from the search
to the mapping, while contexts are freed and their pids used again. It is also where `torn` comes in: a table that goes
between the two writes takes the frame with it, the second write puts the default frame of the new table in core, and
neither can be said any more. `CountInHand` says that what the pager has read of `freeFrames` can only have become
more, so that writing it back loses frames and invents none. The count needs `EachOnce`: a free adds the pages it
scans to the statistics and their frames to the table, and these are as many only if no frame is there twice.

**Only model-checked.** Liveness (`PollerServed`), which TLAPS does not
reach. Every invariant and every other action property and refinement that a passing run checks is also a theorem.
The five disagreements of section 4 are counterexamples TLC found.

## 6. Not modelled

- `Sentinel` and `P1_Join` (phase1d.c:342-411): `P1_Join` finds nothing to wait for and
  appears as `P2_Wait` returning at once; what the sentinel does after the fork of
  `P2_Startup` is to stay on the CPU, which is `OthersNeverRun`.
- `userPID` and `userIndex` (phase2a.c:173): written by every `P2_Spawn` without a test of
  the index; the one entry that is read is reported to the caller.
- The contents of disk requests, pages and swap; `P3SwapOut` and `P3SwapIn` are external.
- `P3_vmStats` except `freeFrames`; `P3_PrintStats` and the console output, which have no state
  a property is about; `P3_Startup`, which drives code outside the repository.
- The memory of page tables: `Contexts` shows that entries outlive their context, and `Paging`
  has the entries only; what lies behind them is any number of frames freed.
- The value of a device status (phase1d.c:271), one variable for all devices; the time that
  passes during a sleep; a second `P3_VmInit` while the pager works.
- The site, its styles, images and excerpts, which are not programs with state.

Memory beyond an array is modelled as an unknown outcome at the tests that read it
(`P1ContextSwitch`, name lengths, `*pid`, `nextLock`), never as contents.
