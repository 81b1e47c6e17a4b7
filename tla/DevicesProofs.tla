---------------------------- MODULE DevicesProofs ----------------------------
(***************************************************************************)
(* What holds of Devices for any processes, any devices of the machine and *)
(* any tick counts, whichever of the locks phase1c.c refused to create.    *)
(***************************************************************************)
EXTENDS Devices, TLAPS

\* A process that is past P1_Lock and not through P1_Unlock.
Past == {"poll", "read", "clear", "unlock"}

\* Whoever waits waits for a device there is.
DeviceKnown == \A p \in Proc : wait[p].at # "no" => wait[p].dev \in Dev

\* The lock of a device type belongs to the process that works on its flags.
PastLockOwns == \A p \in Proc : wait[p].at \in Past => owner[LockOf(p)] = p

\* A flag that is set stands for an interrupt whose status nobody has read,
\* or is about to be cleared by the process that read it.
FlagFresh ==
  \A d \in Dev :
    interrupt[d] => d \in fresh \/ \E p \in Proc : wait[p].at = "clear" /\ wait[p].dev = d

\* A process that saw the flag of its own device has a status to read.
ReadFresh ==
  \A p \in Proc :
    wait[p].at = "read" /\ Polled(wait[p].dev) = wait[p].dev => wait[p].dev \in fresh

\* OneReturnPerInterrupt is about the step that reads a status; the process
\* saw the flag a step earlier (ReadFresh), and the flag is older still
\* (FlagFresh).  Between them other processes run: that they leave this device
\* alone is PastLockOwns.
DevInv == DevTypeOK /\ DeviceKnown /\ PastLockOwns /\ FlagFresh /\ ReadFresh

------------------------------------------------------------------------------
(* Types. *)

\* The lid that createLockAndCond chose serves every device.
LEMMA LockOfType ==
  ASSUME DevTypeOK, DeviceKnown, NEW p \in Proc, wait[p].at # "no"
  PROVE  wait[p].dev \in Dev /\ LockOf(p) \in DeviceLid
<1>1. wait[p].dev \in Dev BY DEF DeviceKnown
<1>2. wait[p].dev[1] \in {d[1] : d \in Dev} BY <1>1
<1> QED BY <1>1, <1>2 DEF DevTypeOK, LockOf

LEMMA CountedType ==
  ASSUME NEW n \in 0 .. MAXTICKS PROVE Counted(n) \in 0 .. MAXTICKS
BY DevicesAssumption DEF DevicesAssumption, Counted

\* Whoever the dispatcher picks is a process.
LEMMA DispatchType == P1Dispatch => running' \in Proc
BY DEF P1Dispatch, Runnable

\* Mutex keeps the owners among the processes.
LEMMA OwnerType ==
  ASSUME owner \in [DeviceLid -> Proc \cup {NoProc}], NEW p \in Proc, NEW l,
         M!Acquire(p, l) \/ M!Release(p, l)
  PROVE  owner' \in [DeviceLid -> Proc \cup {NoProc}]
BY DEF M!Acquire, M!Release

Waits == [at: {"no", "lock", "poll", "read", "clear", "unlock"}, dev: Dev \cup {NoDev}]

LEMMA WaitsUpdate ==
  /\ \A w \in Waits, a \in {"no", "lock", "poll", "read", "clear", "unlock"} :
       [w EXCEPT !.at = a] \in Waits
  /\ \A d \in Dev : [at |-> "lock", dev |-> d] \in Waits
  /\ [at |-> "no", dev |-> NoDev] \in Waits
BY DEF Waits

LEMMA GoToType ==
  ASSUME DevTypeOK, NEW p \in Proc,
         NEW a \in {"no", "lock", "poll", "read", "clear", "unlock"}, GoTo(p, a)
  PROVE  wait' \in [Proc -> Waits]
<1>1. wait \in [Proc -> Waits] BY DEF DevTypeOK, Waits
<1>2. [wait[p] EXCEPT !.at = a] \in Waits BY <1>1, WaitsUpdate
<1> QED BY <1>1, <1>2 DEF GoTo

LEMMA DevInit == startup => DevInv
<1> SUFFICES ASSUME startup PROVE DevInv
  OBVIOUS
<1>1. lidOf \in [{d[1] : d \in Dev} -> DeviceLid]
  <2>1. PICK refused \in SUBSET Type :
          lidOf = [t \in {d[1] : d \in Dev} |-> IF t \in refused THEN SharedLid ELSE t]
    BY DEF startup, createLockAndCond
  <2>2. \A d \in Dev : d[1] \in Type BY DevicesAssumption DEF DevicesAssumption, Type
  <2> QED BY <2>1, <2>2 DEF DeviceLid
<1>2. DevTypeOK
  BY <1>1, DevicesAssumption
  DEF DevicesAssumption, startup, createDevices, M!MutexInit, DevTypeOK
<1>3. \A p \in Proc : wait[p].at = "no" BY DEF startup
<1>4. FlagFresh BY DEF startup, FlagFresh
<1> QED BY <1>2, <1>3, <1>4 DEF DevInv, DeviceKnown, PastLockOwns, Past, ReadFresh

LEMMA DevTypeStep == DevInv /\ [DevNext]_devVars => DevTypeOK'
<1> SUFFICES ASSUME DevInv, [DevNext]_devVars PROVE DevTypeOK'
  OBVIOUS
<1> USE DEF Waits, flagVars, tickVars
<1>0. /\ lidOf \in [{d[1] : d \in Dev} -> DeviceLid]
      /\ owner \in [DeviceLid -> Proc \cup {NoProc}]
      /\ interrupt \in [Dev -> BOOLEAN] /\ abort \in [Cell -> BOOLEAN]
      /\ clockSignal \in 0 .. MAXTICKS /\ clockDispatch \in 0 .. MAXTICKS
      /\ running \in Proc /\ intr \in [Proc -> BOOLEAN]
      /\ wait \in [Proc -> Waits]
      /\ handler \in [Proc -> {"none", "signalled", "counted", "dispatched"}]
      /\ fresh \subseteq Dev
  BY DEF DevInv, DevTypeOK
<1>1. DevTypeOK /\ DeviceKnown BY DEF DevInv
<1>2. ASSUME NEW d \in Dev, Interrupt(d) PROVE DevTypeOK'
  BY <1>0, <1>2, DispatchType DEF Interrupt, DevTypeOK
<1>3. ASSUME Tick PROVE DevTypeOK'
  <2>1. running' \in Proc BY <1>0, <1>3, DispatchType DEF Tick
  <2>2. clockSignal' \in 0 .. MAXTICKS /\ clockDispatch' \in 0 .. MAXTICKS
    BY <1>0, <1>3, CountedType DEF Tick
  <2>3. handler' \in [Proc -> {"none", "signalled", "counted", "dispatched"}]
    BY <1>0, <1>3 DEF Tick
  <2> QED BY <1>0, <1>3, <2>1, <2>2, <2>3 DEF Tick, DevTypeOK
<1>4. ASSUME NEW p \in Proc, DeviceHandler(p) PROVE DevTypeOK'
  <2>1. CASE ClockSignalled(p)
    <3>1. 0 \in 0 .. MAXTICKS BY DevicesAssumption DEF DevicesAssumption
    <3>2. interrupt' \in [Dev -> BOOLEAN] BY <1>0, <2>1 DEF ClockSignalled
    <3> QED BY <1>0, <2>1, <3>1, <3>2 DEF ClockSignalled, DevTypeOK
  <2>2. CASE Rotate(p) BY <1>0, <2>2, DispatchType DEF Rotate, Rotates, DevTypeOK
  <2>3. CASE HandlerReturn(p)
    <3>1. 0 \in 0 .. MAXTICKS BY DevicesAssumption DEF DevicesAssumption
    <3>2. clockDispatch' \in 0 .. MAXTICKS BY <1>0, <2>3, <3>1 DEF HandlerReturn
    <3> QED BY <1>0, <2>3, <3>2 DEF HandlerReturn, DevTypeOK
  <2> QED BY <1>4, <2>1, <2>2, <2>3 DEF DeviceHandler
<1>5. ASSUME NEW p \in Proc, P1_DeviceWait(p) PROVE DevTypeOK'
  <2>1. CASE Locked(p)
    <3>1. owner' \in [DeviceLid -> Proc \cup {NoProc}] BY <1>0, <2>1, OwnerType DEF Locked
    <3>2. wait' \in [Proc -> Waits] BY <1>1, <2>1, GoToType DEF Locked
    <3> QED BY <1>0, <2>1, <3>1, <3>2 DEF Locked, DevTypeOK
  <2>2. CASE Blocked(p) BY <1>0, <2>2, DispatchType DEF Blocked, DevTypeOK
  <2>3. CASE Wait_For_Interrupt_Or_Abort(p)
    <3>1. wait' \in [Proc -> Waits] BY <1>1, <2>3, GoToType DEF Wait_For_Interrupt_Or_Abort
    <3> QED BY <1>0, <2>3, <3>1 DEF Wait_For_Interrupt_Or_Abort, DevTypeOK
  <2>4. CASE ReadStatus(p)
    <3>1. wait' \in [Proc -> Waits] BY <1>1, <2>4, GoToType DEF ReadStatus
    <3> QED BY <1>0, <2>4, <3>1 DEF ReadStatus, DevTypeOK
  <2>5. CASE ClearFlags(p)
    <3>1. wait' \in [Proc -> Waits] BY <1>1, <2>5, GoToType DEF ClearFlags
    <3>2. interrupt' \in [Dev -> BOOLEAN] /\ abort' \in [Cell -> BOOLEAN]
      BY <1>0, <2>5 DEF ClearFlags
    <3> QED BY <1>0, <2>5, <3>1, <3>2 DEF ClearFlags, DevTypeOK
  <2>6. CASE Unlocked(p)
    <3>1. owner' \in [DeviceLid -> Proc \cup {NoProc}] BY <1>0, <2>6, OwnerType DEF Unlocked
    <3>2. wait' \in [Proc -> Waits] BY <1>0, <2>6, WaitsUpdate DEF Unlocked
    <3>3. running' \in Proc BY <1>0, <2>6, DispatchType DEF Unlocked
    <3> QED BY <1>0, <2>6, <3>1, <3>2, <3>3 DEF Unlocked, DevTypeOK
  <2> QED BY <1>5, <2>1, <2>2, <2>3, <2>4, <2>5, <2>6 DEF P1_DeviceWait
<1>6. ASSUME NEW p \in Proc, NEW d \in Dev, StartWait(p, d) PROVE DevTypeOK'
  <2>1. wait' \in [Proc -> Waits] BY <1>0, <1>6, WaitsUpdate DEF StartWait
  <2> QED BY <1>0, <1>6, <2>1 DEF StartWait, DevTypeOK
<1>7. ASSUME NEW p \in Proc, NEW d \in Dev, P1_DeviceAbort(p, d) PROVE DevTypeOK'
  BY <1>0, <1>7 DEF P1_DeviceAbort, DevTypeOK
<1>8. CASE UNCHANGED devVars BY <1>0, <1>8 DEF devVars, DevTypeOK
<1> QED BY <1>2, <1>3, <1>4, <1>5, <1>6, <1>7, <1>8 DEF DevNext

------------------------------------------------------------------------------
(* The invariant, action by action. *)

\* Steps that move nobody through P1_DeviceWait: they take no lock and set no
\* flag without recording the interrupt.
Elsewhere ==
  /\ UNCHANGED <<lidOf, owner, wait>>
  /\ fresh \subseteq fresh'
  /\ \A d \in Dev : interrupt'[d] => interrupt[d] \/ d \in fresh'

LEMMA ElsewhereCases ==
  ASSUME DevTypeOK, NEW p \in Proc, NEW d,
         \/ Tick \/ Interrupt(d) \/ DeviceHandler(p) \/ Blocked(p)
         \/ P1_DeviceAbort(p, d) \/ UNCHANGED devVars
  PROVE  Elsewhere
<1> USE DEF flagVars, tickVars
<1>0. interrupt \in [Dev -> BOOLEAN] BY DEF DevTypeOK
<1>1. CASE UNCHANGED <<lidOf, owner, wait, interrupt, fresh>> BY <1>1 DEF Elsewhere
<1>2. CASE Interrupt(d) BY <1>0, <1>2 DEF Interrupt, Elsewhere
<1>3. CASE ClockSignalled(p)
  <2>1. \A e \in Dev : interrupt'[e] = (e = Clock \/ interrupt[e])
    BY <1>3 DEF ClockSignalled
  <2>2. fresh' = fresh \cup (Dev \cap {Clock}) BY <1>3 DEF ClockSignalled
  <2>3. UNCHANGED <<lidOf, owner, wait>> BY <1>3 DEF ClockSignalled
  <2> QED BY <2>1, <2>2, <2>3 DEF Elsewhere
<1> QED BY <1>1, <1>2, <1>3
        DEF Tick, DeviceHandler, Rotate, HandlerReturn, Blocked, P1_DeviceAbort, devVars

\* Nobody else moves when p does, and what p waits for changes at the ends only.
Moves(p, a, b) ==
  /\ lidOf' = lidOf
  /\ wait[p].at = a /\ wait'[p].at = b
  /\ \A q \in Proc \ {p} : wait'[q] = wait[q]
  /\ a # "no" /\ b # "no" => wait'[p].dev = wait[p].dev

LEMMA WaitMoves ==
  ASSUME DevTypeOK, NEW p \in Proc, NEW a, NEW b, At(p, a), GoTo(p, b), lidOf' = lidOf
  PROVE  Moves(p, a, b) /\ wait'[p].dev = wait[p].dev
BY DEF DevTypeOK, At, GoTo, Moves

\* The two processes past P1_Lock for devices that share a lock are one.
LEMMA OnePast ==
  ASSUME PastLockOwns, NEW p \in Proc, NEW q \in Proc,
         wait[p].at \in Past, wait[q].at \in Past, wait[p].dev = wait[q].dev
  PROVE  p = q
BY DEF PastLockOwns, LockOf

LEMMA ElsewhereInv ==
  ASSUME DevInv, Elsewhere
  PROVE  DeviceKnown' /\ PastLockOwns' /\ FlagFresh' /\ ReadFresh'
<1>1. DeviceKnown' BY DEF DevInv, DeviceKnown, Elsewhere
<1>2. PastLockOwns' BY DEF DevInv, PastLockOwns, LockOf, Elsewhere
<1>3. FlagFresh' BY DEF DevInv, FlagFresh, Elsewhere
<1>4. ReadFresh' BY DEF DevInv, ReadFresh, Elsewhere
<1> QED BY <1>1, <1>2, <1>3, <1>4

LEMMA StartWaitInv ==
  ASSUME DevInv, NEW p \in Proc, NEW d \in Dev, StartWait(p, d)
  PROVE  DeviceKnown' /\ PastLockOwns' /\ FlagFresh' /\ ReadFresh'
<1>0. /\ lidOf' = lidOf /\ owner' = owner /\ interrupt' = interrupt /\ fresh' = fresh
      /\ wait[p].at = "no" /\ wait'[p] = [at |-> "lock", dev |-> d]
      /\ \A q \in Proc \ {p} : wait'[q] = wait[q]
  BY DEF DevInv, DevTypeOK, StartWait, At, flagVars
<1>1. DeviceKnown' BY <1>0 DEF DevInv, DeviceKnown
<1>2. PastLockOwns' BY <1>0 DEF DevInv, PastLockOwns, LockOf, Past
<1>3. FlagFresh' BY <1>0 DEF DevInv, FlagFresh
<1>4. ReadFresh' BY <1>0 DEF DevInv, ReadFresh
<1> QED BY <1>1, <1>2, <1>3, <1>4

\* P1_Lock: the lock was free, so it was nobody else's.
LEMMA LockedInv ==
  ASSUME DevInv, NEW p \in Proc, Locked(p)
  PROVE  DeviceKnown' /\ PastLockOwns' /\ FlagFresh' /\ ReadFresh'
<1>0. /\ lidOf' = lidOf /\ interrupt' = interrupt /\ fresh' = fresh
      /\ wait[p].at = "lock" /\ wait'[p].at = "poll" /\ wait'[p].dev = wait[p].dev
      /\ \A q \in Proc \ {p} : wait'[q] = wait[q]
  BY WaitMoves DEF DevInv, Locked, Moves, flagVars
<1>1. DeviceKnown' BY <1>0 DEF DevInv, DeviceKnown
<1>2. owner[LockOf(p)] = NoProc /\ owner' = [owner EXCEPT ![LockOf(p)] = p]
  BY DEF Locked, M!Acquire
<1>3. LockOf(p) \in DeviceLid BY <1>0, LockOfType DEF DevInv
<1>4. \A q \in Proc : LockOf(q)' = LockOf(q) BY <1>0 DEF LockOf
<1>5. ASSUME NEW q \in Proc, wait'[q].at \in Past PROVE owner'[LockOf(q)'] = q
  <2>1. CASE q = p BY <1>2, <1>3, <1>4, <2>1 DEF DevInv, DevTypeOK
  <2>2. CASE q # p
    <3>1. owner[LockOf(q)] = q BY <1>0, <1>5, <2>2 DEF DevInv, PastLockOwns
    <3>2. LockOf(q) # LockOf(p) BY <1>2, <3>1, DevicesAssumption DEF DevicesAssumption
    <3> QED BY <1>2, <1>4, <3>1, <3>2 DEF DevInv, DevTypeOK
  <2> QED BY <2>1, <2>2
<1>6. PastLockOwns' BY <1>5 DEF PastLockOwns
<1>7. FlagFresh' BY <1>0 DEF DevInv, FlagFresh
<1>8. ReadFresh' BY <1>0 DEF DevInv, ReadFresh
<1> QED BY <1>1, <1>6, <1>7, <1>8

\* The flag p saw is fresh: whoever else could have read the status holds the
\* lock that p holds.
LEMMA PolledInv ==
  ASSUME DevInv, NEW p \in Proc, Wait_For_Interrupt_Or_Abort(p)
  PROVE  DeviceKnown' /\ PastLockOwns' /\ FlagFresh' /\ ReadFresh'
<1>0. /\ lidOf' = lidOf /\ owner' = owner /\ interrupt' = interrupt /\ fresh' = fresh
      /\ wait[p].at = "poll" /\ wait'[p].at = "read" /\ wait'[p].dev = wait[p].dev
      /\ \A q \in Proc \ {p} : wait'[q] = wait[q]
  BY WaitMoves DEF DevInv, Wait_For_Interrupt_Or_Abort, Moves, flagVars
<1>1. DeviceKnown' BY <1>0 DEF DevInv, DeviceKnown
<1>2. PastLockOwns' BY <1>0 DEF DevInv, PastLockOwns, LockOf, Past
<1>3. FlagFresh' BY <1>0 DEF DevInv, FlagFresh
<1>4. Polled(wait[p].dev) = wait[p].dev => wait[p].dev \in fresh
  <2> SUFFICES ASSUME Polled(wait[p].dev) = wait[p].dev PROVE wait[p].dev \in fresh
    OBVIOUS
  <2>1. wait[p].dev \in Dev BY <1>0 DEF DevInv, DeviceKnown
  <2>2. interrupt[wait[p].dev] BY DEF Wait_For_Interrupt_Or_Abort
  <2>3. ASSUME NEW q \in Proc, wait[q].at = "clear", wait[q].dev = wait[p].dev PROVE FALSE
    <3>1. p = q BY <1>0, <2>3, OnePast DEF DevInv, Past
    <3> QED BY <1>0, <2>3, <3>1
  <2> QED BY <2>1, <2>2, <2>3 DEF DevInv, FlagFresh
<1>5. ReadFresh' BY <1>0, <1>4 DEF DevInv, ReadFresh
<1> QED BY <1>1, <1>2, <1>3, <1>5

LEMMA ReadInv ==
  ASSUME DevInv, NEW p \in Proc, ReadStatus(p)
  PROVE  DeviceKnown' /\ PastLockOwns' /\ FlagFresh' /\ ReadFresh'
<1>0. /\ lidOf' = lidOf /\ owner' = owner /\ interrupt' = interrupt
      /\ fresh' = fresh \ {wait[p].dev}
      /\ wait[p].at = "read" /\ wait'[p].at = "clear" /\ wait'[p].dev = wait[p].dev
      /\ \A q \in Proc \ {p} : wait'[q] = wait[q]
  BY WaitMoves DEF DevInv, ReadStatus, Moves, flagVars
<1>1. DeviceKnown' BY <1>0 DEF DevInv, DeviceKnown
<1>2. PastLockOwns' BY <1>0 DEF DevInv, PastLockOwns, LockOf, Past
<1>3. ASSUME NEW d \in Dev, interrupt'[d]
      PROVE  d \in fresh' \/ \E q \in Proc : wait'[q].at = "clear" /\ wait'[q].dev = d
  <2>1. CASE d = wait[p].dev BY <1>0, <2>1
  <2>2. CASE d # wait[p].dev /\ d \in fresh BY <1>0, <2>2
  <2>3. CASE \E q \in Proc : wait[q].at = "clear" /\ wait[q].dev = d
    <3>1. PICK q \in Proc : wait[q].at = "clear" /\ wait[q].dev = d BY <2>3
    <3>2. wait'[q] = wait[q] BY <1>0, <3>1
    <3> QED BY <3>1, <3>2
  <2> QED BY <1>0, <1>3, <2>1, <2>2, <2>3 DEF DevInv, FlagFresh
<1>4. FlagFresh' BY <1>3 DEF FlagFresh
<1>5. ASSUME NEW q \in Proc, wait'[q].at = "read", Polled(wait'[q].dev) = wait'[q].dev
      PROVE  wait'[q].dev \in fresh'
  <2>1. q # p /\ wait'[q] = wait[q] BY <1>0, <1>5
  <2>2. wait[q].dev \in fresh BY <1>5, <2>1 DEF DevInv, ReadFresh
  <2>3. wait[q].dev # wait[p].dev BY <1>0, <1>5, <2>1, OnePast DEF DevInv, Past
  <2> QED BY <1>0, <2>1, <2>2, <2>3
<1>6. ReadFresh' BY <1>5 DEF ReadFresh
<1> QED BY <1>1, <1>2, <1>4, <1>6

LEMMA ClearInv ==
  ASSUME DevInv, NEW p \in Proc, ClearFlags(p)
  PROVE  DeviceKnown' /\ PastLockOwns' /\ FlagFresh' /\ ReadFresh'
<1>0. /\ lidOf' = lidOf /\ owner' = owner /\ fresh' = fresh
      /\ interrupt' = [interrupt EXCEPT ![wait[p].dev] = FALSE]
      /\ wait[p].at = "clear" /\ wait'[p].at = "unlock" /\ wait'[p].dev = wait[p].dev
      /\ \A q \in Proc \ {p} : wait'[q] = wait[q]
  BY WaitMoves DEF DevInv, ClearFlags, Moves, flagVars
<1>1. DeviceKnown' BY <1>0 DEF DevInv, DeviceKnown
<1>2. PastLockOwns' BY <1>0 DEF DevInv, PastLockOwns, LockOf, Past
<1>3. ASSUME NEW d \in Dev, interrupt'[d]
      PROVE  d \in fresh' \/ \E q \in Proc : wait'[q].at = "clear" /\ wait'[q].dev = d
  <2>1. d # wait[p].dev /\ interrupt[d] BY <1>0, <1>3 DEF DevInv, DevTypeOK
  <2>2. CASE d \in fresh BY <1>0, <2>2
  <2>3. CASE \E q \in Proc : wait[q].at = "clear" /\ wait[q].dev = d
    <3>1. PICK q \in Proc : wait[q].at = "clear" /\ wait[q].dev = d BY <2>3
    <3>2. wait'[q] = wait[q] BY <1>0, <2>1, <3>1
    <3> QED BY <3>1, <3>2
  <2> QED BY <2>1, <2>2, <2>3 DEF DevInv, FlagFresh
<1>4. FlagFresh' BY <1>3 DEF FlagFresh
<1>5. ReadFresh' BY <1>0 DEF DevInv, ReadFresh
<1> QED BY <1>1, <1>2, <1>4, <1>5

\* P1_Unlock gives up the lock of p only, and p is past it then.
LEMMA UnlockedInv ==
  ASSUME DevInv, NEW p \in Proc, Unlocked(p)
  PROVE  DeviceKnown' /\ PastLockOwns' /\ FlagFresh' /\ ReadFresh'
<1>0. /\ lidOf' = lidOf /\ interrupt' = interrupt /\ fresh' = fresh
      /\ wait[p].at = "unlock" /\ wait'[p] = [at |-> "no", dev |-> NoDev]
      /\ \A q \in Proc \ {p} : wait'[q] = wait[q]
  BY DEF DevInv, DevTypeOK, Unlocked, At, flagVars
<1>1. DeviceKnown' BY <1>0 DEF DevInv, DeviceKnown
<1>2. owner[LockOf(p)] = p /\ owner' = [owner EXCEPT ![LockOf(p)] = NoProc]
  BY DEF Unlocked, M!Release
<1>3. ASSUME NEW q \in Proc, wait'[q].at \in Past PROVE owner'[LockOf(q)'] = q
  <2>1. q # p /\ LockOf(q)' = LockOf(q) BY <1>0, <1>3 DEF Past, LockOf
  <2>2. owner[LockOf(q)] = q BY <1>0, <1>3, <2>1 DEF DevInv, PastLockOwns
  <2>3. LockOf(q) # LockOf(p) BY <1>2, <2>1, <2>2
  <2> QED BY <1>2, <2>1, <2>2, <2>3 DEF DevInv, DevTypeOK
<1>4. PastLockOwns' BY <1>3 DEF PastLockOwns
<1>5. FlagFresh' BY <1>0 DEF DevInv, FlagFresh
<1>6. ReadFresh' BY <1>0 DEF DevInv, ReadFresh
<1> QED BY <1>1, <1>4, <1>5, <1>6

LEMMA DevInvStep == DevInv /\ [DevNext]_devVars => DevInv'
<1> SUFFICES ASSUME DevInv, [DevNext]_devVars PROVE DevInv'
  OBVIOUS
<1>1. DevTypeOK' BY DevTypeStep
<1>2. ASSUME NEW p \in Proc, NEW d,
             \/ Tick \/ Interrupt(d) \/ DeviceHandler(p) \/ Blocked(p)
             \/ P1_DeviceAbort(p, d) \/ UNCHANGED devVars
      PROVE  DeviceKnown' /\ PastLockOwns' /\ FlagFresh' /\ ReadFresh'
  BY <1>2, ElsewhereCases, ElsewhereInv DEF DevInv
<1>3. ASSUME NEW p \in Proc, P1_DeviceWait(p)
      PROVE  DeviceKnown' /\ PastLockOwns' /\ FlagFresh' /\ ReadFresh'
  BY <1>2, <1>3, LockedInv, PolledInv, ReadInv, ClearInv, UnlockedInv DEF P1_DeviceWait
<1>4. running \in Proc BY DEF DevInv, DevTypeOK
<1> QED BY <1>1, <1>2, <1>3, <1>4, StartWaitInv DEF DevNext, DevInv

------------------------------------------------------------------------------
(* The theorems. *)

LEMMA DevInvariance == DevSpec => []DevInv
<1>1. startup => DevInv BY DevInit
<1>2. DevInv /\ [DevNext]_devVars => DevInv' BY DevInvStep
<1> QED BY <1>1, <1>2, PTL DEF DevSpec

\* Every variable of the device half of phase1d.c keeps its type.
THEOREM DevTypeCorrect == DevSpec => []DevTypeOK
<1>1. DevInv => DevTypeOK BY DEF DevInv
<1> QED BY <1>1, DevInvariance, PTL

\* No two processes are past the P1_Lock of P1_DeviceWait (phase1d.c:222-231)
\* for devices with the same lock, whichever locks there are.
THEOREM WaitsExclude ==
  DevSpec => [](\A p, q \in Proc :
                  p # q /\ {wait[p].at, wait[q].at} \subseteq Past => LockOf(p) # LockOf(q))
<1>1. DevInv => \A p, q \in Proc :
                  p # q /\ {wait[p].at, wait[q].at} \subseteq Past => LockOf(p) # LockOf(q)
  BY DEF DevInv, PastLockOwns
<1> QED BY <1>1, DevInvariance, PTL

\* P1_DeviceWait returns once for an interrupt of the clock, the alarm, a disk
\* or terminal 0, whatever runs between the test of the flag and its clearing.
THEOREM NoInterruptAnswersTwo == DevSpec => OneReturnPerInterrupt
<1>1. DevInv /\ [DevNext]_devVars
        => [\A p \in Proc : ReadStatus(p) /\ Polled(wait[p].dev) = wait[p].dev
                              => wait[p].dev \in fresh]_devVars
  BY DEF DevInv, ReadFresh, ReadStatus, At
<1> QED BY <1>1, DevInvariance, PTL DEF DevSpec, OneReturnPerInterrupt

==============================================================================
