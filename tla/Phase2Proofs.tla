----------------------------- MODULE Phase2Proofs -----------------------------
(***************************************************************************)
(* What holds of Phase2 for any number of users and disks, any clock and   *)
(* any length of the request list.                                         *)
(***************************************************************************)
EXTENDS Phase2, FiniteSetTheorems, TLAPS

\* From the first request on, the first place is never cleared.
FirstPlaceKept == listSize > 0 => 0 \in requestPIDList

\* The part of the type invariant about pc, in which the processes differ.
PcOK ==
  /\ pc \in [Proc -> StartupAt \cup ClockAt \cup DiskAt \cup UserAt]
  /\ pc["startup"] \in StartupAt /\ pc["clock"] \in ClockAt
  /\ \A d \in Unit : pc[d] \in DiskAt
  /\ \A u \in User : pc[u] \in UserAt

\* The rest of it.
DataOK ==
  /\ lid \in {"zero", "own"}
  /\ busy \subseteq {"lid"} /\ waiting \subseteq Unit \cup User /\ abort \subseteq Driver /\ toAbort \subseteq Unit
  /\ now \in Second
  /\ sleeperPIDSec \in [User -> Second]
  /\ NotShutDown \in BOOLEAN /\ RequestNotTaken \in BOOLEAN
  /\ requestPIDList \subseteq Place
  /\ listSize \in 0 .. P1_MAXPROC
  /\ wrapper \in Func \cup {NULL}

\* The list is never shorter than the requests that wait, though it may be
\* longer: reads never leave it.
ListCoversRequests == Cardinality(Requesting) <= listSize

Phase2Inv ==
  PcOK /\ DataOK /\ ListCoversRequests /\ FirstPlaceKept /\ DriverFindsRequest

LEMMA TypeParts == Phase2TypeOK <=> PcOK /\ DataOK
BY DEF Phase2TypeOK, PcOK, DataOK

LEMMA ProcFacts ==
  /\ "startup" \in Proc /\ "clock" \in Proc /\ Unit \subseteq Proc /\ User \subseteq Proc
  /\ "startup" \notin User \cup Unit /\ "clock" \notin User \cup Unit
  /\ User \cap Unit = {} /\ IsFiniteSet(User)
BY ClientsAssumption DEF ClientsAssumption, Proc, Driver

\* A process that moves from one of its places to another disturbs no type.
LEMMA MoveTyped ==
  ASSUME PcOK, NEW p \in Proc, NEW a, GoTo(p, a),
         \/ p = "startup" /\ a \in StartupAt
         \/ p = "clock" /\ a \in ClockAt
         \/ p \in Unit /\ a \in DiskAt
         \/ p \in User /\ a \in UserAt
  PROVE  PcOK'
<1>1. pc' = [pc EXCEPT ![p] = a] BY DEF GoTo
<1>2. pc \in [Proc -> StartupAt \cup ClockAt \cup DiskAt \cup UserAt] BY DEF PcOK
<1>3. pc' \in [Proc -> StartupAt \cup ClockAt \cup DiskAt \cup UserAt] BY <1>1, <1>2
<1>4. \A q \in Proc : pc'[q] = IF q = p THEN a ELSE pc[q] BY <1>1, <1>2
<1> QED BY <1>3, <1>4, ProcFacts DEF PcOK

\* Who is not asking for the disk before and after a step leaves Requesting as
\* it is.
LEMMA RequestingKept ==
  ASSUME PcOK, NEW p \in Proc, NEW a, GoTo(p, a),
         p \in User => pc[p] \notin {"read", "write"} /\ a \notin {"read", "write"}
  PROVE  Requesting' = Requesting
<1>1. \A q \in Proc : pc'[q] = IF q = p THEN a ELSE pc[q] BY DEF GoTo, PcOK
<1> QED BY <1>1, ProcFacts DEF Requesting

LEMMA RequestingFinite == IsFiniteSet(Requesting) /\ Cardinality(Requesting) \in Nat
<1>1. Requesting \in SUBSET User BY DEF Requesting
<1>2. IsFiniteSet(Requesting) BY <1>1, ProcFacts, FS_Subset
<1> QED BY <1>2, FS_CardinalityType

LEMMA Phase2Init == Init => Phase2Inv
<1> SUFFICES ASSUME Init PROVE Phase2Inv
  OBVIOUS
<1>1. PcOK
  <2>1. pc \in [Proc -> StartupAt \cup ClockAt \cup DiskAt \cup UserAt]
    BY DEF Init, ClientsInit, StartupAt, ClockAt, DiskAt, UserAt
  <2>2. /\ pc["startup"] = "init" /\ pc["clock"] = "none"
        /\ \A d \in Unit : pc[d] = "none"
        /\ \A u \in User : pc[u] = "none"
    BY ProcFacts DEF Init, ClientsInit
  <2> QED BY <2>1, <2>2 DEF PcOK, StartupAt, ClockAt, DiskAt, UserAt
<1>2. DataOK
  <2>1. lid = "zero" /\ busy = {} /\ waiting = {} /\ abort \subseteq Driver /\ toAbort = Unit
    BY DEF Init, ClientsInit, Phase1!MonitorInit
  <2>2. now \in Second /\ sleeperPIDSec \in [User -> Second]
    BY SecondAssumption DEF Init, SleepInit, SecondAssumption
  <2>3. NotShutDown \in BOOLEAN /\ RequestNotTaken \in BOOLEAN /\ requestPIDList \subseteq Place
    BY DEF Init, DiskInit
  <2>4. listSize \in 0 .. P1_MAXPROC BY DiskAssumption DEF Init, DiskInit, DiskAssumption
  <2> QED BY <2>1, <2>2, <2>3, <2>4 DEF Init, SpawnInit, DataOK
<1>3. Requesting = {}
  BY ProcFacts DEF Init, ClientsInit, Requesting
<1>4. ListCoversRequests /\ FirstPlaceKept
  BY <1>3, FS_EmptySet DEF Init, DiskInit, ListCoversRequests, FirstPlaceKept
<1>5. DriverFindsRequest
  BY ProcFacts DEF Init, ClientsInit, DriverFindsRequest
<1> QED BY <1>1, <1>2, <1>4, <1>5 DEF Phase2Inv

\* Steps that leave the list alone, move nobody to or from a request and no
\* driver to its pick.
LEMMA ListUntouched ==
  ASSUME Phase2Inv, NEW p \in Proc, NEW a, GoTo(p, a),
         p \in User => pc[p] \notin {"read", "write"} /\ a \notin {"read", "write"},
         p \in Unit => a # "pick",
         UNCHANGED <<requestPIDList, listSize>>
  PROVE  ListCoversRequests' /\ FirstPlaceKept' /\ DriverFindsRequest'
<1>0. PcOK BY DEF Phase2Inv
<1>1. Requesting' = Requesting BY <1>0, RequestingKept
<1>2. \A q \in Proc : pc'[q] = IF q = p THEN a ELSE pc[q] BY <1>0 DEF GoTo, PcOK
<1> QED
  BY <1>1, <1>2, ProcFacts DEF Phase2Inv, ListCoversRequests, FirstPlaceKept, DriverFindsRequest

\* Steps that move nobody and leave the list alone.
LEMMA NobodyMoves ==
  ASSUME Phase2Inv, UNCHANGED <<pc, requestPIDList, listSize>>
  PROVE  PcOK' /\ ListCoversRequests' /\ FirstPlaceKept' /\ DriverFindsRequest'
BY DEF Phase2Inv, PcOK, Requesting, ListCoversRequests, FirstPlaceKept, DriverFindsRequest

\* What the calls of phase 1 leave of their types.
LEMMA LockCallsTyped ==
  ASSUME DataOK, NEW p \in Unit \cup User,
         \/ P1_Lock \/ P1_Unlock \/ WaitReturns(p) \/ UNCHANGED lockVars
         \/ \E a : P1_Wait(p, a)
  PROVE  lid' = lid /\ busy' \subseteq {"lid"} /\ waiting' \subseteq Unit \cup User
BY DEF DataOK, P1_Lock, P1_Unlock, P1_Wait, WaitReturns, lockVars,
       Phase1!Lock, Phase1!Unlock, Phase1!Wait, Phase1!Return

LEMMA OthersStep ==
  ASSUME Phase2Inv, LockOfOthers, UNCHANGED <<sleepVars, diskVars, wrapper>>
  PROVE  Phase2Inv'
<1>0. PcOK /\ DataOK BY DEF Phase2Inv
<1>1. busy' \subseteq {"lid"} /\ UNCHANGED <<pc, lid, waiting, deviceVars>>
  BY <1>0 DEF LockOfOthers, P1_Lock, P1_Unlock, Phase1!Lock, Phase1!Unlock, DataOK
<1>2. DataOK' BY <1>0, <1>1 DEF deviceVars, sleepVars, diskVars, DataOK
<1> QED BY <1>1, <1>2, NobodyMoves DEF diskVars, Phase2Inv

LEMMA ClockStep ==
  ASSUME Phase2Inv, ClockDriver, UNCHANGED <<diskVars, wrapper>>
  PROVE  Phase2Inv'
<1>0. PcOK /\ DataOK BY DEF Phase2Inv
<1>1. PICK a \in ClockAt : GoTo("clock", a)
  BY DEF ClockDriver, ClockEnter, ClockRead, ClockBroadcast, StartDeviceWait, DeviceWaitReturns, ClockAt
<1>2. PcOK' BY <1>0, <1>1, ProcFacts, MoveTyped
<1>3. ListCoversRequests' /\ FirstPlaceKept' /\ DriverFindsRequest'
  BY <1>1, ProcFacts, ListUntouched DEF diskVars
<1>4. ASSUME ClockEnter PROVE DataOK'
  BY <1>0, <1>4 DEF ClockEnter, StartDeviceWait, lockVars, deviceVars, sleepVars, diskVars, DataOK
<1>5. ASSUME ClockRead PROVE DataOK'
  BY <1>0, <1>5 DEF ClockRead, DeviceWaitReturns, lockVars, diskVars, DataOK
<1>6. ASSUME ClockBroadcast PROVE DataOK'
  <2>1. busy' \subseteq {"lid"} /\ waiting' = waiting /\ lid' = lid
    BY <1>0, <1>6 DEF ClockBroadcast, P1_Lock, P1_Unlock, Phase1!Lock, Phase1!Unlock, DataOK
  <2> QED BY <1>0, <1>6, <2>1 DEF ClockBroadcast, deviceVars, sleepVars, diskVars, DataOK
<1>7. DataOK' BY <1>4, <1>5, <1>6 DEF ClockDriver
<1> QED BY <1>2, <1>3, <1>7 DEF Phase2Inv

\* The creation of the locks: lid names lock 0 or one of its own, busy or not.
LEMMA CreateTyped ==
  ASSUME DataOK, P1_LockCreate
  PROVE  lid' \in {"zero", "own"} /\ busy' \subseteq {"lid"} /\ waiting' = waiting
BY DEF DataOK, P1_LockCreate

LEMMA ClockInitStep ==
  ASSUME Phase2Inv, P2ClockInit, UNCHANGED <<diskVars, wrapper>>
  PROVE  Phase2Inv'
<1>0. PcOK /\ DataOK BY DEF Phase2Inv
<1>1. CASE P1_LockCreate /\ GoTo("startup", "fork")
  <2>1. DataOK' BY <1>0, <1>1, CreateTyped DEF P2ClockInit, deviceVars, sleepVars, diskVars, DataOK
  <2>2. PcOK' BY <1>0, <1>1, ProcFacts, MoveTyped DEF StartupAt
  <2> QED BY <1>1, <2>1, <2>2, ProcFacts, ListUntouched DEF diskVars, Phase2Inv
<1>2. CASE /\ \E a \in {"none", "enter"} : pc' = [pc EXCEPT !["startup"] = "disk", !["clock"] = a]
           /\ UNCHANGED lockVars
  <2>1. DataOK' BY <1>0, <1>2 DEF P2ClockInit, lockVars, deviceVars, sleepVars, diskVars, DataOK
  <2>2. PICK a \in {"none", "enter"} : pc' = [pc EXCEPT !["startup"] = "disk", !["clock"] = a]
    BY <1>2
  <2>3. \A q \in Proc : pc'[q] = IF q = "startup" THEN "disk" ELSE IF q = "clock" THEN a ELSE pc[q]
    BY <1>0, <2>2, ProcFacts DEF PcOK
  <2>4. pc' \in [Proc -> StartupAt \cup ClockAt \cup DiskAt \cup UserAt]
    BY <1>0, <2>2, ProcFacts DEF PcOK, StartupAt, ClockAt
  <2>5. PcOK' BY <1>0, <2>3, <2>4, ProcFacts DEF PcOK, StartupAt, ClockAt
  <2>6. /\ \A u \in User : pc'[u] = pc[u]
        /\ \A d \in Unit : pc'[d] = pc[d]
    BY <2>3, ProcFacts
  <2>7. Requesting' = Requesting BY <2>6 DEF Requesting
  <2> QED
    BY <2>1, <2>5, <2>6, <2>7
    DEF diskVars, Phase2Inv, ListCoversRequests, FirstPlaceKept, DriverFindsRequest
<1> QED BY <1>1, <1>2 DEF P2ClockInit

LEMMA DiskInitStep ==
  ASSUME Phase2Inv, P2DiskInit, UNCHANGED <<sleepVars, wrapper>>
  PROVE  Phase2Inv'
<1>0. PcOK /\ DataOK BY DEF Phase2Inv
<1>1. UNCHANGED <<requestPIDList, listSize, RequestNotTaken, deviceVars>>
  BY DEF P2DiskInit, diskVars
<1>2. lid' \in {"zero", "own"} /\ busy' \subseteq {"lid"} /\ waiting' = waiting /\ NotShutDown' \in BOOLEAN
  BY <1>0, CreateTyped DEF P2DiskInit, lockVars, diskVars, DataOK
<1>3. DataOK' BY <1>0, <1>1, <1>2 DEF deviceVars, sleepVars, DataOK
<1>4. \/ \E a \in {"units", "spawn"} : GoTo("startup", a)
      \/ \E d \in Unit : GoTo(d, "start")
  BY DEF P2DiskInit
<1>5. CASE \E a \in {"units", "spawn"} : GoTo("startup", a)
  <2>1. PICK a \in {"units", "spawn"} : GoTo("startup", a) BY <1>5
  <2>2. PcOK' BY <1>0, <2>1, ProcFacts, MoveTyped DEF StartupAt
  <2> QED BY <1>1, <1>3, <2>1, <2>2, ProcFacts, ListUntouched DEF Phase2Inv
<1>6. CASE \E d \in Unit : GoTo(d, "start")
  <2>1. PICK d \in Unit : GoTo(d, "start") BY <1>6
  <2>2. PcOK' BY <1>0, <2>1, ProcFacts, MoveTyped DEF DiskAt
  <2> QED BY <1>1, <1>3, <2>1, <2>2, ProcFacts, ListUntouched DEF Phase2Inv
<1> QED BY <1>4, <1>5, <1>6

LEMMA SleeperStep ==
  ASSUME Phase2Inv, NEW u \in User, UNCHANGED <<diskVars, wrapper>>,
         SleepTest(u) \/ \E s \in Second : P2_Sleep(u, s)
  PROVE  Phase2Inv'
<1>0. PcOK /\ DataOK BY DEF Phase2Inv
<1>1. lid' = lid /\ busy' \subseteq {"lid"} /\ waiting' \subseteq Unit \cup User
  BY <1>0, LockCallsTyped
  DEF SleepTest, SleepReturns, P2_Sleep
<1>2. sleeperPIDSec' \in [User -> Second]
  BY <1>0, SecondAssumption DEF SleepTest, SleepReturns, P2_Sleep, sleepVars, DataOK, SecondAssumption
<1>3. UNCHANGED <<now, deviceVars>>
  BY DEF SleepTest, SleepReturns, P2_Sleep, P1_Wait, WaitReturns, sleepVars
<1>4. DataOK' BY <1>0, <1>1, <1>2, <1>3 DEF deviceVars, diskVars, DataOK
<1>5. \/ UNCHANGED pc
      \/ pc[u] \in {"user", "sleep"} /\ \E a \in {"user", "sleep"} : GoTo(u, a)
  BY DEF SleepTest, SleepReturns, P2_Sleep, P1_Wait, WaitReturns, At
<1>6. PcOK' /\ ListCoversRequests' /\ FirstPlaceKept' /\ DriverFindsRequest'
  <2>1. CASE UNCHANGED pc BY <2>1, NobodyMoves DEF diskVars
  <2>2. CASE pc[u] \in {"user", "sleep"} /\ \E a \in {"user", "sleep"} : GoTo(u, a)
    <3>1. PICK a \in {"user", "sleep"} : GoTo(u, a) BY <2>2
    <3>2. PcOK' BY <1>0, <3>1, ProcFacts, MoveTyped DEF UserAt
    <3> QED BY <2>2, <3>1, <3>2, ProcFacts, ListUntouched DEF diskVars
  <2> QED BY <1>5, <2>1, <2>2
<1> QED BY <1>4, <1>6 DEF Phase2Inv

LEMMA DriverStep ==
  ASSUME Phase2Inv, NEW d \in Unit, DiskDriver(d), UNCHANGED <<sleepVars, wrapper>>
  PROVE  Phase2Inv'
<1>0. PcOK /\ DataOK BY DEF Phase2Inv
<1> USE DEF sleepVars, deviceVars, diskVars
<1>1. UNCHANGED <<requestPIDList, listSize, NotShutDown, toAbort>> /\ abort' \subseteq abort
  BY DEF DiskDriver, DriverStart, DriverLoop, DriverNext, DriverWaits, DriverPick, DriverReport, P1_Wait, WaitReturns,
         StartDeviceWait, DeviceWaitReturns
<1>2. lid' = lid /\ busy' \subseteq {"lid"} /\ waiting' \subseteq Unit \cup User
  BY <1>0, LockCallsTyped
  DEF DiskDriver, DriverStart, DriverLoop, DriverNext, DriverWaits, DriverPick, DriverReport, lockVars,
      StartDeviceWait, DeviceWaitReturns
<1>3. RequestNotTaken' \in BOOLEAN
  BY <1>0
  DEF DiskDriver, DriverStart, DriverLoop, DriverNext, DriverWaits, DriverPick, DriverReport, DataOK
<1>4. DataOK' BY <1>0, <1>1, <1>2, <1>3 DEF DataOK
<1>5. \/ UNCHANGED pc
      \/ \E a \in DiskAt \ {"pick"} : GoTo(d, a)
      \/ listSize >= 1 /\ GoTo(d, "pick")
  BY <1>0
  DEF DiskDriver, DriverStart, DriverLoop, DriverNext, DriverWaits, DriverPick, DriverReport, P1_Wait, WaitReturns,
      StartDeviceWait, DeviceWaitReturns, DiskAt, DataOK
<1>6. PcOK' /\ ListCoversRequests' /\ FirstPlaceKept' /\ DriverFindsRequest'
  <2>1. CASE UNCHANGED pc BY <1>1, <2>1, NobodyMoves
  <2>2. CASE \E a \in DiskAt \ {"pick"} : GoTo(d, a)
    <3>1. PICK a \in DiskAt \ {"pick"} : GoTo(d, a) BY <2>2
    <3>2. PcOK' BY <1>0, <3>1, ProcFacts, MoveTyped
    <3> QED BY <1>1, <3>1, <3>2, ProcFacts, ListUntouched
  <2>3. CASE listSize >= 1 /\ GoTo(d, "pick")
    <3>1. PcOK' BY <1>0, <2>3, ProcFacts, MoveTyped DEF DiskAt
    <3>2. Requesting' = Requesting BY <1>0, <2>3, ProcFacts, RequestingKept
    <3>3. 0 \in requestPIDList BY <1>0, <2>3 DEF Phase2Inv, FirstPlaceKept, DataOK
    <3> QED
      BY <1>1, <3>1, <3>2, <3>3 DEF Phase2Inv, ListCoversRequests, FirstPlaceKept, DriverFindsRequest
  <2> QED BY <1>5, <2>1, <2>2, <2>3
<1> QED BY <1>4, <1>6 DEF Phase2Inv

LEMMA RequestStep ==
  ASSUME Phase2Inv, NEW u \in User, NEW op \in {"read", "write"}, Request(u, op),
         UNCHANGED <<sleepVars, wrapper>>
  PROVE  Phase2Inv'
<1>0. PcOK /\ DataOK /\ ListCoversRequests /\ FirstPlaceKept /\ DriverFindsRequest BY DEF Phase2Inv
<1>1. /\ listSize \in Place /\ listSize' = listSize + 1
      /\ requestPIDList' = requestPIDList \cup {listSize}
      /\ GoTo(u, op) /\ pc[u] = "user"
  BY DEF Request, At
<1>2. lid' = lid /\ busy' \subseteq {"lid"} /\ waiting' \subseteq Unit \cup User
  BY <1>0, LockCallsTyped DEF Request
<1>3. listSize' \in 0 .. P1_MAXPROC BY <1>1, DiskAssumption DEF Place, DiskAssumption
<1>4. RequestNotTaken' \in BOOLEAN BY <1>0 DEF Request
<1>5. DataOK'
  BY <1>0, <1>1, <1>2, <1>3, <1>4 DEF Request, deviceVars, sleepVars, DataOK
<1>6. PcOK' BY <1>0, <1>1, ProcFacts, MoveTyped DEF UserAt
<1>7. \A q \in Proc : pc'[q] = IF q = u THEN op ELSE pc[q] BY <1>0, <1>1 DEF GoTo, PcOK
<1>8. Requesting' = Requesting \cup {u} /\ u \notin Requesting
  BY <1>1, <1>7, ProcFacts DEF Requesting
<1>9. ListCoversRequests'
  <2>1. Cardinality(Requesting') = Cardinality(Requesting) + 1
    BY <1>8, RequestingFinite, FS_AddElement
  <2> QED BY <1>0, <1>1, <2>1, RequestingFinite DEF ListCoversRequests, DataOK
<1>10. FirstPlaceKept' BY <1>0, <1>1 DEF FirstPlaceKept, DataOK
<1>11. DriverFindsRequest' BY <1>0, <1>1, <1>7, ProcFacts DEF DriverFindsRequest
<1> QED BY <1>5, <1>6, <1>9, <1>10, <1>11 DEF Phase2Inv

LEMMA ReturnStep ==
  ASSUME Phase2Inv, NEW u \in User, ReadReturns(u) \/ WriteReturns(u), UNCHANGED <<sleepVars, wrapper>>
  PROVE  Phase2Inv'
<1>0. PcOK /\ DataOK /\ ListCoversRequests /\ FirstPlaceKept /\ DriverFindsRequest BY DEF Phase2Inv
<1>1. GoTo(u, "user") /\ pc[u] \in {"read", "write"} BY DEF ReadReturns, WriteReturns, At
<1>2. PcOK' BY <1>0, <1>1, ProcFacts, MoveTyped DEF UserAt
<1>3. \A q \in Proc : pc'[q] = IF q = u THEN "user" ELSE pc[q] BY <1>0, <1>1 DEF GoTo, PcOK
<1>4. Requesting' = Requesting \ {u} /\ u \in Requesting BY <1>1, <1>3, ProcFacts DEF Requesting
<1>5. /\ Cardinality(Requesting') = Cardinality(Requesting) - 1
      /\ Cardinality(Requesting) \in Nat \ {0}
  <2>1. Cardinality(Requesting') = Cardinality(Requesting) - 1
    BY <1>4, RequestingFinite, FS_RemoveElement
  <2>2. Cardinality(Requesting) # 0 BY <1>4, RequestingFinite, FS_EmptySet
  <2> QED BY <2>1, <2>2, RequestingFinite
<1>6. listSize \in 1 .. P1_MAXPROC /\ 0 \in requestPIDList
  BY <1>0, <1>5, DiskAssumption DEF ListCoversRequests, FirstPlaceKept, DataOK, DiskAssumption
<1>7. lid' = lid /\ busy' \subseteq {"lid"} /\ waiting' \subseteq Unit \cup User
  BY <1>0, LockCallsTyped DEF ReadReturns, WriteReturns
<1>8. /\ listSize' \in {listSize, listSize - 1} /\ 0 \in requestPIDList'
      /\ requestPIDList' \subseteq requestPIDList
      /\ UNCHANGED <<NotShutDown, RequestNotTaken, deviceVars>>
  BY <1>6 DEF ReadReturns, WriteReturns, OneLess, ClearedPlace, diskVars
<1>9. DataOK'
  <2>1. listSize' \in 0 .. P1_MAXPROC BY <1>6, <1>8, DiskAssumption DEF DiskAssumption
  <2>2. requestPIDList' \subseteq Place BY <1>0, <1>8 DEF DataOK
  <2> QED BY <1>0, <1>7, <1>8, <2>1, <2>2 DEF deviceVars, sleepVars, DataOK
<1>10. ListCoversRequests' BY <1>0, <1>5, <1>6, <1>8 DEF ListCoversRequests
<1>11. FirstPlaceKept' /\ DriverFindsRequest' BY <1>8 DEF FirstPlaceKept, DriverFindsRequest
<1> QED BY <1>2, <1>9, <1>10, <1>11 DEF Phase2Inv

LEMMA OtherDiskStep ==
  ASSUME Phase2Inv, NEW u \in User,
         \/ RequestWaits(u) /\ UNCHANGED <<sleepVars, wrapper>>
         \/ P3_VmShutdown(u) /\ UNCHANGED <<sleepVars, wrapper>>
  PROVE  Phase2Inv'
<1>0. PcOK /\ DataOK BY DEF Phase2Inv
<1>1. lid' = lid /\ busy' \subseteq {"lid"} /\ waiting' \subseteq Unit \cup User
  BY <1>0, LockCallsTyped DEF RequestWaits, P3_VmShutdown, clientVars
<1>2. /\ UNCHANGED <<deviceVars, requestPIDList, listSize, RequestNotTaken>>
      /\ NotShutDown' \in {NotShutDown, FALSE}
  BY DEF RequestWaits, P1_Wait, WaitReturns, P3_VmShutdown, clientVars, diskVars
<1>3. UNCHANGED pc
  <2>1. GoTo(u, pc[u]) => UNCHANGED pc BY <1>0, ProcFacts DEF GoTo, PcOK
  <2> QED BY <2>1 DEF RequestWaits, P1_Wait, WaitReturns, P3_VmShutdown, clientVars
<1>4. DataOK' BY <1>0, <1>1, <1>2 DEF deviceVars, sleepVars, DataOK
<1> QED BY <1>2, <1>3, <1>4, NobodyMoves DEF Phase2Inv

LEMMA ShutdownStep ==
  ASSUME Phase2Inv, P2DiskShutdown, UNCHANGED <<sleepVars, wrapper>>
  PROVE  Phase2Inv'
<1>0. PcOK /\ DataOK BY DEF Phase2Inv
<1>1. DataOK' BY <1>0 DEF P2DiskShutdown, lockVars, deviceVars, sleepVars, DataOK
<1>2. GoTo("startup", "clock") /\ UNCHANGED <<requestPIDList, listSize>> BY DEF P2DiskShutdown
<1>3. PcOK' BY <1>0, <1>2, ProcFacts, MoveTyped DEF StartupAt
<1> QED BY <1>1, <1>2, <1>3, ProcFacts, ListUntouched DEF Phase2Inv

\* A spawn makes a user of a process that was none.
LEMMA SpawnMoves ==
  ASSUME Phase2Inv, NEW p \in Proc, NEW f \in Func \cup {NULL}, NEW next, P2_Spawn(p, f, next),
         \/ p = "startup" /\ next \in StartupAt
         \/ p \in User /\ pc[p] = "user" /\ next \in {"user", "over"},
         UNCHANGED <<sleepVars, diskVars>>
  PROVE  Phase2Inv'
<1>0. PcOK /\ DataOK /\ ListCoversRequests /\ FirstPlaceKept /\ DriverFindsRequest BY DEF Phase2Inv
<1>1. DataOK' BY <1>0 DEF P2_Spawn, lockVars, deviceVars, sleepVars, diskVars, DataOK
<1>2. CASE GoTo(p, next)
  <2>1. PcOK' BY <1>0, <1>2, MoveTyped DEF UserAt
  <2> QED BY <1>1, <1>2, <2>1, ProcFacts, ListUntouched DEF diskVars, Phase2Inv
<1>3. CASE \E c \in User : pc[c] = "none" /\ pc' = [pc EXCEPT ![c] = "unborn", ![p] = next]
  <2>1. PICK c \in User : pc[c] = "none" /\ pc' = [pc EXCEPT ![c] = "unborn", ![p] = next] BY <1>3
  <2>2. c # p /\ c \in Proc BY <2>1, ProcFacts
  <2>3. \A q \in Proc : pc'[q] = IF q = p THEN next ELSE IF q = c THEN "unborn" ELSE pc[q]
    BY <1>0, <2>1, <2>2 DEF PcOK
  <2>4. pc' \in [Proc -> StartupAt \cup ClockAt \cup DiskAt \cup UserAt]
    BY <1>0, <2>1, <2>2 DEF PcOK, UserAt
  <2>5. PcOK' BY <1>0, <2>2, <2>3, <2>4, ProcFacts DEF PcOK, UserAt
  <2>6. Requesting' = Requesting
    <3>1. p \in User => pc[p] \notin {"read", "write"} /\ next \notin {"read", "write"}
      BY ProcFacts
    <3>2. ASSUME NEW v \in User PROVE pc'[v] \in {"read", "write"} <=> pc[v] \in {"read", "write"}
      <4>1. pc'[v] = IF v = p THEN next ELSE IF v = c THEN "unborn" ELSE pc[v] BY <2>3, ProcFacts
      <4>2. pc[c] = "none" BY <2>1
      <4>3. CASE v = p BY <3>1, <4>1, <4>3
      <4>4. CASE v # p /\ v = c BY <4>1, <4>2, <4>4
      <4>5. CASE v # p /\ v # c BY <4>1, <4>5
      <4> QED BY <4>3, <4>4, <4>5
    <3> QED BY <3>2 DEF Requesting
  <2>7. \A d \in Unit : pc'[d] = pc[d] BY <2>2, <2>3, ProcFacts
  <2> QED
    BY <1>0, <1>1, <2>5, <2>6, <2>7
    DEF diskVars, Phase2Inv, ListCoversRequests, FirstPlaceKept, DriverFindsRequest
<1> QED BY <1>2, <1>3 DEF P2_Spawn

LEMMA SpawnStep ==
  ASSUME Phase2Inv, SpawnNext, UNCHANGED <<sleepVars, diskVars>>
  PROVE  Phase2Inv'
<1>0. PcOK /\ DataOK BY DEF Phase2Inv
<1>1. CASE pc["startup"] = "spawn" /\ \E f \in Func : P2_Spawn("startup", f, "shutdown")
  BY <1>1, ProcFacts, SpawnMoves DEF StartupAt
<1>2. CASE \E d \in Unit : AbortDisk(d)
  <2>1. PICK d \in Unit : AbortDisk(d) BY <1>2
  <2>2. DataOK' BY <1>0, <2>1 DEF AbortDisk, lockVars, sleepVars, diskVars, Driver, DataOK
  <2> QED BY <2>1, <2>2, NobodyMoves DEF AbortDisk, diskVars, Phase2Inv
<1>3. CASE P2ClockShutdown
  <2>1. DataOK' BY <1>0, <1>3 DEF P2ClockShutdown, lockVars, sleepVars, diskVars, Driver, DataOK
  <2>2. GoTo("startup", "over") BY <1>3 DEF P2ClockShutdown
  <2>3. PcOK' BY <1>0, <2>2, ProcFacts, MoveTyped DEF StartupAt
  <2> QED BY <2>1, <2>2, <2>3, ProcFacts, ListUntouched DEF diskVars, Phase2Inv
<1>4. CASE \E u \in User : SpawnStub(u) \/ ReturnsFromFunction(u)
  BY <1>4, ProcFacts, SpawnMoves DEF SpawnStub, ReturnsFromFunction, At
<1>5. CASE \E u \in User : launch(u)
  <2>1. PICK u \in User : launch(u) BY <1>5
  <2>2. DataOK' BY <1>0, <2>1 DEF launch, deviceVars, lockVars, sleepVars, diskVars, DataOK
  <2>3. PICK a \in {"born", "user"} : GoTo(u, a) /\ pc[u] \in {"unborn", "born"} BY <2>1 DEF launch
  <2>4. PcOK' BY <1>0, <2>3, ProcFacts, MoveTyped DEF UserAt
  <2> QED BY <2>2, <2>3, <2>4, ProcFacts, ListUntouched DEF diskVars, Phase2Inv
<1> QED BY <1>1, <1>2, <1>3, <1>4, <1>5 DEF SpawnNext, P2_Startup

LEMMA Phase2Invariance == Spec => []Phase2Inv
<1>1. Phase2Inv /\ [Next]_vars => Phase2Inv'
  <2> SUFFICES ASSUME Phase2Inv, [Next]_vars PROVE Phase2Inv'
    OBVIOUS
  <2>1. CASE SleepNext /\ UNCHANGED <<diskVars, wrapper>>
    BY <2>1, ClockInitStep, ClockStep, SleeperStep DEF SleepNext
  <2>2. CASE DiskNext /\ UNCHANGED <<sleepVars, wrapper>>
    BY <2>2, DiskInitStep, DriverStep, RequestStep, ReturnStep, OtherDiskStep
    DEF DiskNext, DiskCall, P2_DiskRead, P2_DiskWrite
  <2>3. CASE P2DiskShutdown /\ UNCHANGED <<sleepVars, wrapper>>
    BY <2>3, ShutdownStep
  <2>4. CASE SpawnNext /\ UNCHANGED <<sleepVars, diskVars>>
    BY <2>4, SpawnStep
  <2>5. CASE LockOfOthers /\ UNCHANGED <<sleepVars, diskVars, wrapper>>
    BY <2>5, OthersStep
  <2>6. CASE UNCHANGED vars
    <3>1. DataOK' BY <2>6 DEF Phase2Inv, DataOK, vars, clientVars, lockVars, deviceVars, sleepVars, diskVars
    <3> QED BY <2>6, <3>1, NobodyMoves DEF Phase2Inv, vars, clientVars, diskVars
  <2> QED BY <2>1, <2>2, <2>3, <2>4, <2>5, <2>6 DEF Next
<1> QED BY <1>1, Phase2Init, PTL DEF Spec

\* Phase2TypeOK holds in every reachable state.
THEOREM Phase2TypeCorrect == Spec => []Phase2TypeOK
<1>1. Phase2Inv => Phase2TypeOK BY TypeParts DEF Phase2Inv
<1> QED BY <1>1, Phase2Invariance, PTL

\* A driver that picks a request finds a process in the first place of the
\* list, however many requests came and went since it looked: phase2c.c:117.
THEOREM DriverAlwaysFinds == Spec => []DriverFindsRequest
<1>1. Phase2Inv => DriverFindsRequest BY DEF Phase2Inv
<1> QED BY <1>1, Phase2Invariance, PTL

\* A driver on its way to sleep has just found the list empty.
LEMMA SleepsOnEmptyList ==
  ASSUME Phase2Inv, Next, NEW d \in Unit, pc[d] = "next", pc'[d] = "sleep"
  PROVE  listSize < 1
<1>0. PcOK BY DEF Phase2Inv
<1>1. ASSUME NEW p \in Proc, NEW a, GoTo(p, a), p = d => a # "sleep" PROVE FALSE
  <2>1. pc'[d] = IF d = p THEN a ELSE pc[d] BY <1>0, <1>1, ProcFacts DEF GoTo, PcOK
  <2> QED BY <1>1, <2>1
<1>2. ASSUME UNCHANGED pc PROVE FALSE BY <1>2
<1>3. ASSUME SleepNext PROVE FALSE
  <2>1. ASSUME P2ClockInit PROVE FALSE
    <3>1. CASE GoTo("startup", "fork") BY <3>1, <1>1, ProcFacts
    <3>2. CASE \E a \in {"none", "enter"} : pc' = [pc EXCEPT !["startup"] = "disk", !["clock"] = a]
      <4>1. pc'[d] = pc[d] BY <1>0, <3>2, ProcFacts DEF PcOK
      <4> QED BY <4>1
    <3> QED BY <2>1, <3>1, <3>2 DEF P2ClockInit
  <2>2. ASSUME ClockDriver PROVE FALSE
    <3>1. \E a : GoTo("clock", a)
      BY <2>2 DEF ClockDriver, ClockEnter, ClockRead, ClockBroadcast, StartDeviceWait, DeviceWaitReturns
    <3> QED BY <3>1, <1>1, ProcFacts
  <2>3. ASSUME NEW v \in User, SleepTest(v) \/ \E s \in Second : P2_Sleep(v, s) PROVE FALSE
    <3>1. UNCHANGED pc \/ \E a : GoTo(v, a)
      BY <2>3 DEF SleepTest, SleepReturns, P2_Sleep, P1_Wait, WaitReturns
    <3> QED BY <3>1, <1>1, <1>2, ProcFacts
  <2> QED BY <1>3, <2>1, <2>2, <2>3 DEF SleepNext
<1>4. ASSUME DiskNext PROVE listSize < 1
  <2>1. ASSUME P2DiskInit PROVE FALSE
    <3>1. (\E a : GoTo("startup", a)) \/ \E e \in Unit : GoTo(e, "start") BY <2>1 DEF P2DiskInit
    <3> QED BY <3>1, <1>1, ProcFacts
  <2>2. ASSUME NEW e \in Unit, DiskDriver(e) PROVE listSize < 1
    <3>1. CASE DriverNext(e)
      <4>1. GoTo(e, IF listSize < 1 THEN "sleep" ELSE "pick") BY <3>1 DEF DriverNext
      <4> QED BY <4>1, <1>1, ProcFacts
    <3>2. CASE ~DriverNext(e)
      <4>1. UNCHANGED pc \/ \E a : GoTo(e, a) /\ a # "sleep"
        BY <2>2, <3>2 DEF DiskDriver, DriverStart, DriverLoop, DriverWaits, DriverPick, DriverReport,
                          P1_Wait, WaitReturns, StartDeviceWait, DeviceWaitReturns
      <4> QED BY <4>1, <1>1, <1>2, ProcFacts
    <3> QED BY <3>1, <3>2
  <2>3. ASSUME NEW v \in User, DiskCall(v) \/ P3_VmShutdown(v) PROVE FALSE
    <3>1. UNCHANGED pc \/ \E a : GoTo(v, a)
      BY <2>3 DEF DiskCall, P2_DiskRead, P2_DiskWrite, Request, RequestWaits, ReadReturns, WriteReturns,
                  P1_Wait, WaitReturns, P3_VmShutdown, clientVars
    <3> QED BY <3>1, <1>1, <1>2, ProcFacts
  <2> QED BY <1>4, <2>1, <2>2, <2>3 DEF DiskNext
<1>5. ASSUME P2DiskShutdown PROVE FALSE BY <1>5, <1>1, ProcFacts DEF P2DiskShutdown
<1>6. ASSUME LockOfOthers PROVE FALSE BY <1>6, <1>2 DEF LockOfOthers
<1>7. ASSUME SpawnNext PROVE FALSE
  <2>1. ASSUME NEW p \in Proc, NEW f, NEW next, P2_Spawn(p, f, next), p \notin Unit PROVE FALSE
    <3>1. CASE GoTo(p, next) BY <2>1, <3>1, <1>1
    <3>2. CASE \E c \in User : pc' = [pc EXCEPT ![c] = "unborn", ![p] = next]
      <4>1. pc'[d] = pc[d] BY <1>0, <2>1, <3>2, ProcFacts DEF PcOK
      <4> QED BY <4>1
    <3> QED BY <2>1, <3>1, <3>2 DEF P2_Spawn
  <2>2. ASSUME P2_Startup PROVE FALSE
    <3>1. CASE \E f \in Func : P2_Spawn("startup", f, "shutdown") BY <3>1, <2>1, ProcFacts
    <3>2. CASE \E e \in Unit : AbortDisk(e) BY <3>2, <1>2 DEF AbortDisk
    <3>3. CASE P2ClockShutdown BY <3>3, <1>1, ProcFacts DEF P2ClockShutdown
    <3> QED BY <2>2, <3>1, <3>2, <3>3 DEF P2_Startup
  <2>3. ASSUME NEW v \in User, SpawnStub(v) \/ ReturnsFromFunction(v) PROVE FALSE
    BY <2>3, <2>1, ProcFacts DEF SpawnStub, ReturnsFromFunction
  <2>4. ASSUME NEW v \in User, launch(v) PROVE FALSE
    <3>1. \E a : GoTo(v, a) BY <2>4 DEF launch
    <3> QED BY <3>1, <1>1, ProcFacts
  <2> QED BY <1>7, <2>2, <2>3, <2>4 DEF SpawnNext
<1> QED BY <1>3, <1>4, <1>5, <1>6, <1>7 DEF Next

\* No process has a request pending when a driver finds the list empty, for
\* any number of users and disks: phase2c.c:113.  It does not say that none is
\* pending once the driver sleeps: between the test and P1_Wait a request may
\* come, and its signal finds nobody.
THEOREM EmptyListIsTrue == Spec => EmptyListHasNoRequests
<1>1. ASSUME Phase2Inv, [Next]_vars, NEW d \in Unit, pc[d] = "next", pc'[d] = "sleep"
      PROVE  Requesting = {}
  <2>1. Next BY <1>1 DEF vars, clientVars
  <2>2. listSize < 1 BY <1>1, <2>1, SleepsOnEmptyList
  <2>3. Cardinality(Requesting) <= listSize /\ listSize \in Nat
    BY <1>1 DEF Phase2Inv, ListCoversRequests, DataOK
  <2>4. Cardinality(Requesting) = 0 BY <2>2, <2>3, RequestingFinite
  <2> QED BY <2>4, RequestingFinite, FS_EmptySet
<1>2. Phase2Inv /\ [Next]_vars
      => [\A d \in Unit : pc[d] = "next" /\ pc'[d] = "sleep" => Requesting = {}]_<<clientVars, diskVars>>
  BY <1>1
<1> QED BY <1>2, Phase2Invariance, PTL DEF Spec, EmptyListHasNoRequests

==============================================================================
