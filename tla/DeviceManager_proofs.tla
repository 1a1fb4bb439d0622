------------------------- MODULE DeviceManager_proofs -------------------------
(* Theorems about DeviceManager for any number of devices and clients, any       *)
(* length of the device list and any number of retries.                          *)
EXTENDS DeviceManager, ListLemmas

USE DEF vars, monitoring

-----------------------------------------------------------------------------
(* The primary device *)

\* The list holds devices.
ListInv == devices \in Seq(Devices)

\* Steps that are not about the registration leave devices and primary alone.
LEMMA RegistrationOnly ==
  ASSUME [Next]_vars
  PROVE  \/ UNCHANGED <<devices, primary>>
         \/ \E d \in Devices : AddDevice(d) \/ RemoveDevice(d)
         \/ \E d \in Devices \cup {Null} : SetPrimaryDevice(d)
         \/ RemoveAllDevicesOfType
<1>1. ASSUME NEW d \in Devices, UpdateDeviceHealth(d) \/ DriverChanges(d)
      PROVE  UNCHANGED <<devices, primary>>
  BY <1>1 DEF UpdateDeviceHealth, DriverChanges
<1>2. ASSUME NEW c \in Clients, \/ \E d \in Devices : Begin(c, d)
                                \/ BeginSweep(c) \/ ClientStep(c)
      PROVE  UNCHANGED <<devices, primary>>
  BY <1>2 DEF Begin, BeginSweep, ClientStep, Connects, AttemptFails, DisconnectFails,
     Disconnects, SweepActs, SweepThrows, UpdateDeviceState, ClientUnchanged
<1>3. ASSUME NEW c \in Controllers,
             StartHealthMonitor(c) \/ StopHealthMonitor(c) \/ ControllerStep(c)
      PROVE  UNCHANGED <<devices, primary>>
  BY <1>3 DEF StartHealthMonitor, StopHealthMonitor, ControllerStep, AssignThread,
     JoinMonitor, ManagerUnchanged
<1>4. CASE MonitorStep
  BY <1>4 DEF MonitorStep, WaitEnds, CheckDevice, SyncState, MonitorUnchanged,
     ManagerUnchanged
<1>5. CASE UNCHANGED vars
  BY <1>5
<1>q. QED
  BY <1>1, <1>2, <1>3, <1>4, <1>5 DEF Next

\* Every registration preserves ListInv and does what RemovedNotPrimary says.
LEMMA PrimaryStep ==
  ASSUME ListInv, [Next]_vars
  PROVE  /\ ListInv'
         /\ \A d \in Devices : d \in Registered /\ d \notin Registered' => primary' # d
<1> USE DeviceAssumption DEF ListInv
<1>1. CASE UNCHANGED <<devices, primary>>
  BY <1>1 DEF Registered
<1>2. ASSUME NEW d \in Devices, AddDevice(d)
      PROVE  ListInv' /\ Registered \subseteq Registered'
  <2>1. devices' = Append(devices, d) /\ primary' = PrimaryAfterAdd(d)
    BY <1>2 DEF AddDevice
  <2>2. devices' \in Seq(Devices)
    BY <2>1
  <2>3. ASSUME NEW e \in Registered PROVE e \in Registered'
    <3>1. PICK i \in 1..Len(devices) : devices[i] = e
      BY DEF Registered, ToSet
    <3>2. i \in DOMAIN devices' /\ devices'[i] = e
      BY <2>1, <3>1
    <3>3. QED
      BY <3>2 DEF Registered, ToSet
  <2>4. QED
    BY <2>2, <2>3
<1>3. ASSUME NEW e \in Devices, RemoveDevice(e)
      PROVE  /\ ListInv'
             /\ \A d \in Devices : d \in Registered /\ d \notin Registered' => primary' # d
  <2> DEFINE rest == RemoveFirst(devices, e)
  <2>1. e \in Registered /\ devices' = rest /\ primary' = PrimaryAfterRemoval(e, rest)
    BY <1>3 DEF RemoveDevice
  <2>2. rest \in Seq(Devices) /\ \A d \in Registered : d # e => d \in ToSet(rest)
    BY <2>1, OthersStay DEF Registered
  <2> HIDE DEF rest
  <2>4. rest # <<>> => Head(rest) \in Devices /\ Head(rest) \in ToSet(rest)
    <3>1. rest # <<>> => Head(rest) = rest[1] /\ 1 \in DOMAIN rest /\ rest[1] \in Devices
      BY <2>2
    <3>2. QED
      BY <3>1 DEF ToSet
  <2>5. ListInv'
    BY <2>1, <2>2
  <2>6. ASSUME NEW d \in Devices, d \in Registered, d \notin Registered' PROVE primary' # d
    <3>1. d = e /\ d \notin ToSet(rest)
      BY <2>1, <2>2, <2>6 DEF Registered
    <3>2. QED
      BY <2>1, <2>4, <3>1 DEF PrimaryAfterRemoval
  <2>7. QED
    BY <2>5, <2>6
<1>4. CASE RemoveAllDevicesOfType
  BY <1>4 DEF RemoveAllDevicesOfType
<1>5. ASSUME NEW d \in Devices \cup {Null}, SetPrimaryDevice(d)
      PROVE  ListInv' /\ Registered' = Registered
  BY <1>5 DEF SetPrimaryDevice, Registered
<1>q. QED
  BY RegistrationOnly, <1>1, <1>2, <1>3, <1>4, <1>5

\* A device that is removed does not stay primary, whatever addDevice, removeDevice,
\* setPrimaryDevice and the removal of all devices of a type did before, for lists of
\* any length in which a device may stand more than once.
THEOREM PrimaryNeverStale == Spec => RemovedNotPrimary
<1>1. Init => ListInv
  BY DEF Init, ListInv
<1>2. ListInv /\ [Next]_vars => ListInv'
  BY PrimaryStep
<1>3. ListInv /\ [Next]_vars => RemovalStep
  BY PrimaryStep DEF RemovalStep
<1>4. QED
  BY <1>1, <1>2, <1>3, PTL DEF Spec, RemovedNotPrimary

-----------------------------------------------------------------------------
(* Types and the bound on retries *)

\* What client[c] may be: a call that has begun is about a device.
CallType ==
  {r \in [pc : {"idle", "act", "write"}, op : Ops, dev : Devices \cup {NoDevice},
          tries : 0..MaxRetries, todo : SUBSET Devices, seen : Known] :
     r.pc # "idle" => r.dev \in Devices}
ClientInv == client \in [Clients -> CallType]

\* The records that the steps of a call make of it.
LEMMA CallRecords ==
  ASSUME NEW r \in CallType
  PROVE  /\ Resting \in CallType
         /\ r.pc # "idle" => \A v \in Known : [r EXCEPT !.pc = "write", !.seen = v] \in CallType
         /\ r.tries < MaxRetries => [r EXCEPT !.tries = @ + 1] \in CallType
         /\ \A d \in r.todo : Call("act", r.op, d, 0, r.todo \ {d}, "off") \in CallType
<1> USE DeviceAssumption DEF CallType, Known
<1>1. Resting \in CallType
  BY DEF Resting, Call, Ops
<1>2. r.pc # "idle" => \A v \in Known : [r EXCEPT !.pc = "write", !.seen = v] \in CallType
  OBVIOUS
<1>3. r.tries < MaxRetries => [r EXCEPT !.tries = @ + 1] \in CallType
  OBVIOUS
<1>4. \A d \in r.todo : Call("act", r.op, d, 0, r.todo \ {d}, "off") \in CallType
  BY DEF Call
<1>5. QED
  BY <1>1, <1>2, <1>3, <1>4

\* The record of a new call.
LEMMA NewCall ==
  \A op \in Ops, d \in Devices, todo \in SUBSET Devices :
    Call("act", op, d, 0, todo, "off") \in CallType
BY DeviceAssumption DEF Call, CallType, Known

\* A step of a call that leaves its record well formed, and writes what was seen.
LEMMA CallTypeStep ==
  ASSUME TypeOK, ClientInv, NEW c \in Clients, NEW r \in CallType,
         client' = [client EXCEPT ![c] = r], ClientUnchanged,
         state' \in [Devices -> Known \cup {"none"}], driver' \in [Devices -> Known]
  PROVE  TypeOK' /\ ClientInv'
<1>1. ClientInv'
  BY DEF ClientInv
<1>2. QED
  BY <1>1 DEF TypeOK, ClientInv, CallType, ClientUnchanged

\* Every operation keeps the types; a connection is attempted at most maxRetries + 1
\* times.
LEMMA TypeStep ==
  ASSUME TypeOK, ClientInv, [Next]_vars PROVE TypeOK' /\ ClientInv'
<1> USE DeviceAssumption DEF TypeOK, Ops, Sweeps, Known, Call, Resting, Thread, NoThread,
        ClientUnchanged, ManagerUnchanged, MonitorUnchanged, Acting, ToWrite, Return
<1>r. Registered \subseteq Devices
  BY DEF Registered, ToSet
<1>c. \A c \in Clients : client[c] \in CallType
  BY DEF ClientInv
<1>1. ASSUME NEW d \in Devices, AddDevice(d) PROVE TypeOK' /\ UNCHANGED client
  <2>1. devices' \in Seq(Devices)
    BY <1>1 DEF AddDevice
  <2>2. primary' \in Devices \cup {NoDevice, Null}
    BY <1>1 DEF AddDevice, PrimaryAfterAdd
  <2>3. QED
    BY <1>1, <2>1, <2>2 DEF AddDevice
<1>2. ASSUME NEW d \in Devices, RemoveDevice(d) PROVE TypeOK' /\ UNCHANGED client
  <2> DEFINE rest == RemoveFirst(devices, d)
  <2>1. rest \in Seq(Devices)
    BY <1>2, OthersStay DEF RemoveDevice, Registered
  <2> HIDE DEF rest
  <2>2. rest # <<>> => Head(rest) \in Devices
    BY <2>1
  <2>3. devices' = rest /\ primary' = PrimaryAfterRemoval(d, rest)
        /\ driver' = [driver EXCEPT ![d] = "off"] /\ state' = [state EXCEPT ![d] = "none"]
        /\ UNCHANGED <<client, monitoring>>
    BY <1>2 DEF RemoveDevice, rest
  <2>4. QED
    BY <2>1, <2>2, <2>3 DEF PrimaryAfterRemoval
<1>3. ASSUME NEW d \in Devices, UpdateDeviceHealth(d) \/ DriverChanges(d)
      PROVE  TypeOK' /\ UNCHANGED client
  <2>1. CASE UpdateDeviceHealth(d)
    BY <2>1 DEF UpdateDeviceHealth
  <2>2. CASE DriverChanges(d)
    BY <2>2 DEF DriverChanges
  <2>3. QED
    BY <1>3, <2>1, <2>2
<1>4. ASSUME NEW d \in Devices \cup {Null}, SetPrimaryDevice(d)
      PROVE  TypeOK' /\ UNCHANGED client
  BY <1>4 DEF SetPrimaryDevice
<1>5. CASE RemoveAllDevicesOfType
  BY <1>5 DEF RemoveAllDevicesOfType, ClientInv
<1>6. ASSUME NEW c \in Clients, NEW d \in Devices, Begin(c, d) PROVE TypeOK' /\ ClientInv'
  <2> HIDE DEF ClientUnchanged, Resting, Call
  <2>1. PICK r \in CallType : client' = [client EXCEPT ![c] = r]
    <3>1. PICK op \in Ops : client' = [client EXCEPT ![c] = Call("act", op, d, 0, {}, "off")]
      BY <1>6 DEF Begin
    <3>2. QED
      BY <3>1, NewCall
  <2>2. UNCHANGED <<state, driver>> /\ ClientUnchanged
    BY <1>6 DEF Begin
  <2>3. QED
    BY <2>1, <2>2, CallTypeStep
<1>7. ASSUME NEW c \in Clients, BeginSweep(c) PROVE TypeOK' /\ ClientInv'
  <2> HIDE DEF ClientUnchanged, Resting, Call
  <2>1. PICK r \in CallType : client' = [client EXCEPT ![c] = r]
    <3>1. PICK op \in Ops, d \in Registered :
            client' = [client EXCEPT ![c] = Call("act", op, d, 0, Registered \ {d}, "off")]
      BY <1>7 DEF BeginSweep
    <3>2. Registered \ {d} \in SUBSET Devices /\ d \in Devices
      BY <1>r
    <3>3. QED
      BY <3>1, <3>2, NewCall
  <2>2. UNCHANGED <<state, driver>> /\ ClientUnchanged
    BY <1>7 DEF BeginSweep
  <2>3. QED
    BY <2>1, <2>2, CallTypeStep
<1>8. ASSUME NEW c \in Clients, Connects(c) \/ Disconnects(c) \/ DisconnectFails(c)
      PROVE  TypeOK' /\ ClientInv'
  <2> HIDE DEF ClientUnchanged, Resting, Call
  <2>1. PICK r \in CallType : client' = [client EXCEPT ![c] = r]
    BY <1>8, <1>c, CallRecords DEF Connects, Disconnects, DisconnectFails
  <2>2. driver' \in [Devices -> Known] /\ state' = state /\ ClientUnchanged
    BY <1>8 DEF Connects, Disconnects, DisconnectFails
  <2>3. QED
    BY <2>1, <2>2, CallTypeStep
<1>9. ASSUME NEW c \in Clients, AttemptFails(c) PROVE TypeOK' /\ ClientInv'
  <2> HIDE DEF ClientUnchanged, Resting, Call
  <2>1. ~LastTry(c) => client[c].tries < MaxRetries
    BY DEF LastTry
  <2>2. PICK r \in CallType : client' = [client EXCEPT ![c] = r]
    <3>1. CASE LastTry(c)
      BY <1>9, <1>c, <3>1, CallRecords DEF AttemptFails
    <3>2. CASE ~LastTry(c)
      <4>1. client' = [client EXCEPT ![c] = [client[c] EXCEPT !.tries = client[c].tries + 1]]
        BY <1>9, <3>2 DEF AttemptFails
      <4>2. [client[c] EXCEPT !.tries = client[c].tries + 1] \in CallType
        BY <1>c, <2>1, <3>2, CallRecords
      <4>3. QED
        BY <4>1, <4>2
    <3>3. QED
      BY <3>1, <3>2
  <2>3. UNCHANGED <<state, driver>> /\ ClientUnchanged
    BY <1>9 DEF AttemptFails
  <2>4. QED
    BY <2>2, <2>3, CallTypeStep
<1>10. ASSUME NEW c \in Clients, SweepActs(c) PROVE TypeOK' /\ ClientInv'
  <2> HIDE DEF ClientUnchanged, Resting, Call
  <2>1. PICK r \in CallType : client' = [client EXCEPT ![c] = r]
    <3>1. \E v \in Known : ToWrite(c, v)
      <4>1. CASE client[c].op = "refresh"
        <5>1. client[c].dev \in Devices
          BY <1>10, <1>c DEF SweepActs, CallType
        <5>2. QED
          BY <1>10, <4>1, <5>1 DEF SweepActs
      <4>2. CASE client[c].op # "refresh"
        BY <1>10, <4>2 DEF SweepActs
      <4>3. QED
        BY <4>1, <4>2
    <3>2. QED
      BY <1>10, <3>1, <1>c, CallRecords DEF SweepActs
  <2>2. driver' \in [Devices -> Known] /\ state' = state /\ ClientUnchanged
    BY <1>10 DEF SweepActs
  <2>3. QED
    BY <2>1, <2>2, CallTypeStep
<1>11. ASSUME NEW c \in Clients, SweepThrows(c) \/ UpdateDeviceState(c)
       PROVE  TypeOK' /\ ClientInv'
  <2> HIDE DEF ClientUnchanged, Resting, Call
  <2>1. Proceed(c) /\ ClientUnchanged /\ driver' = driver
    BY <1>11 DEF SweepThrows, UpdateDeviceState
  <2>2. PICK r \in CallType : client' = [client EXCEPT ![c] = r]
    BY <2>1, <1>c, CallRecords DEF Proceed
  <2>3. state' \in [Devices -> Known \cup {"none"}]
    BY <1>11 DEF SweepThrows, UpdateDeviceState
  <2>4. QED
    BY <2>1, <2>2, <2>3, CallTypeStep
<1>12. ASSUME NEW c \in Controllers, StartHealthMonitor(c) \/ StopHealthMonitor(c)
       PROVE  TypeOK' /\ UNCHANGED client
  <2>1. CASE StartHealthMonitor(c)
    BY <2>1 DEF StartHealthMonitor
  <2>2. CASE StopHealthMonitor(c)
    BY <2>2 DEF StopHealthMonitor
  <2>3. QED
    BY <1>12, <2>1, <2>2
<1>13. ASSUME NEW c \in Controllers, AssignThread(c) PROVE TypeOK' /\ UNCHANGED client
  BY <1>13 DEF AssignThread
<1>14. ASSUME NEW c \in Controllers, JoinMonitor(c) PROVE TypeOK' /\ UNCHANGED client
  BY <1>14 DEF JoinMonitor
<1>15. CASE WaitEnds
  <2>1. monitor' \in [pc : {"none", "wait", "sweep", "write", "gone"},
          dev : Devices \cup {NoDevice}, todo : SUBSET Devices, seen : Known]
    BY <1>15, <1>r DEF WaitEnds
  <2>2. UNCHANGED <<devices, primary, driver, client, state, running, terminated, controller>>
    BY <1>15 DEF WaitEnds
  <2>3. QED
    BY <2>1, <2>2 DEF ClientInv
<1>16. CASE CheckDevice
  <2>1. PICK d \in monitor.todo :
          monitor' = [pc |-> "write", dev |-> d, todo |-> monitor.todo \ {d}, seen |-> driver[d]]
    BY <1>16 DEF CheckDevice
  <2>2. d \in Devices /\ monitor.todo \ {d} \in SUBSET Devices /\ driver[d] \in Known
    BY <2>1
  <2>3. monitor' \in [pc : {"none", "wait", "sweep", "write", "gone"},
          dev : Devices \cup {NoDevice}, todo : SUBSET Devices, seen : Known]
    BY <2>1, <2>2
  <2>4. UNCHANGED <<devices, primary, driver, client, state, running, terminated, controller>>
    BY <1>16 DEF CheckDevice
  <2>5. QED
    BY <2>3, <2>4 DEF ClientInv
<1>17. CASE SyncState
  <2>1. state' \in [Devices -> Known \cup {"none"}]
    BY <1>17 DEF SyncState
  <2>2. CASE monitor.todo = {}
    <3>1. monitor' = Thread("wait", NoDevice, {}, "off")
      BY <1>17, <2>2 DEF SyncState, AfterCheck, MonitorAt
    <3>2. QED
      BY <1>17, <2>1, <3>1 DEF SyncState, ClientInv
  <2>3. CASE monitor.todo # {}
    <3>1. monitor' = [monitor EXCEPT !.pc = "sweep"]
      BY <1>17, <2>3 DEF SyncState, AfterCheck
    <3>2. QED
      BY <1>17, <2>1, <3>1 DEF SyncState, ClientInv
  <2>4. QED
    BY <2>2, <2>3
<1>18. CASE UNCHANGED vars
  BY <1>18 DEF ClientInv
<1>q. QED
  BY <1>1, <1>2, <1>3, <1>4, <1>5, <1>6, <1>7, <1>8, <1>9, <1>10, <1>11, <1>12, <1>13,
     <1>14, <1>15, <1>16, <1>17, <1>18
     DEF Next, ClientStep, ControllerStep, MonitorStep, ClientInv

\* Types for any number of devices and threads, and at most maxRetries + 1 attempts to
\* connect a device.
THEOREM Typing == Spec => []TypeOK
<1>1. Init => TypeOK /\ ClientInv
  <2> SUFFICES ASSUME Init PROVE TypeOK /\ ClientInv
    OBVIOUS
  <2>1. Resting \in CallType
    BY DeviceAssumption DEF Resting, Call, CallType, Ops, Known
  <2>2. ClientInv
    BY <2>1 DEF Init, ClientInv
  <2>3. running \in BOOLEAN /\ terminated \in BOOLEAN
    BY Zenon DEF Init
  <2>4. monitor \in [pc : {"none", "wait", "sweep", "write", "gone"},
          dev : Devices \cup {NoDevice}, todo : SUBSET Devices, seen : Known]
    BY DEF Init, NoThread, Thread, Known
  <2>5. /\ devices \in Seq(Devices) /\ primary \in Devices \cup {NoDevice, Null}
        /\ state \in [Devices -> Known \cup {"none"}] /\ driver \in [Devices -> Known]
        /\ controller \in [Controllers -> {"idle", "assign", "join"}]
    BY DEF Init, Known
  <2>6. QED
    BY <2>2, <2>3, <2>4, <2>5 DEF TypeOK, ClientInv, CallType
<1>2. QED
  BY <1>1, TypeStep, PTL DEF Spec
=============================================================================
