----------------------------- MODULE DeviceManager -----------------------------
(***************************************************************************)
(* device/manager: the registered devices of one type, the primary one,    *)
(* and deviceStates, the manager's own record of what is connected.        *)
(* Clients connect and disconnect devices while the health monitor thread  *)
(* compares the record with the drivers.                                   *)
(*                                                                         *)
(* Calls of a driver are made with mtx shared or not held at all, so the   *)
(* driver and the record change in separate steps.  Writing the record     *)
(* without the exclusive lock is a data race on the map; the model keeps   *)
(* its logical outcome only.  Metadata, events and statistics are left out.*)
(***************************************************************************)
EXTENDS Naturals, Sequences, SequencesExt

CONSTANTS Devices,      \* drivers of one type, each under its own name
          NoDevice,     \* no entry in primaryDevices
          Null,         \* an entry that is nullptr
          Clients,      \* threads that use the manager
          Controllers,  \* threads that start and stop the health monitor
          MaxRetries,   \* DeviceRetryConfig::maxRetries
          MaxDevices    \* bound: length of the device list

ASSUME DeviceAssumption ==
  /\ NoDevice \notin Devices /\ Null \notin Devices /\ NoDevice # Null
  /\ MaxRetries \in Nat /\ MaxDevices \in Nat

VARIABLES
  devices,         \* devices[type], in order of registration
  primary,         \* primaryDevices[type]
  state,           \* deviceStates: "none" without an entry, else isConnected
  driver,          \* what the drivers themselves say isConnected() is
  client,          \* the call a client is in
  running,         \* healthMonitorRunning
  monitor,         \* the thread of healthMonitorThread
  controller,      \* where a controller is
  terminated       \* std::terminate: a thread object was assigned while joinable

monitoring == <<running, monitor, controller, terminated>>
vars == <<devices, primary, state, driver, client, monitoring>>

Ops == {"connect", "disconnect", "connectAll", "disconnectAll", "refresh"}
Sweeps == {"connectAll", "disconnectAll", "refresh"}
Known == {"on", "off"}

\* a call about to use the driver ("act") or to write what it saw ("write")
Call(pc, op, d, tries, todo, seen) ==
  [pc |-> pc, op |-> op, dev |-> d, tries |-> tries, todo |-> todo, seen |-> seen]
Resting == Call("idle", "refresh", NoDevice, 0, {}, "off")
Thread(pc, d, todo, seen) == [pc |-> pc, dev |-> d, todo |-> todo, seen |-> seen]
NoThread == Thread("none", NoDevice, {}, "off")

Init ==
  /\ devices = <<>> /\ primary = NoDevice
  /\ state = [d \in Devices |-> "none"]
  /\ driver = [d \in Devices |-> "off"]
  /\ client = [c \in Clients |-> Resting]
  /\ running = FALSE /\ monitor = NoThread /\ terminated = FALSE
  /\ controller = [c \in Controllers |-> "idle"]

Registered == ToSet(devices)

Sweeping(c) == client[c].pc # "idle" /\ client[c].op \in Sweeps

\* mtx can be locked exclusively: no sweep over the devices holds it shared
Exclusive == /\ \A c \in Clients : ~Sweeping(c)
             /\ monitor.pc \notin {"sweep", "write"}

-----------------------------------------------------------------------------
(* Registration, under the exclusive lock. *)

\* an entry that became nullptr is an entry
PrimaryAfterAdd(d) == IF primary = NoDevice THEN d ELSE primary

AddDevice(d) ==
  /\ Exclusive /\ Len(devices) < MaxDevices
  /\ devices' = Append(devices, d)
  /\ primary' = PrimaryAfterAdd(d)
  /\ state' = [state EXCEPT ![d] = driver[d]]
  /\ UNCHANGED <<driver, client, monitoring>>

\* slip: the primary device is left alone
PrimaryKept(d, rest) == primary

PrimaryAfterRemoval(d, rest) ==
  IF primary # d THEN primary ELSE IF rest = <<>> THEN Null ELSE Head(rest)

\* removeDevice and removeDeviceByName: the first entry goes, after destroy()
RemoveDevice(d) ==
  LET rest == RemoveFirst(devices, d) IN
  /\ Exclusive /\ d \in Registered
  /\ devices' = rest
  /\ primary' = PrimaryAfterRemoval(d, rest)
  /\ driver' = [driver EXCEPT ![d] = "off"]
  /\ state' = [state EXCEPT ![d] = "none"]
  /\ UNCHANGED <<client, monitoring>>

RemoveAllDevicesOfType ==
  /\ Exclusive
  /\ devices' = <<>> /\ primary' = NoDevice
  /\ driver' = [d \in Devices |-> IF d \in Registered THEN "off" ELSE driver[d]]
  /\ state' = [d \in Devices |-> IF d \in Registered THEN "none" ELSE state[d]]
  /\ UNCHANGED <<client, monitoring>>

\* any device, registered or not, or nullptr
SetPrimaryDevice(d) ==
  /\ Exclusive
  /\ primary' = d
  /\ UNCHANGED <<devices, state, driver, client, monitoring>>

\* updateDeviceHealth, which makes an entry for whatever name it is given
UpdateDeviceHealth(d) ==
  /\ Exclusive
  /\ state' = [state EXCEPT ![d] = IF @ = "none" THEN "off" ELSE @]
  /\ UNCHANGED <<devices, primary, driver, client, monitoring>>

\* a device is plugged in or out, or the driver notices that it is gone
DriverChanges(d) ==
  /\ driver' = [driver EXCEPT ![d] = IF @ = "on" THEN "off" ELSE "on"]
  /\ UNCHANGED <<devices, primary, state, client, monitoring>>

-----------------------------------------------------------------------------
(* Calls that use a driver. *)

ClientUnchanged == UNCHANGED <<devices, primary, monitoring>>

\* the lookup of connectDeviceByName or disconnectDeviceByName
Begin(c, d) ==
  /\ client[c] = Resting
  /\ d \in Registered
  /\ \E op \in Ops \ Sweeps :
       client' = [client EXCEPT ![c] = Call("act", op, d, 0, {}, "off")]
  /\ UNCHANGED <<state, driver>> /\ ClientUnchanged

\* connectAllDevices, disconnectAllDevices and refreshDevices lock mtx shared
BeginSweep(c) ==
  /\ client[c] = Resting
  /\ devices # <<>>
  /\ \E op \in Sweeps, d \in Registered :
       client' = [client EXCEPT ![c] = Call("act", op, d, 0, Registered \ {d}, "off")]
  /\ UNCHANGED <<state, driver>> /\ ClientUnchanged

Acting(c, ops) == client[c].pc = "act" /\ client[c].op \in ops
ToWrite(c, seen) ==
  client' = [client EXCEPT ![c] = [@ EXCEPT !.pc = "write", !.seen = seen]]
Return(c) == client' = [client EXCEPT ![c] = Resting]

\* connect() succeeds
Connects(c) ==
  /\ Acting(c, {"connect"})
  /\ driver' = [driver EXCEPT ![client[c].dev] = "on"]
  /\ ToWrite(c, "on")
  /\ UNCHANGED state /\ ClientUnchanged

\* slip: one retry too many
LastTryLater(c) == client[c].tries > MaxRetries

LastTry(c) == client[c].tries >= MaxRetries

\* connect() returns false or throws
AttemptFails(c) ==
  /\ Acting(c, {"connect"})
  /\ IF LastTry(c) THEN Return(c)
     ELSE client' = [client EXCEPT ![c].tries = @ + 1]
  /\ UNCHANGED <<state, driver>> /\ ClientUnchanged

\* disconnect() returns false
DisconnectFails(c) ==
  /\ Acting(c, {"disconnect"})
  /\ Return(c)
  /\ UNCHANGED <<state, driver>> /\ ClientUnchanged

Disconnects(c) ==
  /\ Acting(c, {"disconnect"})
  /\ driver' = [driver EXCEPT ![client[c].dev] = "off"]
  /\ ToWrite(c, "off")
  /\ UNCHANGED state /\ ClientUnchanged

\* one device of a sweep; what connect() and disconnect() return is ignored
SweepActs(c) ==
  LET d == client[c].dev
      goal == IF client[c].op = "connectAll" THEN "on" ELSE "off" IN
  /\ Acting(c, Sweeps)
  /\ IF client[c].op = "refresh"
     THEN ToWrite(c, driver[d]) /\ UNCHANGED driver
     ELSE ToWrite(c, goal) /\ driver' \in {driver, [driver EXCEPT ![d] = goal]}
  /\ UNCHANGED state /\ ClientUnchanged

\* the next device of a sweep, or the end of the call
Proceed(c) ==
  \/ client[c].todo = {} /\ Return(c)
  \/ \E d \in client[c].todo :
       client' = [client EXCEPT ![c] =
         Call("act", client[c].op, d, 0, client[c].todo \ {d}, "off")]

\* a driver that throws leaves its state as it was
SweepThrows(c) ==
  /\ Acting(c, {"connectAll", "disconnectAll"})
  /\ Proceed(c)
  /\ UNCHANGED <<state, driver>> /\ ClientUnchanged

\* updateDeviceState, which makes an entry if there is none
UpdateDeviceState(c) ==
  /\ client[c].pc = "write"
  /\ state' = [state EXCEPT ![client[c].dev] = client[c].seen]
  /\ Proceed(c)
  /\ UNCHANGED driver /\ ClientUnchanged

-----------------------------------------------------------------------------
(* The health monitor. *)

ManagerUnchanged == UNCHANGED <<devices, primary, driver, client>>

StartHealthMonitor(c) ==
  /\ controller[c] = "idle" /\ ~running
  /\ running' = TRUE
  /\ controller' = [controller EXCEPT ![c] = "assign"]
  /\ UNCHANGED <<state, monitor, terminated>> /\ ManagerUnchanged

AssignThread(c) ==
  /\ controller[c] = "assign"
  /\ terminated' = (monitor # NoThread)
  /\ monitor' = Thread("wait", NoDevice, {}, "off")
  /\ controller' = [controller EXCEPT ![c] = "idle"]
  /\ UNCHANGED <<state, running>> /\ ManagerUnchanged

\* notify_all only hastens the end of a wait that has a timeout
StopHealthMonitor(c) ==
  /\ controller[c] = "idle" /\ running
  /\ running' = FALSE
  /\ controller' = [controller EXCEPT ![c] = "join"]
  /\ UNCHANGED <<state, monitor, terminated>> /\ ManagerUnchanged

JoinMonitor(c) ==
  /\ controller[c] = "join"
  /\ monitor.pc \in {"none", "gone"}
  /\ monitor' = NoThread
  /\ controller' = [controller EXCEPT ![c] = "idle"]
  /\ UNCHANGED <<state, running, terminated>> /\ ManagerUnchanged

MonitorUnchanged == UNCHANGED <<running, controller, terminated>> /\ ManagerUnchanged
MonitorAt(pc) == monitor' = Thread(pc, NoDevice, {}, "off")

\* slip: the flag is not looked at
WaitEndsUnchecked ==
  /\ monitor.pc = "wait"
  /\ monitor' = Thread("sweep", NoDevice, Registered, "off")
  /\ UNCHANGED state /\ MonitorUnchanged

\* the end of wait_for, by timeout or because of the flag, the test of the flag
\* after it and the lock; the test before the wait has the same outcome, and with
\* no device the monitor goes round without an effect
WaitEnds ==
  /\ monitor.pc = "wait" /\ (devices # <<>> \/ ~running)
  /\ monitor' = IF running THEN Thread("sweep", NoDevice, Registered, "off")
                           ELSE Thread("gone", NoDevice, {}, "off")
  /\ UNCHANGED state /\ MonitorUnchanged

CheckDevice ==
  /\ monitor.pc = "sweep"
  /\ \E d \in monitor.todo : monitor' = Thread("write", d, monitor.todo \ {d}, driver[d])
  /\ UNCHANGED state /\ MonitorUnchanged

AfterCheck == \/ monitor.todo = {} /\ MonitorAt("wait")
              \/ monitor.todo # {} /\ monitor' = [monitor EXCEPT !.pc = "sweep"]

\* slip: the difference is reported but not recorded
ReportState == AfterCheck /\ monitor.pc = "write" /\ UNCHANGED state /\ MonitorUnchanged

SyncState ==
  /\ monitor.pc = "write"
  /\ state' = [state EXCEPT ![monitor.dev] = monitor.seen]
  /\ AfterCheck
  /\ MonitorUnchanged

-----------------------------------------------------------------------------
ClientStep(c) == \/ Connects(c) \/ AttemptFails(c) \/ DisconnectFails(c) \/ Disconnects(c)
                 \/ SweepActs(c) \/ SweepThrows(c) \/ UpdateDeviceState(c)
ControllerStep(c) == AssignThread(c) \/ JoinMonitor(c)
MonitorStep == WaitEnds \/ CheckDevice \/ SyncState

Next ==
  /\ ~terminated
  /\ \/ \E d \in Devices : \/ AddDevice(d) \/ RemoveDevice(d)
                           \/ UpdateDeviceHealth(d) \/ DriverChanges(d)
     \/ \E d \in Devices \cup {Null} : SetPrimaryDevice(d)
     \/ RemoveAllDevicesOfType
     \/ \E c \in Clients : \/ \E d \in Devices : Begin(c, d)
                           \/ BeginSweep(c) \/ ClientStep(c)
     \/ \E c \in Controllers : \/ StartHealthMonitor(c) \/ StopHealthMonitor(c)
                               \/ ControllerStep(c)
     \/ MonitorStep

Spec == Init /\ [][Next]_vars

\* threads keep running and drivers answer
Fairness == /\ \A c \in Clients : WF_vars(ClientStep(c))
            /\ \A c \in Controllers : WF_vars(ControllerStep(c))
            /\ WF_vars(MonitorStep)
FairSpec == Spec /\ Fairness

-----------------------------------------------------------------------------
(* Properties *)

\* Types, and a connection is attempted at most maxRetries + 1 times.
TypeOK ==
  /\ devices \in Seq(Devices) /\ primary \in Devices \cup {NoDevice, Null}
  /\ state \in [Devices -> Known \cup {"none"}] /\ driver \in [Devices -> Known]
  /\ client \in [Clients -> [pc : {"idle", "act", "write"}, op : Ops,
       dev : Devices \cup {NoDevice}, tries : 0..MaxRetries, todo : SUBSET Devices,
       seen : Known]]
  /\ running \in BOOLEAN /\ terminated \in BOOLEAN
  /\ monitor \in [pc : {"none", "wait", "sweep", "write", "gone"},
       dev : Devices \cup {NoDevice}, todo : SUBSET Devices, seen : Known]
  /\ controller \in [Controllers -> {"idle", "assign", "join"}]

RemovalStep == \A d \in Devices : d \in Registered /\ d \notin Registered' => primary' # d

\* A device that is removed, by pointer, by name or with its whole type, does not stay
\* primary, whatever setPrimaryDevice had made primary before.
RemovedNotPrimary == [][RemovalStep]_vars

\* While the monitor runs, the record of a registered device comes to agree with
\* its driver, however calls that wrote a stale answer interleaved.
MonitorConverges ==
  \A d \in Devices :
    d \in Registered /\ running ~> state[d] = driver[d] \/ d \notin Registered \/ ~running

\* Every call returns, failing devices and the monitor's wait notwithstanding.
CallsReturn ==
  /\ \A c \in Clients : client[c].pc # "idle" ~> client[c].pc = "idle"
  /\ \A c \in Controllers : controller[c] # "idle" ~> controller[c] = "idle"
=============================================================================
