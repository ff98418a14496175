------------------------------ MODULE RelayBus ------------------------------
(***************************************************************************)
(* The relay bus: the queues of src/src/engine/ModbusController.cpp        *)
(* between the relay bytes that the engine's tick computes (driveRelays in *)
(* src/src/EngineRuntime.cpp) and the WaveShare modules.  One request is   *)
(* on the wire at a time; writes go first, then the polls of the inputs,   *)
(* then those of the relays; a newer write of a module replaces the one    *)
(* that waits.  The engine writes a byte only when it differs from the     *)
(* last one it wrote, and forgets what it wrote when the port is reopened. *)
(*                                                                         *)
(* External: Qt's serial client.  It answers each request or reports its   *)
(* failure, and closing it fails the request on the wire.                  *)
(***************************************************************************)
EXTENDS Integers, Sequences, FiniteSets, SequencesExt, Queues

CONSTANTS
  ModuleCount,               \* WaveShare modules of the configuration
  Bytes,                     \* relay bytes the tick may compute
  OfflineFailureThreshold    \* busOfflineFailureThreshold

ASSUME BusAssumption ==
  /\ ModuleCount \in Nat \ {0}
  /\ Bytes \subseteq 0..255
  /\ OfflineFailureThreshold \in Nat \ {0}

VARIABLES
  connected,     \* isConnected(): the client holds the port open
  bus,           \* [outstanding, high, normal, low]: m_busy's request and the queues
  lastRelayBytes,\* m_lastRelayBytes: the byte last written, or Forgotten
  failures,      \* consecutiveFailures, counted to the threshold
  online,        \* the bus monitor's online
  commanded,     \* the byte the last tick computed for each module (not in the code)
  relays,        \* what the module's relays really are (external)
  missed         \* modules whose last write failed (not in the code)

vars == <<connected, bus, lastRelayBytes, failures, online, commanded, relays, missed>>

Modules == 1..ModuleCount

Forgotten == -1

\* m_lastRelayBytes.value(module, 0xFF).
Known(m) == IF lastRelayBytes[m] = Forgotten THEN 255 ELSE lastRelayBytes[m]

\* Faulty: the coils are inverted.
WriteInverted(m, b) == [type |-> "WriteCoils8", module |-> m, bits |-> 255 - b]

Write(m, b)   == [type |-> "WriteCoils8", module |-> m, bits |-> b]
ReadInputs(m) == [type |-> "ReadInputs", module |-> m, bits |-> 0]
ReadCoils(m)  == [type |-> "ReadCoils", module |-> m, bits |-> 0]

Requests == {Write(m, b) : m \in Modules, b \in Bytes}
            \cup {ReadInputs(m) : m \in Modules} \cup {ReadCoils(m) : m \in Modules}

Nothing == [type |-> "None"]

EmptyBus == [outstanding |-> Nothing, high |-> <<>>, normal |-> <<>>, low |-> <<>>]
-----------------------------------------------------------------------------
(* Queues.                                                                 *)

\* Faulty: the polls overtake the writes.
NormalFirst(b) ==
  IF b.normal # <<>> THEN "normal" ELSE IF b.high # <<>> THEN "high" ELSE "low"

\* The queue that pump() serves.
Urgent(b) ==
  IF b.high # <<>> THEN "high" ELSE IF b.normal # <<>> THEN "normal" ELSE "low"

\* pump(): the next request goes out when the port is open and none is out.
Pump(b, open) ==
  LET queue == Urgent(b)
  IN  IF open /\ b.outstanding = Nothing /\ b[queue] # <<>>
      THEN [b EXCEPT !.outstanding = Head(b[queue]), ![queue] = Tail(b[queue])]
      ELSE b

\* Faulty: the newer write queues up behind the older one.
WithEveryWrite(queue, request) == Append(queue, request)

\* The requests for the modules other than m.
OfOthers == [m \in Modules |-> {r \in Requests : r.module # m}]

\* What is left of a queue when the requests for a module are erased.
Without(queue, m) == Select(queue, OfOthers[m])

\* enqueue() of a write, at high priority: it replaces the one that waits for
\* the same module.
WithWrite(queue, request) == Append(Without(queue, request.module), request)

\* Faulty: a poll is queued again while it waits.
WithEveryPoll(queue, request) == Append(queue, request)

\* enqueue() of a poll: one that waits already is not queued again.
WithPoll(queue, request) == IF Contains(queue, request) THEN queue ELSE Append(queue, request)

Enqueue(b, request) ==
  CASE request.type = "WriteCoils8" ->
         Pump([b EXCEPT !.high = WithWrite(b.high, request)], connected)
    [] request.type = "ReadInputs" ->
         Pump([b EXCEPT !.normal = WithPoll(b.normal, request)], connected)
    [] request.type = "ReadCoils" ->
         Pump([b EXCEPT !.low = WithPoll(b.low, request)], connected)

EnqueueAll(b, requests) == FoldLeft(Enqueue, b, requests)
-----------------------------------------------------------------------------
(* The bus monitor.                                                        *)

MarkSuccess == failures' = 0 /\ online' = TRUE

Failed(n) == IF n < OfflineFailureThreshold THEN n + 1 ELSE n

\* Faulty: the failures are counted and nothing follows.
MarkFailureOnly ==
  /\ failures' = Failed(failures)
  /\ online' = online

MarkFailure ==
  /\ failures' = Failed(failures)
  /\ online' = (online /\ Failed(failures) < OfflineFailureThreshold)
-----------------------------------------------------------------------------
(* The engine's tick.                                                      *)

\* Faulty: what was written before the port was lost counts as written.
RememberWhenReopened == lastRelayBytes

ForgetWhenReopened == [m \in Modules |-> Forgotten]

\* driveRelays() with the bytes the tick computed, in the order of a hash.
DriveRelays(bytes) ==
  LET changed == {m \in Modules : Known(m) # bytes[m]}
  IN  /\ commanded' = bytes
      /\ \E order \in SetToSeqs(changed) :
           bus' = EnqueueAll(bus, [i \in DOMAIN order |-> Write(order[i], bytes[order[i]])])
      /\ lastRelayBytes' = [m \in Modules |-> IF m \in changed THEN bytes[m]
                                              ELSE lastRelayBytes[m]]
      /\ UNCHANGED <<connected, failures, online, relays, missed>>
-----------------------------------------------------------------------------
(* The controller's scheduler and its client.                              *)

\* m_pollTasks: the tasks of one interval were started at the same instant and
\* fall due together.
InputPolls == [m \in Modules |-> ReadInputs(m)]
RelayPolls == [m \in Modules |-> ReadCoils(m)]

\* pollTick() of an open port: the tasks that are due are queued.
PollTick(due) ==
  /\ connected
  /\ bus' = EnqueueAll(bus, due)
  /\ UNCHANGED <<connected, lastRelayBytes, failures, online, commanded, relays, missed>>

\* The port opens; what was queued while it was closed is still queued.
Connect ==
  /\ ~connected
  /\ connected' = TRUE
  /\ lastRelayBytes' = ForgetWhenReopened
  /\ MarkSuccess
  /\ UNCHANGED <<bus, commanded, relays, missed>>

\* The port does not open: the client falls back to unconnected, the queues
\* are cleared and the bus monitor, reset by the error, counts one failure.
ConnectFails ==
  /\ ~connected
  /\ bus' = EmptyBus
  /\ failures' = Failed(0)
  /\ online' = FALSE
  /\ UNCHANGED <<connected, lastRelayBytes, commanded, relays, missed>>

\* handleRequestSuccess, finishRequest.
Answer ==
  LET r == bus.outstanding
      written == r.type = "WriteCoils8"
  IN  /\ r # Nothing
      /\ bus' = Pump([bus EXCEPT !.outstanding = Nothing], TRUE)
      /\ relays' = IF written THEN [relays EXCEPT ![r.module] = r.bits] ELSE relays
      /\ missed' = IF written THEN missed \ {r.module} ELSE missed
      /\ MarkSuccess
      /\ UNCHANGED <<connected, lastRelayBytes, commanded>>

\* handleRequestFailure, finishRequest: an error or no answer in time; a write
\* may have reached the module all the same.  Nothing is sent again.
Timeout(reached) ==
  LET r == bus.outstanding
      written == r.type = "WriteCoils8"
  IN  /\ r # Nothing
      /\ bus' = Pump([bus EXCEPT !.outstanding = Nothing], TRUE)
      /\ relays' = IF written /\ reached THEN [relays EXCEPT ![r.module] = r.bits] ELSE relays
      /\ missed' = IF written THEN missed \cup {r.module} ELSE missed
      /\ MarkFailure
      /\ UNCHANGED <<connected, lastRelayBytes, commanded>>

\* The port is lost: the monitor is reset, the request on the wire fails, the
\* queues are cleared.
ConnectionLost(reached) ==
  LET r == bus.outstanding
      written == r # Nothing /\ r.type = "WriteCoils8"
  IN  /\ connected
      /\ connected' = FALSE
      /\ bus' = EmptyBus
      /\ relays' = IF written /\ reached THEN [relays EXCEPT ![r.module] = r.bits] ELSE relays
      /\ missed' = IF written THEN missed \cup {r.module} ELSE missed
      /\ failures' = IF r # Nothing THEN Failed(0) ELSE 0
      /\ online' = FALSE
      /\ UNCHANGED <<lastRelayBytes, commanded>>
-----------------------------------------------------------------------------
Init ==
  /\ connected = FALSE
  /\ bus = EmptyBus
  /\ lastRelayBytes = [m \in Modules |-> Forgotten]
  /\ failures = 0
  /\ online = FALSE
  /\ commanded = [m \in Modules |-> Forgotten]
  /\ relays \in [Modules -> Bytes]
  /\ missed = {}

Next ==
  \/ \E bytes \in [Modules -> Bytes] : DriveRelays(bytes)
  \/ \E due \in {InputPolls, RelayPolls, InputPolls \o RelayPolls} : PollTick(due)
  \/ Connect \/ ConnectFails
  \/ Answer
  \/ \E reached \in BOOLEAN : Timeout(reached) \/ ConnectionLost(reached)

Spec == Init /\ [][Next]_vars

\* The tick's timer and the scheduler's keep running, and Qt's client finishes
\* every request.
FairSpec ==
  /\ Spec
  /\ WF_vars(\E bytes \in [Modules -> Bytes] : DriveRelays(bytes))
  /\ WF_vars(PollTick(InputPolls))
  /\ WF_vars(Answer \/ \E reached \in BOOLEAN : Timeout(reached))
-----------------------------------------------------------------------------
(* Properties.                                                             *)

\* Every variable has its type.
TypeOK ==
  /\ connected \in BOOLEAN
  /\ bus.outstanding \in Requests \cup {Nothing}
  /\ bus.high \in Seq(Requests) /\ bus.normal \in Seq(Requests) /\ bus.low \in Seq(Requests)
  /\ lastRelayBytes \in [Modules -> Bytes \cup {Forgotten}]
  /\ failures \in 0..OfflineFailureThreshold
  /\ online \in BOOLEAN
  /\ commanded \in [Modules -> Bytes \cup {Forgotten}]
  /\ relays \in [Modules -> Bytes]
  /\ missed \subseteq Modules

\* However long the port is closed or the modules are silent, no queue holds
\* two requests that mean the same: one write for each module, one poll of
\* each kind for each.
QueuesStayShort ==
  \A queue \in {bus.high, bus.normal, bus.low} :
    \A i, j \in DOMAIN queue : queue[i].module = queue[j].module => i = j

\* docs/modbus.md: stale states are not sent; a write that waits carries the
\* byte the last tick computed for its module.
QueuedWriteIsLatest ==
  \A i \in DOMAIN bus.high : bus.high[i].bits = commanded[bus.high[i].module]

\* When no write for a module waits or is on the wire, and its last write was
\* answered, its relays are what the engine believes it has written since the
\* port was opened.
WrittenIsApplied ==
  \A m \in Modules :
    \/ lastRelayBytes[m] = Forgotten
    \/ m \in missed
    \/ ~connected
    \/ \E r \in {bus.outstanding} \cup Range(bus.high) : r # Nothing /\ r.type = "WriteCoils8" /\ r.module = m
    \/ relays[m] = lastRelayBytes[m]

\* No poll goes out while a write waits: a relay command waits for at most the
\* request that is on the wire.
WritesGoFirst ==
  [][bus'.outstanding # bus.outstanding /\ bus'.outstanding \notin {Nothing}
     /\ bus'.outstanding.type # "WriteCoils8" => bus'.high = <<>>]_vars

\* Once the tick keeps computing the same byte for a module, the port stays
\* open and no write of the module fails, its relays take that byte for good,
\* whatever the bytes of the other modules do and however many polls wait.
RelaysFollow ==
  \A m \in Modules, b \in Bytes :
    <>[](commanded[m] = b /\ connected /\ m \notin missed) => <>[](relays[m] = b)

\* The monitor calls the bus online only when the port is open and the last
\* failures in a row are fewer than the threshold.
OnlineIsEarned ==
  online => connected /\ failures < OfflineFailureThreshold
=============================================================================
