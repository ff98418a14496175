---------------------------- MODULE MeteringBus ----------------------------
(***************************************************************************)
(* The metering bus: src/src/engine/MeteringBusController.cpp polls the    *)
(* meters and the battery over one serial line, one request at a time, and *)
(* publishes the answers; src/src/EngineRuntime.cpp keeps the last ones    *)
(* (setupMeteringBus).  An answer is taken for the request that is out now *)
(* if its shape fits: the address, the function and the number of          *)
(* registers, or the battery's command.  Where a value comes from is what  *)
(* the module keeps of it.                                                 *)
(*                                                                         *)
(* External: the devices and the serial line.  A device answers each       *)
(* request it hears at most once, in order, correctly or with a refusal,   *)
(* and perhaps later than the controller waits.                            *)
(***************************************************************************)
EXTENDS Integers, Sequences, SequencesExt, Queues

CONSTANTS
  Polled,                  \* the requests of m_pollTasks
  OfflineFailureThreshold, \* busOfflineFailureThreshold
  Grace,                   \* AmcPowerNoResponseGraceMs, in steps of time
  MaxAnswersDue            \* bound: answers still to come at once

\* The branch meter's three blocks have one address and one length.
Shape == [Adl |-> "Adl", AmcPower |-> "Amc", AmcVoltage |-> "Amc", AmcCurrent |-> "Amc",
          Asj |-> "Asj", Whd |-> "Whd", BmsBasic |-> "BmsBasic", BmsCells |-> "BmsCells"]

AllRequests == <<"Adl", "AmcPower", "AmcVoltage", "AmcCurrent", "Asj", "Whd", "BmsBasic", "BmsCells">>

\* The tasks of m_pollTasks that may fall due together, in their order.
DueTogether == {Select(AllRequests, due) : due \in (SUBSET Polled) \ {{}}}

ASSUME MeteringAssumption ==
  /\ Polled \subseteq DOMAIN Shape
  /\ OfflineFailureThreshold \in Nat \ {0}
  /\ Grace \in Nat \ {0}
  /\ MaxAnswersDue \in Nat \ {0}

VARIABLES
  open,        \* isConnected()
  queue,       \* m_queue
  current,     \* m_currentRequest while m_busy, or NoRequest
  gap,         \* m_interRequestTimer runs
  wire,        \* requests whose answers may still come (external)
  failures,    \* m_requestFailures, counted to the threshold
  bus,         \* the bus monitor: [failures, online]
  amcElapsed,  \* m_lastAmcPowerResponse, or Invalid
  shown,       \* whose registers the engine holds as each request's values
  powerAge,    \* the age of the powers shown (not in the code)
  tried        \* was the power asked for since the last step of time (not in the code)

vars == <<open, queue, current, gap, wire, failures, bus, amcElapsed, shown, powerAge, tried>>

NoRequest == "NoRequest"
NoAnswer  == "NoAnswer"
Invalid   == -1

Waiting == {queue[i] : i \in DOMAIN queue}

Capped(n, limit) == IF n < limit THEN n ELSE limit
-----------------------------------------------------------------------------
(* The bus monitor.                                                        *)

Online == [failures |-> 0, online |-> TRUE]

MarkFailure(b) ==
  LET n == Capped(b.failures + 1, OfflineFailureThreshold)
  IN  [failures |-> n, online |-> b.online /\ n < OfflineFailureThreshold]
-----------------------------------------------------------------------------
(* Success and failure of a request.                                       *)

\* Faulty: any answer of the branch meter restarts the wait.
ElapsedAfterAnswer(r) == IF Shape[r] = "Amc" THEN 0 ELSE amcElapsed

ElapsedAfterSuccess(r) == IF r = "AmcPower" THEN 0 ELSE amcElapsed

\* Faulty: an answer clears the failures of all requests.
FailuresCleared(r) == [q \in Polled |-> 0]

FailuresAfterSuccess(r) == [failures EXCEPT ![r] = 0]

\* handleCurrentResponse of a good answer, which `from' gave.
Succeed(r, from) ==
  /\ failures' = FailuresAfterSuccess(r)
  /\ bus' = Online
  /\ amcElapsed' = ElapsedAfterSuccess(r)
  /\ shown' = [shown EXCEPT ![r] = from]
  /\ powerAge' = IF r = "AmcPower" THEN 0 ELSE powerAge
  /\ tried' = (tried \/ r = "AmcPower")

\* invalidateRequest: without the basic values there is no battery at all.
Forget(r) ==
  [q \in Polled |-> IF q = r \/ <<r, q>> = <<"BmsBasic", "BmsCells">> THEN NoAnswer ELSE shown[q]]

\* The wait for a power begins with the first failure.
ElapsedAfterFailure(r) == IF r = "AmcPower" /\ amcElapsed = Invalid THEN 0 ELSE amcElapsed

\* Powers outlive the failures for a while, other values a number of them.
Forgets(r) ==
  IF r = "AmcPower" THEN ElapsedAfterFailure(r) >= Grace
  ELSE failures[r] + 1 >= OfflineFailureThreshold

\* handleRequestFailure.
Fail(r) ==
  /\ failures' = [failures EXCEPT ![r] = Capped(@ + 1, OfflineFailureThreshold)]
  /\ bus' = MarkFailure(bus)
  /\ amcElapsed' = ElapsedAfterFailure(r)
  /\ shown' = IF Forgets(r) THEN Forget(r) ELSE shown
  /\ powerAge' = IF Forgets(r) /\ r = "AmcPower" THEN 0 ELSE powerAge
  /\ tried' = (tried \/ r = "AmcPower")

NoResult == UNCHANGED <<failures, bus, amcElapsed, shown, powerAge, tried>>

\* finishCurrentRequest.
Finish ==
  /\ current' = NoRequest
  /\ gap' = TRUE
-----------------------------------------------------------------------------
(* Queue.                                                                  *)

\* The line holds MaxAnswersDue answers; an older one is lost.
Sent(r) ==
  Append(IF Len(wire) = MaxAnswersDue THEN Tail(wire) ELSE wire, r)

\* pump() and sendRequest() with the requests q waiting; gapRuns says whether
\* the gap still runs.  A write that fails is a failure of the request.
Pump(q, gapRuns) ==
  IF current = NoRequest /\ ~gapRuns /\ q # <<>>
  THEN /\ queue' = Tail(q)
       /\ \/ /\ current' = Head(q)
             /\ gap' = FALSE
             /\ wire' = Sent(Head(q))
             /\ NoResult
          \/ /\ Fail(Head(q))
             /\ Finish
             /\ wire' = wire
  ELSE /\ queue' = q
       /\ gap' = gapRuns
       /\ NoResult
       /\ UNCHANGED <<current, wire>>

\* Faulty: the newest request goes to the head.
EnqueueFirst(q, r) == IF r = current \/ Contains(q, r) THEN q ELSE <<r>> \o q

\* Faulty: the battery's cells are asked for with every basic request.
EnqueueWithCells(q, r) ==
  IF r = current \/ Contains(q, r) THEN q
  ELSE q \o IF r = "BmsBasic" THEN <<r, "BmsCells">> ELSE <<r>>

\* Faulty: the request that is out is queued again.
EnqueueAgain(q, r) == IF Contains(q, r) THEN q ELSE Append(q, r)

\* enqueue(): a request that waits or is out already is not queued again.
Enqueue(q, r) == IF r = current \/ Contains(q, r) THEN q ELSE Append(q, r)

\* The requests of the tasks that are due, one after the other.
Enqueued(due) ==
  LET after[i \in 0..Len(due)] == IF i = 0 THEN queue ELSE Enqueue(after[i - 1], due[i])
  IN  after[Len(due)]

\* pollTick() of an open port.
PollTick(due) ==
  /\ open
  /\ Pump(Enqueued(due), gap)
  /\ open' = open

GapEnds ==
  /\ gap
  /\ IF open THEN Pump(queue, FALSE)
     ELSE gap' = FALSE /\ NoResult /\ UNCHANGED <<queue, current, wire>>
  /\ open' = open
-----------------------------------------------------------------------------
(* Answers.                                                                *)

\* Faulty: any good frame is taken.
MatchesWhileBusy(frame) == current # NoRequest

Matches(frame) == current # NoRequest /\ Shape[frame] = Shape[current]

\* processReceiveBuffer(): a frame that does not fit is dropped and the wait
\* goes on; one that fits ends the request, with values or with a refusal.
Arrive(good) ==
  /\ wire # <<>>
  /\ wire' = Tail(wire)
  /\ IF Matches(Head(wire))
     THEN /\ IF good THEN Succeed(current, Head(wire)) ELSE Fail(current)
          /\ Finish
     ELSE NoResult /\ UNCHANGED <<current, gap>>
  /\ UNCHANGED <<open, queue>>

\* An answer is lost, or comes damaged.
Lose ==
  /\ \E i \in DOMAIN wire : wire' = RemoveAt(wire, i)
  /\ NoResult
  /\ UNCHANGED <<open, queue, current, gap>>

\* onRequestTimeout().
Timeout ==
  /\ current # NoRequest
  /\ Fail(current)
  /\ Finish
  /\ UNCHANGED <<open, queue, wire>>
-----------------------------------------------------------------------------
(* The port.                                                               *)

\* invalidateMeasurements.
ForgetAll ==
  /\ failures' = [r \in Polled |-> 0]
  /\ amcElapsed' = Invalid
  /\ shown' = [r \in Polled |-> NoAnswer]
  /\ powerAge' = 0
  /\ tried' = tried

\* Any error of the port forgets all values; the request that is out goes on.
PortError ==
  /\ open
  /\ ForgetAll
  /\ bus' = MarkFailure(bus)
  /\ UNCHANGED <<open, queue, current, gap, wire>>

PortLost ==
  /\ open
  /\ open' = FALSE
  /\ ForgetAll
  /\ bus' = MarkFailure(bus)
  /\ queue' = <<>>
  /\ current' = NoRequest
  /\ gap' = FALSE
  /\ wire' = <<>>

\* The attempt to open emits its error first, and then counts a failure itself.
ConnectFails ==
  /\ ~open
  /\ ForgetAll
  /\ bus' = MarkFailure(MarkFailure(bus))
  /\ UNCHANGED <<open, queue, current, gap, wire>>

Connect ==
  /\ ~open
  /\ open' = TRUE
  /\ bus' = Online
  /\ UNCHANGED <<queue, current, gap, wire, failures, amcElapsed, shown, powerAge, tried>>

\* A step of time is longer than the poll's interval and the whole queue: while
\* the port is open the power has been asked for meanwhile.
Elapse ==
  /\ open => tried
  /\ tried' = FALSE
  /\ amcElapsed' = IF amcElapsed = Invalid THEN Invalid ELSE Capped(amcElapsed + 1, Grace)
  /\ powerAge' = IF "AmcPower" \in Polled /\ shown["AmcPower"] # NoAnswer
                 THEN Capped(powerAge + 1, Grace + 1) ELSE 0
  /\ UNCHANGED <<open, queue, current, gap, wire, failures, bus, shown>>
-----------------------------------------------------------------------------
Init ==
  /\ open = FALSE
  /\ queue = <<>>
  /\ current = NoRequest
  /\ gap = FALSE
  /\ wire = <<>>
  /\ failures = [r \in Polled |-> 0]
  /\ bus = [failures |-> 0, online |-> FALSE]
  /\ amcElapsed = Invalid
  /\ shown = [r \in Polled |-> NoAnswer]
  /\ powerAge = 0
  /\ tried = FALSE

Next ==
  \/ \E due \in DueTogether : PollTick(due)
  \/ GapEnds
  \/ \E good \in BOOLEAN : Arrive(good)
  \/ Lose
  \/ Timeout
  \/ PortError \/ PortLost \/ ConnectFails \/ Connect
  \/ Elapse

Spec == Init /\ [][Next]_vars

\* The timers run: each task falls due again and again, the gap and the wait
\* for an answer end, time passes.
FairSpec ==
  /\ Spec
  /\ \A r \in Polled : WF_vars(PollTick(<<r>>))
  /\ WF_vars(GapEnds)
  /\ WF_vars(Timeout)
  /\ WF_vars(Elapse)
-----------------------------------------------------------------------------
(* Properties.                                                             *)

\* Every variable has its type.
TypeOK ==
  /\ open \in BOOLEAN
  /\ queue \in Seq(Polled)
  /\ current \in Polled \cup {NoRequest}
  /\ gap \in BOOLEAN
  /\ wire \in Seq(Polled) /\ Len(wire) <= MaxAnswersDue
  /\ failures \in [Polled -> 0..OfflineFailureThreshold]
  /\ bus \in [failures : 0..OfflineFailureThreshold, online : BOOLEAN]
  /\ amcElapsed \in 0..Grace \cup {Invalid}
  /\ shown \in [Polled -> Polled \cup {NoAnswer}]
  /\ powerAge \in 0..(Grace + 1)
  /\ tried \in BOOLEAN

\* A request is in line once at most, waiting or out, however often it falls due
\* while the devices are silent and the port comes and goes: the line is never
\* longer than the list of polls.
InLineOnce ==
  /\ current \notin Waiting
  /\ \A i, j \in DOMAIN queue : i # j => queue[i] # queue[j]

\* tests/telemetry_tests.cpp: a late answer of one device never becomes the
\* value of another, in whatever order requests time out and answers come late.
ShownComesFromDevice ==
  \A r \in Polled : shown[r] # NoAnswer => Shape[shown[r]] = Shape[r]

\* Powers that are shown are never older than the grace, although single
\* failures, other answers of the same meter and errors of the port move the
\* wait.
PowersAreRecent == powerAge <= Grace

\* A request that waits leaves the queue: no silence, error or other request
\* makes it wait for ever.
EveryPollIsServed == \A r \in Polled : r \in Waiting ~> r \notin Waiting

Answered(r) ==
  current = r /\ current' = NoRequest /\ failures'[r] = 0 /\ shown'[r] # NoAnswer

\* When no answer is taken for a request any more, its values are forgotten for
\* good, whatever the other devices do and even if the port comes and goes.
SilenceIsShown ==
  \A r \in Polled : <>[][~Answered(r)]_vars => <>[](shown[r] = NoAnswer)

\* docs/modbus.md: a frame of another request is dropped.  The values shown for
\* a request are registers of that request.
ShownComesFromRequest ==
  \A r \in Polled : shown[r] \in {r, NoAnswer}
=============================================================================
