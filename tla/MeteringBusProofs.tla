-------------------------- MODULE MeteringBusProofs --------------------------
(***************************************************************************)
(* Where the values of the metering bus come from and how old its powers   *)
(* get, for every set of polled requests, every threshold and grace.       *)
(***************************************************************************)
EXTENDS MeteringBus, Induction, SequenceTheorems

\* The values shown are a function of the requests.
ShownIsFunction == shown = [r \in Polled |-> shown[r]]

PowerIsShown == "AmcPower" \in Polled /\ shown["AmcPower"] # NoAnswer

\* The age of a power is what the controller measures; when the grace is used
\* up, the next request ends it one way or the other.
PowerAgeIsMeasured ==
  /\ PowerIsShown => /\ open
                     /\ powerAge \in Nat /\ powerAge <= Grace
                     /\ amcElapsed = powerAge
                     /\ powerAge = Grace => ~tried
  /\ ~PowerIsShown => powerAge = 0

\* Nothing is asked or answered while the port is closed.
ClosedIsSilent == ~open => current = NoRequest /\ wire = <<>>

Inv == ShownIsFunction /\ ShownComesFromDevice /\ PowerAgeIsMeasured /\ ClosedIsSilent
-----------------------------------------------------------------------------
LEMMA InvInit == Init => Inv
  BY DEF Init, Inv, ShownIsFunction, ShownComesFromDevice, PowerAgeIsMeasured, PowerIsShown,
         ClosedIsSilent

\* A good answer of the right shape, while the port is open.
LEMMA SucceedStep ==
  ASSUME Inv, open, open' = open, NEW r, NEW from, Shape[from] = Shape[r], Succeed(r, from)
  PROVE  Inv'
<1>1. shown' = [shown EXCEPT ![r] = from]
  BY DEF Succeed
<1>2. ShownIsFunction' /\ ShownComesFromDevice'
  BY <1>1 DEF Inv, ShownIsFunction, ShownComesFromDevice
<1>3. PowerAgeIsMeasured'
  <2>1. CASE r = "AmcPower"
    BY <1>1, <2>1, MeteringAssumption
       DEF Inv, Succeed, ElapsedAfterSuccess, PowerAgeIsMeasured, PowerIsShown
  <2>2. CASE r # "AmcPower"
    <3>1. PowerIsShown' = PowerIsShown
      BY <1>1, <2>2 DEF Inv, ShownIsFunction, PowerIsShown
    <3>2. UNCHANGED <<powerAge, amcElapsed, open>> /\ (tried' <=> tried)
      BY <2>2 DEF Succeed, ElapsedAfterSuccess
    <3> QED BY <3>1, <3>2 DEF Inv, PowerAgeIsMeasured
  <2> QED BY <2>1, <2>2
<1> QED BY <1>2, <1>3 DEF Inv, ClosedIsSilent

\* A request that fails: only the power's own failure touches the power.
LEMMA FailStep ==
  ASSUME Inv, open, open' = open, NEW r, Fail(r)
  PROVE  Inv'
<1>1. shown' \in {shown, Forget(r)} /\ (Forgets(r) => shown' = Forget(r))
  BY DEF Fail
<1>2. ShownIsFunction' /\ ShownComesFromDevice'
  BY <1>1 DEF Inv, ShownIsFunction, ShownComesFromDevice, Forget
<1>3. PowerAgeIsMeasured'
  <2>1. CASE r = "AmcPower"
    <3>1. CASE Forgets(r)
      <4>1. ~PowerIsShown' /\ powerAge' = 0
        BY <1>1, <2>1, <3>1 DEF Fail, PowerIsShown, Forget
      <4> QED BY <4>1 DEF PowerAgeIsMeasured
    <3>2. CASE ~Forgets(r)
      <4>1. shown' = shown /\ powerAge' = powerAge
        BY <3>2 DEF Fail
      <4>2. amcElapsed' = ElapsedAfterFailure(r) /\ ~(ElapsedAfterFailure(r) >= Grace)
        BY <2>1, <3>2 DEF Fail, Forgets
      <4>3. PowerIsShown => amcElapsed' = amcElapsed /\ powerAge # Grace
        BY <2>1, <4>2, MeteringAssumption
           DEF Inv, PowerAgeIsMeasured, ElapsedAfterFailure, Invalid
      <4> QED BY <4>1, <4>3 DEF Inv, PowerAgeIsMeasured, PowerIsShown
    <3> QED BY <3>1, <3>2
  <2>2. CASE r # "AmcPower"
    <3>1. PowerIsShown' = PowerIsShown
      BY <1>1, <2>2 DEF Inv, ShownIsFunction, PowerIsShown, Forget
    <3>2. UNCHANGED <<powerAge, amcElapsed, open>> /\ (tried' <=> tried)
      BY <2>2 DEF Fail, ElapsedAfterFailure
    <3> QED BY <3>1, <3>2 DEF Inv, PowerAgeIsMeasured
  <2> QED BY <2>1, <2>2
<1> QED BY <1>2, <1>3 DEF Inv, ClosedIsSilent

\* Steps without a result keep all but perhaps the queue and the wire.
LEMMA NoResultStep ==
  ASSUME Inv, NoResult, open' = open, ClosedIsSilent'
  PROVE  Inv'
  BY DEF Inv, NoResult, ShownIsFunction, ShownComesFromDevice, PowerAgeIsMeasured, PowerIsShown

LEMMA PumpStep ==
  ASSUME Inv, open, open' = open, NEW q, NEW gapRuns, Pump(q, gapRuns)
  PROVE  Inv'
<1>1. NoResult \/ Fail(Head(q))
  BY DEF Pump
<1> QED BY <1>1, NoResultStep, FailStep DEF ClosedIsSilent

\* An error of the port forgets all values.
LEMMA ForgetAllStep ==
  ASSUME ForgetAll, ClosedIsSilent'
  PROVE  Inv'
<1>1. shown' = [r \in Polled |-> NoAnswer] /\ powerAge' = 0
  BY DEF ForgetAll
<1> QED BY <1>1 DEF Inv, ShownIsFunction, ShownComesFromDevice, PowerAgeIsMeasured, PowerIsShown

\* A step of time.
LEMMA ElapseStep ==
  ASSUME Inv, Elapse
  PROVE  Inv'
<1>1. shown' = shown /\ open' = open /\ current' = current /\ wire' = wire /\ tried' = FALSE
  BY DEF Elapse
<1>2. PowerAgeIsMeasured'
  <2>1. CASE PowerIsShown
    <3>1. powerAge \in Nat /\ powerAge < Grace /\ amcElapsed = powerAge /\ open
      BY <2>1, MeteringAssumption DEF Inv, PowerAgeIsMeasured, Elapse
    <3>2. powerAge' = powerAge + 1 /\ amcElapsed' = powerAge + 1
      BY <2>1, <3>1, MeteringAssumption DEF Elapse, PowerIsShown, Capped, Invalid
    <3> QED BY <1>1, <2>1, <3>1, <3>2, MeteringAssumption DEF PowerAgeIsMeasured, PowerIsShown
  <2>2. CASE ~PowerIsShown
    BY <1>1, <2>2 DEF Elapse, PowerAgeIsMeasured, PowerIsShown
  <2> QED BY <2>1, <2>2
<1> QED BY <1>1, <1>2 DEF Inv, ShownIsFunction, ShownComesFromDevice, ClosedIsSilent

LEMMA InvStep ==
  ASSUME Inv, [Next]_vars
  PROVE  Inv'
<1>1. ASSUME NEW due \in DueTogether, PollTick(due)
      PROVE  Inv'
  BY <1>1, PumpStep DEF PollTick
<1>2. CASE GapEnds
  <2>1. CASE open
    BY <1>2, <2>1, PumpStep DEF GapEnds
  <2>2. CASE ~open
    BY <1>2, <2>2, NoResultStep DEF GapEnds, Inv, ClosedIsSilent
  <2> QED BY <2>1, <2>2
<1>3. ASSUME NEW good \in BOOLEAN, Arrive(good)
      PROVE  Inv'
  <2>1. open /\ open' = open
    BY <1>3 DEF Arrive, Inv, ClosedIsSilent
  <2>2. CASE Matches(Head(wire))
    BY <1>3, <2>1, <2>2, SucceedStep, FailStep DEF Arrive, Matches
  <2>3. CASE ~Matches(Head(wire))
    BY <1>3, <2>1, <2>3, NoResultStep DEF Arrive, ClosedIsSilent
  <2> QED BY <2>2, <2>3
<1>4. CASE Lose
  <2>1. open
    BY <1>4 DEF Lose, Inv, ClosedIsSilent
  <2> QED BY <1>4, <2>1, NoResultStep DEF Lose, ClosedIsSilent
<1>5. CASE Timeout
  BY <1>5, FailStep DEF Timeout, Inv, ClosedIsSilent
<1>6. CASE PortError \/ PortLost \/ ConnectFails
  BY <1>6, ForgetAllStep DEF PortError, PortLost, ConnectFails, Inv, ClosedIsSilent
<1>7. CASE Connect
  BY <1>7 DEF Connect, Inv, ShownIsFunction, ShownComesFromDevice, PowerAgeIsMeasured,
              PowerIsShown, ClosedIsSilent
<1>8. CASE Elapse
  BY <1>8, ElapseStep
<1>9. CASE UNCHANGED vars
  BY <1>9 DEF vars, Inv, ShownIsFunction, ShownComesFromDevice, PowerAgeIsMeasured,
              PowerIsShown, ClosedIsSilent
<1> QED BY <1>1, <1>2, <1>3, <1>4, <1>5, <1>6, <1>7, <1>8, <1>9 DEF Next

\* A late answer of one device never becomes the value of another.
THEOREM ValuesComeFromTheirDevice == Spec => []ShownComesFromDevice
<1>1. Inv => ShownComesFromDevice
  BY DEF Inv
<1> QED BY <1>1, InvInit, InvStep, PTL DEF Spec

\* A power that is shown is never older than the grace.
THEOREM PowersStayRecent == Spec => []PowersAreRecent
<1>1. Inv => PowersAreRecent
  BY MeteringAssumption DEF Inv, PowerAgeIsMeasured, PowersAreRecent
<1> QED BY <1>1, InvInit, InvStep, PTL DEF Spec
-----------------------------------------------------------------------------
(* Types.                                                                  *)

\* The requests that fall due are polled ones.
LEMMA DueIsPolled == \A due \in DueTogether : due \in Seq(Polled)
<1> SUFFICES ASSUME NEW tasks \in SUBSET Polled PROVE Select(AllRequests, tasks) \in Seq(Polled)
  BY DEF DueTogether
<1>1. AllRequests \in Seq(DOMAIN Shape)
  BY DEF AllRequests, Shape
<1>2. Select(AllRequests, tasks) \in Seq(tasks)
  BY <1>1, SelectedAreWanted
<1> QED BY <1>2, SeqMonotonic

\* The queue between two of the requests that are enqueued one by one.
OneByOne(path, q, due) ==
  /\ path[0] = q
  /\ \A i \in 1..Len(due) : path[i] = Enqueue(path[i - 1], due[i])

\* Enqueuing visits the requests that are due one after the other.
LEMMA EnqueuedOneByOne ==
  ASSUME NEW due, Len(due) \in Nat
  PROVE  \E path : OneByOne(path, queue, due) /\ Enqueued(due) = path[Len(due)]
<1> DEFINE n == Len(due)
           Step(f, i) == IF i = 0 THEN queue ELSE Enqueue(f[i - 1], due[i])
           IsPath(f, k) == f = [i \in 0..k |-> Step(f, i)]
           T == {k \in 0..n : \E f : IsPath(f, k)}
<1>1. 0 \in T
  <2> DEFINE f == [i \in 0..0 |-> queue]
  <2>1. IsPath(f, 0)
    OBVIOUS
  <2>2. 0 \in 0..n
    OBVIOUS
  <2> HIDE DEF IsPath
  <2>3. \E h : IsPath(h, 0)
    BY <2>1
  <2> QED BY <2>2, <2>3
<1>2. ASSUME NEW k \in 0..(n - 1), k \in T PROVE k + 1 \in T
  <2>1. PICK f : IsPath(f, k)
    BY <1>2
  <2> DEFINE g == [i \in 0..(k + 1) |-> Step(f, i)]
  <2>2. \A i \in 0..k : g[i] = f[i]
    <3> HIDE DEF Step
    <3>1. \A i \in 0..k : f[i] = Step(f, i)
      BY <2>1
    <3>2. \A i \in 0..k : g[i] = Step(f, i)
      OBVIOUS
    <3> QED BY <3>1, <3>2
  <2>3. \A i \in 0..(k + 1) : i # 0 => i - 1 \in 0..k
    OBVIOUS
  <2> HIDE DEF g
  <2>4. \A i \in 0..(k + 1) : Step(f, i) = Step(g, i)
    BY <2>2, <2>3
  <2>5. IsPath(g, k + 1)
    BY <2>4 DEF g
  <2> HIDE DEF IsPath
  <2>6. \E h : IsPath(h, k + 1)
    BY <2>5
  <2> QED BY <2>6
<1>3. n \in T
  <2> HIDE DEF T
  <2>1. n \in Nat
    OBVIOUS
  <2> HIDE DEF n
  <2>2. \A i \in 0..n : i \in T
    BY <1>1, <1>2, <2>1, InductionUpTo
  <2> QED BY <2>1, <2>2
<1> DEFINE path == CHOOSE f : IsPath(f, n)
<1>4. IsPath(path, n)
  BY <1>3
<1>5. Enqueued(due) = path[n]
  BY DEF Enqueued
<1> HIDE DEF path
<1>6. \A i \in 0..n : path[i] = Step(path, i)
  <2> HIDE DEF Step
  <2> QED BY <1>4
<1>7. path[0] = queue
  BY <1>6
<1>8. ASSUME NEW i \in 1..n PROVE path[i] = Enqueue(path[i - 1], due[i])
  <2>1. i \in 0..n /\ i # 0
    OBVIOUS
  <2>2. path[i] = Step(path, i)
    BY <1>6, <2>1
  <2> QED BY <2>1, <2>2
<1> QED BY <1>5, <1>7, <1>8 DEF OneByOne

LEMMA EnqueuedType ==
  ASSUME queue \in Seq(Polled), NEW due \in Seq(Polled)
  PROVE  Enqueued(due) \in Seq(Polled)
<1> DEFINE n == Len(due)
<1>1. n \in Nat /\ \A i \in 1..n : due[i] \in Polled
  BY LenProperties, ElementOfSeq
<1>2. PICK path : OneByOne(path, queue, due) /\ Enqueued(due) = path[n]
  BY <1>1, EnqueuedOneByOne
<1> DEFINE T == {i \in 0..n : path[i] \in Seq(Polled)}
<1>3. 0 \in T
  BY <1>1, <1>2 DEF OneByOne
<1>4. ASSUME NEW i \in 0..(n - 1), i \in T PROVE i + 1 \in T
  <2>1. i + 1 \in 1..n /\ i + 1 \in 0..n /\ (i + 1) - 1 = i
    BY <1>1
  <2>2. path[i + 1] = Enqueue(path[i], due[i + 1]) /\ due[i + 1] \in Polled
    BY <1>1, <1>2, <2>1 DEF OneByOne
  <2>3. path[i] \in Seq(Polled)
    BY <1>4
  <2>4. path[i + 1] \in Seq(Polled)
    BY <2>2, <2>3, AppendProperties DEF Enqueue
  <2> QED BY <2>1, <2>4
<1>5. n \in T
  <2> HIDE DEF T, n
  <2>1. \A i \in 0..n : i \in T
    BY <1>1, <1>3, <1>4, InductionUpTo
  <2> QED BY <1>1, <2>1
<1> QED BY <1>2, <1>5

\* TypeOK has two halves: what waits and what was heard.
LineTypes ==
  /\ open \in BOOLEAN
  /\ queue \in Seq(Polled)
  /\ current \in Polled \cup {NoRequest}
  /\ gap \in BOOLEAN
  /\ wire \in Seq(Polled) /\ Len(wire) <= MaxAnswersDue

ResultTypes ==
  /\ failures \in [Polled -> 0..OfflineFailureThreshold]
  /\ bus \in [failures : 0..OfflineFailureThreshold, online : BOOLEAN]
  /\ amcElapsed \in 0..Grace \cup {Invalid}
  /\ shown \in [Polled -> Polled \cup {NoAnswer}]
  /\ powerAge \in 0..(Grace + 1)
  /\ tried \in BOOLEAN

LEMMA TypesInHalves == TypeOK <=> LineTypes /\ ResultTypes
  BY DEF TypeOK, LineTypes, ResultTypes

LEMMA RequestsAreNamed == NoRequest \notin Polled /\ NoAnswer \notin Polled
  BY MeteringAssumption DEF Shape, NoRequest, NoAnswer

LEMMA CappedType ==
  ASSUME NEW limit \in Nat, NEW n \in 0..limit
  PROVE  Capped(n + 1, limit) \in 0..limit
  BY DEF Capped

LEMMA MonitorType ==
  ASSUME NEW b \in [failures : 0..OfflineFailureThreshold, online : BOOLEAN]
  PROVE  MarkFailure(b) \in [failures : 0..OfflineFailureThreshold, online : BOOLEAN]
<1> DEFINE n == Capped(b.failures + 1, OfflineFailureThreshold)
<1>1. n \in 0..OfflineFailureThreshold
  <2>1. OfflineFailureThreshold \in Nat /\ b.failures \in 0..OfflineFailureThreshold
    BY MeteringAssumption
  <2> QED BY <2>1, CappedType
<1>2. (b.online /\ n < OfflineFailureThreshold) \in BOOLEAN
  OBVIOUS
<1> QED BY <1>1, <1>2 DEF MarkFailure

LEMMA ResultSteps ==
  ASSUME ResultTypes, NEW r \in Polled
  PROVE  /\ \A from \in Polled : Succeed(r, from) => ResultTypes'
         /\ Fail(r) => ResultTypes'
<1>1. ASSUME NEW from \in Polled, Succeed(r, from) PROVE ResultTypes'
  <2>1. failures' \in [Polled -> 0..OfflineFailureThreshold]
    BY <1>1, MeteringAssumption DEF ResultTypes, Succeed, FailuresAfterSuccess
  <2>2. bus' \in [failures : 0..OfflineFailureThreshold, online : BOOLEAN]
    BY <1>1, MeteringAssumption DEF Succeed, Online
  <2>3. amcElapsed' \in 0..Grace \cup {Invalid}
    BY <1>1, MeteringAssumption DEF ResultTypes, Succeed, ElapsedAfterSuccess
  <2>4. shown' \in [Polled -> Polled \cup {NoAnswer}]
    BY <1>1 DEF ResultTypes, Succeed
  <2>5. powerAge' \in 0..(Grace + 1)
    BY <1>1, MeteringAssumption DEF ResultTypes, Succeed
  <2>6. tried' \in BOOLEAN
    BY <1>1 DEF ResultTypes, Succeed
  <2> QED BY <2>1, <2>2, <2>3, <2>4, <2>5, <2>6 DEF ResultTypes
<1>2. ASSUME Fail(r) PROVE ResultTypes'
  <2>1. failures' \in [Polled -> 0..OfflineFailureThreshold]
    <3>1. failures[r] \in 0..OfflineFailureThreshold /\ OfflineFailureThreshold \in Nat
      BY MeteringAssumption DEF ResultTypes
    <3>2. Capped(failures[r] + 1, OfflineFailureThreshold) \in 0..OfflineFailureThreshold
      BY <3>1, CappedType
    <3> QED BY <1>2, <3>2 DEF ResultTypes, Fail
  <2>2. bus' \in [failures : 0..OfflineFailureThreshold, online : BOOLEAN]
    BY <1>2, MonitorType DEF ResultTypes, Fail
  <2>3. amcElapsed' \in 0..Grace \cup {Invalid}
    BY <1>2, MeteringAssumption DEF ResultTypes, Fail, ElapsedAfterFailure
  <2>4. shown' \in [Polled -> Polled \cup {NoAnswer}]
    BY <1>2 DEF ResultTypes, Fail, Forget
  <2>5. powerAge' \in 0..(Grace + 1)
    BY <1>2, MeteringAssumption DEF ResultTypes, Fail
  <2>6. tried' \in BOOLEAN
    BY <1>2 DEF ResultTypes, Fail
  <2> QED BY <2>1, <2>2, <2>3, <2>4, <2>5, <2>6 DEF ResultTypes
<1> QED BY <1>1, <1>2

LEMMA NoResultTypes == ResultTypes /\ NoResult => ResultTypes'
  BY DEF ResultTypes, NoResult

\* One more answer is due, and the line never holds more than it can.
LEMMA SentType ==
  ASSUME LineTypes, NEW r \in Polled
  PROVE  Sent(r) \in Seq(Polled) /\ Len(Sent(r)) <= MaxAnswersDue
<1>1. wire \in Seq(Polled) /\ Len(wire) \in Nat /\ Len(wire) <= MaxAnswersDue
  BY LenProperties DEF LineTypes
<1>2. CASE Len(wire) = MaxAnswersDue
  <2>1. wire # <<>>
    BY <1>2, EmptySeq, MeteringAssumption
  <2>2. Tail(wire) \in Seq(Polled) /\ Len(Tail(wire)) = Len(wire) - 1
    BY <1>1, <2>1, HeadTailProperties
  <2> QED BY <1>1, <1>2, <2>2, AppendProperties DEF Sent
<1>3. CASE Len(wire) # MaxAnswersDue
  BY <1>1, <1>3, AppendProperties, MeteringAssumption DEF Sent
<1> QED BY <1>2, <1>3

LEMMA PumpTypes ==
  ASSUME LineTypes, ResultTypes, open' = open, NEW q \in Seq(Polled), NEW gapRuns \in BOOLEAN,
         Pump(q, gapRuns)
  PROVE  LineTypes' /\ ResultTypes'
<1>1. CASE current = NoRequest /\ ~gapRuns /\ q # <<>>
  <2>1. Head(q) \in Polled /\ Tail(q) \in Seq(Polled)
    BY <1>1, HeadTailProperties
  <2>2. queue' = Tail(q)
    BY <1>1 DEF Pump
  <2>3. CASE current' = Head(q) /\ gap' = FALSE /\ wire' = Sent(Head(q)) /\ NoResult
    <3>1. wire' \in Seq(Polled) /\ Len(wire') <= MaxAnswersDue
      BY <2>1, <2>3, SentType
    <3> QED BY <2>1, <2>2, <2>3, <3>1, NoResultTypes DEF LineTypes
  <2>4. CASE Fail(Head(q)) /\ Finish /\ wire' = wire
    <3>1. ResultTypes'
      BY <2>1, <2>4, ResultSteps
    <3> QED BY <2>1, <2>2, <2>4, <3>1 DEF LineTypes, Finish
  <2> QED BY <1>1, <2>3, <2>4 DEF Pump
<1>2. CASE ~(current = NoRequest /\ ~gapRuns /\ q # <<>>)
  <2>1. queue' = q /\ gap' = gapRuns /\ NoResult /\ current' = current /\ wire' = wire
    BY <1>2 DEF Pump
  <2> QED BY <2>1, NoResultTypes DEF LineTypes
<1> QED BY <1>1, <1>2

LEMMA ForgetAllTypes == ResultTypes /\ ForgetAll /\ bus' \in [failures : 0..OfflineFailureThreshold, online : BOOLEAN]
                        => ResultTypes'
  BY MeteringAssumption DEF ResultTypes, ForgetAll

LEMMA TypeStep ==
  ASSUME LineTypes, ResultTypes, [Next]_vars
  PROVE  LineTypes' /\ ResultTypes'
<1>1. ASSUME NEW due \in DueTogether, PollTick(due) PROVE LineTypes' /\ ResultTypes'
  <2>1. Enqueued(due) \in Seq(Polled) /\ gap \in BOOLEAN
    BY DueIsPolled, EnqueuedType DEF LineTypes
  <2> QED BY <1>1, <2>1, PumpTypes DEF PollTick
<1>2. CASE GapEnds
  <2>1. CASE open
    BY <1>2, <2>1, PumpTypes DEF GapEnds, LineTypes
  <2>2. CASE ~open
    BY <1>2, <2>2, NoResultTypes DEF GapEnds, LineTypes
  <2> QED BY <2>1, <2>2
<1>3. ASSUME NEW good \in BOOLEAN, Arrive(good) PROVE LineTypes' /\ ResultTypes'
  <2>1. /\ Head(wire) \in Polled /\ wire' \in Seq(Polled) /\ Len(wire') <= MaxAnswersDue
    <3>1. wire # <<>> /\ wire' = Tail(wire)
      BY <1>3 DEF Arrive
    <3>2. wire \in Seq(Polled) /\ Len(wire) \in Nat /\ Len(wire) <= MaxAnswersDue
      BY LenProperties DEF LineTypes
    <3> QED BY <3>1, <3>2, HeadTailProperties, MeteringAssumption
  <2>2. CASE Matches(Head(wire))
    <3>1. current \in Polled
      BY <2>2 DEF Matches, LineTypes
    <3>2. ResultTypes'
      BY <1>3, <2>1, <2>2, <3>1, ResultSteps DEF Arrive
    <3> QED BY <1>3, <2>1, <2>2, <3>2 DEF Arrive, Finish, LineTypes
  <2>3. CASE ~Matches(Head(wire))
    BY <1>3, <2>1, <2>3, NoResultTypes DEF Arrive, LineTypes
  <2> QED BY <2>2, <2>3
<1>4. CASE Lose
  <2>1. PICK i \in DOMAIN wire : wire' = SubSeq(wire, 1, i - 1) \o SubSeq(wire, i + 1, Len(wire))
    BY <1>4 DEF Lose, RemoveAt
  <2>2. wire \in Seq(Polled) /\ Len(wire) \in Nat /\ Len(wire) <= MaxAnswersDue /\ i \in 1..Len(wire)
    BY LenProperties DEF LineTypes
  <2>3. /\ SubSeq(wire, 1, i - 1) \in Seq(Polled) /\ Len(SubSeq(wire, 1, i - 1)) = i - 1
        /\ SubSeq(wire, i + 1, Len(wire)) \in Seq(Polled)
        /\ Len(SubSeq(wire, i + 1, Len(wire))) = Len(wire) - i
    BY <2>2
  <2>4. wire' \in Seq(Polled) /\ Len(wire') <= MaxAnswersDue
    BY <2>1, <2>2, <2>3, ConcatProperties, MeteringAssumption
  <2> QED BY <1>4, <2>4, NoResultTypes DEF Lose, LineTypes
<1>5. CASE Timeout
  <2>1. current \in Polled
    BY <1>5 DEF Timeout, LineTypes
  <2>2. ResultTypes'
    BY <1>5, <2>1, ResultSteps DEF Timeout
  <2> QED BY <1>5, <2>2 DEF Timeout, Finish, LineTypes
<1>6. bus \in [failures : 0..OfflineFailureThreshold, online : BOOLEAN]
  BY DEF ResultTypes
<1>7. CASE PortError
  BY <1>6, <1>7, MonitorType, ForgetAllTypes DEF PortError, LineTypes
<1>8. CASE PortLost
  <2>1. ResultTypes'
    BY <1>6, <1>8, MonitorType, ForgetAllTypes DEF PortLost
  <2>2. <<>> \in Seq(Polled) /\ Len(<<>>) = 0 /\ 0 <= MaxAnswersDue
    BY EmptySeq, MeteringAssumption
  <2>3. open' = FALSE /\ queue' = <<>> /\ current' = NoRequest /\ gap' = FALSE /\ wire' = <<>>
    BY <1>8 DEF PortLost
  <2>4. Len(wire') <= MaxAnswersDue
    BY <2>2, <2>3
  <2>5. LineTypes'
    BY <2>2, <2>3, <2>4, Zenon DEF LineTypes
  <2> QED BY <2>1, <2>5
<1>9. CASE ConnectFails
  BY <1>6, <1>9, MonitorType, ForgetAllTypes DEF ConnectFails, LineTypes
<1>10. CASE Connect
  <2>1. Online \in [failures : 0..OfflineFailureThreshold, online : BOOLEAN]
    BY MeteringAssumption DEF Online
  <2>2. LineTypes'
    BY <1>10 DEF Connect, LineTypes
  <2>3. bus' = Online
    BY <1>10 DEF Connect
  <2>4. /\ failures' = failures /\ amcElapsed' = amcElapsed /\ shown' = shown
        /\ powerAge' = powerAge /\ tried' = tried
    BY <1>10 DEF Connect
  <2>5. bus' \in [failures : 0..OfflineFailureThreshold, online : BOOLEAN]
    BY <2>1, <2>3
  <2>6. ResultTypes'
    BY <2>4, <2>5 DEF ResultTypes
  <2> QED BY <2>2, <2>6
<1>11. CASE Elapse
  <2>1. amcElapsed' \in 0..Grace \cup {Invalid}
    <3>1. CASE amcElapsed = Invalid
      BY <1>11, <3>1 DEF Elapse
    <3>2. CASE amcElapsed # Invalid
      <4>1. amcElapsed \in 0..Grace /\ Grace \in Nat
        BY <3>2, MeteringAssumption DEF ResultTypes
      <4>2. Capped(amcElapsed + 1, Grace) \in 0..Grace
        BY <4>1, CappedType
      <4> QED BY <1>11, <3>2, <4>2 DEF Elapse
    <3> QED BY <3>1, <3>2
  <2>2. powerAge' \in 0..(Grace + 1)
    <3>1. powerAge \in 0..(Grace + 1) /\ Grace + 1 \in Nat
      BY MeteringAssumption DEF ResultTypes
    <3>2. Capped(powerAge + 1, Grace + 1) \in 0..(Grace + 1)
      BY <3>1, CappedType
    <3>3. 0 \in 0..(Grace + 1)
      BY <3>1
    <3> QED BY <1>11, <3>2, <3>3 DEF Elapse
  <2>3. LineTypes'
    BY <1>11 DEF Elapse, LineTypes
  <2>4. UNCHANGED <<failures, bus, shown>> /\ tried' = FALSE
    BY <1>11 DEF Elapse
  <2> QED BY <2>1, <2>2, <2>3, <2>4 DEF ResultTypes
<1>12. CASE UNCHANGED vars
  BY <1>12 DEF vars, LineTypes, ResultTypes
<1> QED BY <1>1, <1>2, <1>3, <1>4, <1>5, <1>7, <1>8, <1>9, <1>10, <1>11, <1>12 DEF Next

LEMMA TypesInitially == Init => LineTypes /\ ResultTypes
<1> SUFFICES ASSUME Init PROVE LineTypes /\ ResultTypes
  OBVIOUS
<1>1. <<>> \in Seq(Polled) /\ Len(<<>>) = 0
  BY EmptySeq
<1>2. LineTypes
  <2>1. 0 <= MaxAnswersDue
    BY MeteringAssumption
  <2> QED BY <1>1, <2>1 DEF Init, LineTypes
<1>3. ResultTypes
  <2>1. 0 \in 0..OfflineFailureThreshold /\ 0 \in 0..(Grace + 1)
    BY MeteringAssumption
  <2>2. /\ failures \in [Polled -> 0..OfflineFailureThreshold]
        /\ shown \in [Polled -> Polled \cup {NoAnswer}]
    BY <2>1 DEF Init
  <2>3. bus \in [failures : 0..OfflineFailureThreshold, online : BOOLEAN]
    BY <2>1 DEF Init
  <2>4. amcElapsed \in 0..Grace \cup {Invalid} /\ powerAge \in 0..(Grace + 1) /\ tried \in BOOLEAN
    BY <2>1 DEF Init
  <2> QED BY <2>2, <2>3, <2>4 DEF ResultTypes
<1> QED BY <1>2, <1>3

\* Every variable has its type: only polled requests wait, are out or answer.
THEOREM TypeCorrect == Spec => []TypeOK
  BY TypesInitially, TypeStep, TypesInHalves, PTL DEF Spec
-----------------------------------------------------------------------------
(* The line.                                                               *)

\* No request of q is in it twice, or out as well.
Single(q) ==
  /\ \A i, j \in 1..Len(q) : i # j => q[i] # q[j]
  /\ \A i \in 1..Len(q) : q[i] # current

LEMMA SingleLine ==
  ASSUME LineTypes
  PROVE  InLineOnce <=> Single(queue)
<1>1. DOMAIN queue = 1..Len(queue)
  BY DEF LineTypes
<1> QED BY <1>1 DEF InLineOnce, Single, Waiting

LEMMA EnqueueKeepsSingle ==
  ASSUME NEW q \in Seq(Polled), NEW r \in Polled, Single(q)
  PROVE  Enqueue(q, r) \in Seq(Polled) /\ Single(Enqueue(q, r))
<1>1. CASE r = current \/ Contains(q, r)
  BY <1>1 DEF Enqueue
<1>2. CASE ~(r = current \/ Contains(q, r))
  <2> DEFINE longer == Append(q, r)
  <2>1. /\ longer \in Seq(Polled) /\ Len(longer) = Len(q) + 1 /\ Len(q) \in Nat
        /\ \A i \in 1..Len(q) : longer[i] = q[i]
        /\ longer[Len(q) + 1] = r
    BY AppendProperties, LenProperties
  <2>2. \A i \in 1..Len(q) : q[i] # r
    BY <1>2 DEF Contains
  <2>3. Enqueue(q, r) = longer
    BY <1>2 DEF Enqueue
  <2> HIDE DEF longer
  <2>4. \A i \in 1..Len(longer) : i \in 1..Len(q) \/ i = Len(q) + 1
    BY <2>1
  <2>5. Single(longer)
    BY <1>2, <2>1, <2>2, <2>4 DEF Single
  <2> QED BY <2>1, <2>3, <2>5
<1> QED BY <1>1, <1>2

LEMMA EnqueuedIsSingle ==
  ASSUME queue \in Seq(Polled), Single(queue), NEW due \in Seq(Polled)
  PROVE  Enqueued(due) \in Seq(Polled) /\ Single(Enqueued(due))
<1> DEFINE n == Len(due)
<1>1. n \in Nat /\ \A i \in 1..n : due[i] \in Polled
  BY LenProperties, ElementOfSeq
<1>2. PICK path : OneByOne(path, queue, due) /\ Enqueued(due) = path[n]
  BY <1>1, EnqueuedOneByOne
<1> DEFINE T == {i \in 0..n : path[i] \in Seq(Polled) /\ Single(path[i])}
<1>3. 0 \in T
  <2>1. path[0] = queue /\ 0 \in 0..n
    BY <1>1, <1>2 DEF OneByOne
  <2> QED BY <2>1
<1>4. ASSUME NEW i \in 0..(n - 1), i \in T PROVE i + 1 \in T
  <2>1. i + 1 \in 1..n /\ i + 1 \in 0..n /\ (i + 1) - 1 = i
    BY <1>1
  <2>2. path[i + 1] = Enqueue(path[i], due[i + 1]) /\ due[i + 1] \in Polled
    BY <1>1, <1>2, <2>1 DEF OneByOne
  <2>3. path[i] \in Seq(Polled) /\ Single(path[i])
    BY <1>4
  <2>4. path[i + 1] \in Seq(Polled) /\ Single(path[i + 1])
    BY <2>2, <2>3, EnqueueKeepsSingle
  <2> QED BY <2>1, <2>4
<1>5. n \in T
  <2> HIDE DEF T, n
  <2>1. \A i \in 0..n : i \in T
    BY <1>1, <1>3, <1>4, InductionUpTo
  <2> QED BY <1>1, <2>1
<1> QED BY <1>2, <1>5

\* Pumping takes the head out of the line.
LEMMA PumpKeepsSingle ==
  ASSUME NEW q \in Seq(Polled), Single(q), NEW gapRuns, Pump(q, gapRuns)
  PROVE  Single(queue)'
<1>1. CASE current = NoRequest /\ ~gapRuns /\ q # <<>>
  <2>1. queue' = Tail(q) /\ current' \in {Head(q), NoRequest}
    BY <1>1 DEF Pump, Finish
  <2>2. /\ Len(q) \in Nat /\ Tail(q) \in Seq(Polled) /\ Len(Tail(q)) = Len(q) - 1
        /\ \A i \in 1..Len(Tail(q)) : Tail(q)[i] = q[i + 1]
        /\ Head(q) = q[1] /\ Len(q) # 0
    BY <1>1, HeadTailProperties, LenProperties, EmptySeq
  <2>3. \A i \in 1..Len(Tail(q)) : i + 1 \in 1..Len(q) /\ i + 1 # 1 /\ 1 \in 1..Len(q)
    BY <2>2
  <2>4. \A i \in 1..Len(q) : q[i] \in Polled
    BY ElementOfSeq
  <2>5. \A i \in 1..Len(Tail(q)) : Tail(q)[i] # Head(q) /\ Tail(q)[i] # NoRequest
    BY <2>2, <2>3, <2>4, RequestsAreNamed DEF Single
  <2>6. \A i, j \in 1..Len(Tail(q)) : i # j => Tail(q)[i] # Tail(q)[j]
    BY <2>2, <2>3 DEF Single
  <2> QED BY <2>1, <2>5, <2>6 DEF Single
<1>2. CASE ~(current = NoRequest /\ ~gapRuns /\ q # <<>>)
  BY <1>2 DEF Pump, Single
<1> QED BY <1>1, <1>2

LEMMA NothingOut ==
  ASSUME LineTypes, Single(queue), queue' = queue, current' \in {current, NoRequest}
  PROVE  Single(queue)'
<1>1. \A i \in 1..Len(queue) : queue[i] \in Polled
  BY ElementOfSeq DEF LineTypes
<1> QED BY <1>1, RequestsAreNamed DEF Single

LEMMA SingleStep ==
  ASSUME LineTypes, Single(queue), [Next]_vars
  PROVE  Single(queue)'
<1>1. queue \in Seq(Polled)
  BY DEF LineTypes
<1>2. ASSUME NEW due \in DueTogether, PollTick(due) PROVE Single(queue)'
  <2>1. Enqueued(due) \in Seq(Polled) /\ Single(Enqueued(due))
    BY <1>1, DueIsPolled, EnqueuedIsSingle
  <2> QED BY <1>2, <2>1, PumpKeepsSingle DEF PollTick
<1>3. CASE GapEnds
  <2>1. CASE open
    BY <1>1, <1>3, <2>1, PumpKeepsSingle DEF GapEnds
  <2>2. CASE ~open
    BY <1>3, <2>2, NothingOut DEF GapEnds
  <2> QED BY <2>1, <2>2
<1>4. CASE PortLost
  <2>1. queue' = <<>>
    BY <1>4 DEF PortLost
  <2>2. Len(queue') = 0
    BY <2>1, EmptySeq
  <2> QED BY <2>2 DEF Single
<1>5. ASSUME NEW good \in BOOLEAN, Arrive(good) PROVE Single(queue)'
  BY <1>5, NothingOut DEF Arrive, Finish
<1>6. CASE Lose \/ Timeout \/ PortError \/ ConnectFails \/ Connect \/ Elapse \/ UNCHANGED vars
  BY <1>6, NothingOut DEF Lose, Timeout, Finish, PortError, ConnectFails, Connect, Elapse, vars
<1> QED BY <1>2, <1>3, <1>4, <1>5, <1>6 DEF Next

\* However often a request falls due, it is in line once at most: the line is
\* never longer than the list of polls.
THEOREM LineHoldsEachOnce == Spec => []InLineOnce
<1>1. Init => LineTypes /\ ResultTypes
  BY TypesInitially
<1>2. Init => Single(queue)
  <2> SUFFICES ASSUME Init PROVE Single(queue)
    OBVIOUS
  <2>1. queue = <<>> /\ Len(<<>>) = 0
    BY EmptySeq DEF Init
  <2> QED BY <2>1 DEF Single
<1> QED BY <1>1, <1>2, TypeStep, SingleStep, SingleLine, PTL DEF Spec
=============================================================================
