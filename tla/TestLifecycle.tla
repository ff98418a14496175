---------------------------- MODULE TestLifecycle ----------------------------
(***************************************************************************)
(* What the cabinet promises about its self-tests, with nothing said of    *)
(* ticks, clocks or requests: at most one test runs at a time; a test that *)
(* begins leaves exactly one record, in the order the tests began; a test  *)
(* is put aside for another one only when the other one is more urgent.    *)
(* TestController is shown to implement this specification.                *)
(***************************************************************************)
EXTENDS Naturals, Sequences

CONSTANTS
  Tests,      \* every test that may be run
  Urgency(_), \* how urgent a test is: a natural number
  NoTest      \* no test is running

Outcomes == {"Completed", "CutShort"}

VARIABLES
  running,    \* the test in progress, or NoTest
  records     \* the records left so far: a sequence of [test, outcome]

vars == <<running, records>>

Init ==
  /\ running = NoTest
  /\ records = <<>>

Begin ==
  /\ running = NoTest
  /\ running' \in Tests
  /\ UNCHANGED records

End(outcome) ==
  /\ running # NoTest
  /\ running' = NoTest
  /\ records' = Append(records, [test |-> running, outcome |-> outcome])

Supersede ==
  /\ running # NoTest
  /\ running' \in Tests
  /\ Urgency(running') > Urgency(running)
  /\ records' = Append(records, [test |-> running, outcome |-> "CutShort"])

Next == Begin \/ Supersede \/ \E outcome \in Outcomes : End(outcome)

Spec == Init /\ [][Next]_vars
=============================================================================
