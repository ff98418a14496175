------------------------------ MODULE Induction -----------------------------
(***************************************************************************)
(* Induction over the naturals for sets instead of predicates: the         *)
(* library's induction theorems take the predicate as a parameter, which   *)
(* the provers cannot instantiate, a set they can.  Folds over queues and  *)
(* journals are reasoned about with it.                                    *)
(***************************************************************************)
EXTENDS Integers, Sequences, SequencesExt, Queues, SequenceTheorems, WellFoundedInduction, TLAPS

LEMMA LeastElement ==
  ASSUME NEW T, T \subseteq Nat, T # {}
  PROVE  \E n \in T : \A m \in T : n <= m
<1> DEFINE R == OpToRel(<, Nat)
<1>1. \A x, y \in Nat : y < x => <<y, x>> \in R
  BY DEF OpToRel
<1>2. IsWellFoundedOn(R, Nat)
  BY NatLessThanWellFounded
<1> HIDE DEF R
<1>3. PICK x \in T : \A y \in T : ~ (<<y, x>> \in R)
  BY <1>2, WFMin
<1>4. \A y \in T : ~ (y < x)
  BY <1>1, <1>3
<1>5. \A y \in T : x <= y
  BY <1>4
<1> QED BY <1>5

\* A set that has 0 and with each number below n its successor has all up to n.
THEOREM InductionUpTo ==
  ASSUME NEW n \in Nat, NEW S, 0 \in S, \A i \in 0..(n - 1) : i \in S => i + 1 \in S
  PROVE  \A i \in 0..n : i \in S
<1> DEFINE T == {i \in 0..n : i \notin S}
<1> SUFFICES ASSUME T # {} PROVE FALSE
  OBVIOUS
<1>1. T \subseteq Nat
  OBVIOUS
<1>2. PICK m \in T : \A i \in T : m <= i
  BY <1>1, LeastElement
<1>3. m - 1 \in 0..(n - 1) /\ m - 1 \in S
  BY <1>2
<1> QED BY <1>3

\* The largest element of a set of numbers up to n.
LEMMA LargestElement ==
  ASSUME NEW n \in Nat, NEW t, t \subseteq 1..n, t # {}
  PROVE  Max(t) \in t /\ \A x \in t : Max(t) >= x
<1> DEFINE T == {n - x : x \in t}
<1>1. \A x \in t : x \in 1..n
  OBVIOUS
<1>2. T \subseteq Nat /\ T # {}
  <2>1. \A x \in t : n - x \in Nat
    BY <1>1
  <2> QED BY <2>1
<1>3. PICK y \in T : \A z \in T : y <= z
  <2> HIDE DEF T
  <2> QED BY <1>2, LeastElement
<1>4. PICK x \in t : y = n - x
  BY <1>3
<1>5. \A z \in t : n - x <= n - z
  BY <1>3, <1>4
<1>6. \A z \in t : x >= z
  BY <1>1, <1>5
<1> QED BY <1>6 DEF Max

\* What a fold does at a time: it takes the largest index away.
LEMMA WithoutLargest ==
  ASSUME NEW k \in Nat, NEW t \in SUBSET (1..(k + 1)), t # {}
  PROVE  t \ {Max(t)} \in SUBSET (1..k)
<1>1. k + 1 \in Nat /\ t \subseteq 1..(k + 1)
  OBVIOUS
<1>2. Max(t) \in t /\ \A x \in t : Max(t) >= x
  BY <1>1, LargestElement
<1>3. ASSUME NEW x \in t, x # Max(t) PROVE x \in 1..k
  <2>1. x \in 1..(k + 1) /\ Max(t) \in 1..(k + 1) /\ Max(t) >= x
    BY <1>1, <1>2
  <2> QED BY <1>3, <2>1
<1> QED BY <1>3

LEMMA LargestOfInterval ==
  ASSUME NEW n \in Nat, NEW i \in 1..n
  PROVE  /\ 1..i \in SUBSET (1..n) /\ 1..i # {} /\ Max(1..i) = i
         /\ (1..i) \ {Max(1..i)} = 1..(i - 1)
<1>1. i \in Nat /\ 1 <= i
  OBVIOUS
<1>2. 1..i # {} /\ i \in 1..i
  BY <1>1
<1>3. Max(1..i) \in 1..i /\ Max(1..i) >= i
  BY <1>1, <1>2, LargestElement
<1>4. Max(1..i) = i
  BY <1>1, <1>3
<1>5. (1..i) \ {i} = 1..(i - 1)
  OBVIOUS
<1> QED BY <1>2, <1>4, <1>5
-----------------------------------------------------------------------------
(* Selecting from a queue.                                                 *)

\* The selection visits the queue from its head to its end.
LEMMA SelectOneByOne ==
  ASSUME NEW q, Len(q) \in Nat, NEW S
  PROVE  \E path : /\ path[0] = <<>>
                   /\ \A i \in 1..Len(q) : path[i] = IF q[i] \in S THEN Append(path[i - 1], q[i])
                                                     ELSE path[i - 1]
                   /\ Select(q, S) = path[Len(q)]
<1> DEFINE n == Len(q)
<1> n \in Nat
  OBVIOUS
<1> HIDE DEF n
<1> DEFINE Step(f, i) == IF i = 0 THEN <<>>
                         ELSE IF q[i] \in S THEN Append(f[i - 1], q[i]) ELSE f[i - 1]
           IsPath(f, k) == f = [i \in 0..k |-> Step(f, i)]
           T == {k \in 0..n : \E f : IsPath(f, k)}
<1>1. 0 \in T
  <2> DEFINE f == [i \in 0..0 |-> <<>>]
  <2>1. IsPath(f, 0)
    OBVIOUS
  <2>2. 0 \in 0..n
    OBVIOUS
  <2> HIDE DEF IsPath
  <2>3. \E h : IsPath(h, 0)
    BY <2>1
  <2> QED BY <2>2, <2>3
<1>2. ASSUME NEW k \in 0..(n - 1), k \in T PROVE k + 1 \in T
  <2>1. PICK f : IsPath(f, k)
    BY <1>2
  <2> DEFINE g == [i \in 0..(k + 1) |-> Step(f, i)]
  <2>2. \A i \in 0..k : g[i] = f[i]
    <3> HIDE DEF Step
    <3>1. \A i \in 0..k : f[i] = Step(f, i)
      BY <2>1
    <3>2. \A i \in 0..k : g[i] = Step(f, i)
      OBVIOUS
    <3> QED BY <3>1, <3>2
  <2>3. \A i \in 0..(k + 1) : i # 0 => i - 1 \in 0..k
    OBVIOUS
  <2> HIDE DEF g
  <2>4. \A i \in 0..(k + 1) : Step(f, i) = Step(g, i)
    BY <2>2, <2>3
  <2>5. IsPath(g, k + 1)
    BY <2>4 DEF g
  <2> HIDE DEF IsPath
  <2>6. \E h : IsPath(h, k + 1)
    BY <2>5
  <2> QED BY <2>6
<1>3. n \in T
  <2> HIDE DEF T
  <2>1. \A i \in 0..n : i \in T
    BY <1>1, <1>2, InductionUpTo
  <2> QED BY <2>1
<1> DEFINE path == CHOOSE f : IsPath(f, n)
<1>4. IsPath(path, n)
  BY <1>3
<1>5. Select(q, S) = path[n]
  BY DEF Select, n
<1> HIDE DEF path
<1>6. \A i \in 0..n : path[i] = Step(path, i)
  <2> HIDE DEF Step
  <2> QED BY <1>4
<1>7. path[0] = <<>>
  BY <1>6
<1>8. ASSUME NEW i \in 1..n
      PROVE  path[i] = IF q[i] \in S THEN Append(path[i - 1], q[i]) ELSE path[i - 1]
  <2>1. i \in 0..n /\ i # 0
    OBVIOUS
  <2>2. path[i] = Step(path, i)
    BY <1>6, <2>1
  <2> QED BY <2>1, <2>2
<1> QED BY <1>5, <1>7, <1>8 DEF n

\* The selection has the requests of the queue that are in S, each of them from
\* a place of its own.
THEOREM SelectShape ==
  ASSUME NEW R, NEW q \in Seq(R), NEW S
  PROVE  /\ Select(q, S) \in Seq(R)
         /\ \A x \in Range(q) \cap S : x \in Range(Select(q, S))
         /\ \E from \in [DOMAIN Select(q, S) -> DOMAIN q] :
              /\ \A a \in DOMAIN Select(q, S) : Select(q, S)[a] = q[from[a]] /\ q[from[a]] \in S
              /\ \A a, b \in DOMAIN Select(q, S) : from[a] = from[b] => a = b
<1>0. \E path : /\ path[0] = <<>>
                /\ \A i \in 1..Len(q) : path[i] = IF q[i] \in S THEN Append(path[i - 1], q[i])
                                                ELSE path[i - 1]
                /\ Select(q, S) = path[Len(q)]
  <2>1. Len(q) \in Nat
    OBVIOUS
  <2> QED BY <2>1, SelectOneByOne
<1> DEFINE n == Len(q)
<1>1. n \in Nat /\ DOMAIN q = 1..n /\ \A i \in 1..n : q[i] \in R
  OBVIOUS
<1>2. PICK path : /\ path[0] = <<>>
                  /\ \A i \in 1..n : path[i] = IF q[i] \in S THEN Append(path[i - 1], q[i])
                                               ELSE path[i - 1]
                  /\ Select(q, S) = path[n]
  BY <1>0
<1> HIDE DEF n
<1> DEFINE Good(i) ==
             /\ path[i] \in Seq(R)
             /\ \A j \in 1..i : q[j] \in S => q[j] \in Range(path[i])
             /\ \E from \in [DOMAIN path[i] -> 1..i] :
                  /\ \A a \in DOMAIN path[i] : path[i][a] = q[from[a]] /\ q[from[a]] \in S
                  /\ \A a, b \in DOMAIN path[i] : from[a] = from[b] => a = b
           T == {i \in 0..n : Good(i)}
<1>3. Good(0)
  <2>1. path[0] = <<>> /\ DOMAIN path[0] = {} /\ <<>> \in Seq(R)
    BY <1>2
  <2>2. [a \in {} |-> 0] \in [DOMAIN path[0] -> 1..0]
    BY <2>1
  <2>3. \E from \in [DOMAIN path[0] -> 1..0] :
          /\ \A a \in DOMAIN path[0] : path[0][a] = q[from[a]] /\ q[from[a]] \in S
          /\ \A a, b \in DOMAIN path[0] : from[a] = from[b] => a = b
    BY <2>1, <2>2
  <2>4. path[0] \in Seq(R) /\ \A j \in 1..0 : q[j] \in S => q[j] \in Range(path[0])
    BY <2>1
  <2> QED BY <2>3, <2>4
<1>4. ASSUME NEW i \in 0..(n - 1), Good(i) PROVE Good(i + 1)
  <2> DEFINE old == path[i]
             new == path[i + 1]
             x   == q[i + 1]
  <2>1. i + 1 \in 1..n /\ i \in Nat /\ x \in R /\ (i + 1) - 1 = i
    BY <1>1
  <2>2. new = IF x \in S THEN Append(old, x) ELSE old
    BY <1>2, <2>1
  <2>3. old \in Seq(R) /\ DOMAIN old = 1..Len(old) /\ Len(old) \in Nat
    BY <1>4
  <2>4. PICK from \in [DOMAIN old -> 1..i] :
          /\ \A a \in DOMAIN old : old[a] = q[from[a]] /\ q[from[a]] \in S
          /\ \A a, b \in DOMAIN old : from[a] = from[b] => a = b
    BY <1>4
  <2>5. \A j \in 1..i : q[j] \in S => q[j] \in Range(old)
    BY <1>4
  <2>6. \A j \in 1..(i + 1) : j \in 1..i \/ j = i + 1
    BY <2>1
  <2> HIDE DEF old, new, x, Good
  <2>7. CASE x \in S
    <3> DEFINE more == [a \in 1..(Len(old) + 1) |-> IF a = Len(old) + 1 THEN i + 1 ELSE from[a]]
    <3>1. /\ new \in Seq(R) /\ Len(new) = Len(old) + 1 /\ new[Len(old) + 1] = x
          /\ \A a \in 1..Len(old) : new[a] = old[a]
      BY <2>1, <2>2, <2>3, <2>7, AppendProperties
    <3>2. DOMAIN new = 1..(Len(old) + 1)
      BY <2>3, <3>1
    <3>3. \A a \in 1..(Len(old) + 1) : a \in 1..Len(old) \/ a = Len(old) + 1
      BY <2>3
    <3>4. more \in [DOMAIN new -> 1..(i + 1)]
      BY <2>1, <2>3, <2>4, <3>2, <3>3
    <3>5. \A a \in DOMAIN new : new[a] = q[more[a]] /\ q[more[a]] \in S
      BY <2>3, <2>4, <2>7, <3>1, <3>2, <3>3 DEF x
    <3>6. \A a, b \in DOMAIN new : more[a] = more[b] => a = b
      BY <2>1, <2>3, <2>4, <3>2, <3>3
    <3>7. Range(old) \subseteq Range(new) /\ x \in Range(new)
      BY <2>3, <3>1, <3>2, <3>3 DEF Range
    <3>8. \A j \in 1..(i + 1) : q[j] \in S => q[j] \in Range(new)
      BY <2>5, <2>6, <3>7 DEF x
    <3> QED BY <3>1, <3>4, <3>5, <3>6, <3>8 DEF Good, new
  <2>8. CASE x \notin S
    <3>1. new = old
      BY <2>2, <2>8
    <3>2. from \in [DOMAIN new -> 1..(i + 1)]
      BY <2>1, <2>4, <3>1
    <3>3. \A j \in 1..(i + 1) : q[j] \in S => q[j] \in Range(new)
      BY <2>5, <2>6, <2>8, <3>1 DEF x
    <3> QED BY <2>3, <2>4, <3>1, <3>2, <3>3 DEF Good, new
  <2> QED BY <2>7, <2>8
<1>5. n \in T
  <2>1. \A i \in 0..(n - 1) : i \in T => i + 1 \in T
    <3> HIDE DEF Good
    <3> QED BY <1>1, <1>4
  <2>2. 0 \in T
    BY <1>1, <1>3
  <2> HIDE DEF T
  <2>3. \A i \in 0..n : i \in T
    BY <1>1, <2>1, <2>2, InductionUpTo
  <2> QED BY <1>1, <2>3
<1>6. Good(n)
  <2> HIDE DEF Good
  <2> QED BY <1>5
<1>7. \A x \in Range(q) \cap S : x \in Range(path[n])
  <2> SUFFICES ASSUME NEW x \in Range(q) \cap S PROVE x \in Range(path[n])
    OBVIOUS
  <2>1. PICK j \in 1..n : x = q[j]
    BY <1>1 DEF Range
  <2> QED BY <1>6, <2>1
<1> QED BY <1>1, <1>2, <1>6, <1>7

\* The selection has nothing else.
COROLLARY SelectedAreWanted ==
  ASSUME NEW R, NEW q \in Seq(R), NEW S
  PROVE  Select(q, S) \in Seq(S)
<1>1. Select(q, S) \in Seq(R) /\ \A a \in DOMAIN Select(q, S) : Select(q, S)[a] \in S
  BY SelectShape
<1>2. Range(Select(q, S)) \subseteq S
  BY <1>1 DEF Range
<1> QED BY <1>1, <1>2, SeqOfRange, SeqMonotonic
=============================================================================
