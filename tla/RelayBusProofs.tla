--------------------------- MODULE RelayBusProofs ---------------------------
(***************************************************************************)
(* The queues of the relay bus, for any number of modules and any bytes.   *)
(***************************************************************************)
EXTENDS RelayBus, Induction, SequenceTheorems, FiniteSetTheorems

USE BusAssumption DEF Modules

Writes     == {Write(m, b) : m \in Modules, b \in Bytes}
InputReads == {ReadInputs(m) : m \in Modules}
CoilReads  == {ReadCoils(m) : m \in Modules}

Distinct(queue) == \A i, j \in DOMAIN queue : queue[i].module = queue[j].module => i = j

\* Each queue has its kind of request, at most one of them for a module.
GoodBus(b) ==
  /\ b \in [outstanding : Requests \cup {Nothing}, high : Seq(Writes),
            normal : Seq(InputReads), low : Seq(CoilReads)]
  /\ Distinct(b.high) /\ Distinct(b.normal) /\ Distinct(b.low)

\* A write of m waits or is on the wire.
Pending(b, m) == \E r \in Range(b.high) \cup {b.outstanding} : r \in Writes /\ r.module = m

\* The write of m that will be the last one carries the byte v, if there is one.
Latest(b, m, v) ==
  /\ \A r \in Range(b.high) : r.module = m => r.bits = v
  /\ \/ \E r \in Range(b.high) : r.module = m
     \/ b.outstanding \in Writes /\ b.outstanding.module = m => b.outstanding.bits = v

\* From the bus b to the bus p requests went out in their order: a poll only
\* when no write waited.
Advance(b, p) ==
  /\ Range(p.high) \subseteq Range(b.high)
  /\ \A r \in Range(b.high) : r \in Range(p.high) \/ r = p.outstanding
  /\ \/ p.outstanding = b.outstanding
     \/ b.outstanding = Nothing /\ p.outstanding \in Range(b.high)
     \/ /\ b.outstanding = Nothing /\ p.outstanding \in InputReads \cup CoilReads
        /\ b.high = <<>> /\ p.high = <<>>
-----------------------------------------------------------------------------
(* Requests and queues.                                                    *)

LEMMA RequestKinds ==
  /\ \A r \in Writes : /\ r.type = "WriteCoils8" /\ r.module \in Modules /\ r.bits \in Bytes
                       /\ r \in Requests /\ r = Write(r.module, r.bits)
  /\ \A r \in InputReads : r.type = "ReadInputs" /\ r.module \in Modules /\ r \in Requests
                           /\ r = ReadInputs(r.module)
  /\ \A r \in CoilReads : r.type = "ReadCoils" /\ r.module \in Modules /\ r \in Requests
                          /\ r = ReadCoils(r.module)
  /\ \A r \in Requests : r # Nothing /\ (r.type = "WriteCoils8" <=> r \in Writes)
  /\ Nothing.type = "None" /\ Nothing \notin Writes
<1>1. Requests = Writes \cup InputReads \cup CoilReads
  BY DEF Writes, InputReads, CoilReads, Requests
<1>2. ASSUME NEW r \in Writes
      PROVE  /\ r.type = "WriteCoils8" /\ r.module \in Modules /\ r.bits \in Bytes
             /\ r = Write(r.module, r.bits)
  <2>1. PICK m \in Modules, b \in Bytes : r = Write(m, b)
    BY DEF Writes
  <2> QED BY <2>1 DEF Write
<1>3. ASSUME NEW r \in InputReads
      PROVE  r.type = "ReadInputs" /\ r.module \in Modules /\ r = ReadInputs(r.module)
  <2>1. PICK m \in Modules : r = ReadInputs(m)
    BY DEF InputReads
  <2> QED BY <2>1 DEF ReadInputs
<1>4. ASSUME NEW r \in CoilReads
      PROVE  r.type = "ReadCoils" /\ r.module \in Modules /\ r = ReadCoils(r.module)
  <2>1. PICK m \in Modules : r = ReadCoils(m)
    BY DEF CoilReads
  <2> QED BY <2>1 DEF ReadCoils
<1>5. Nothing.type = "None"
  BY DEF Nothing
<1>6. ASSUME NEW r \in Requests PROVE r # Nothing /\ (r.type = "WriteCoils8" <=> r \in Writes)
  <2>1. r.type \in {"WriteCoils8", "ReadInputs", "ReadCoils"}
    BY <1>1, <1>2, <1>3, <1>4
  <2>2. r.type = "WriteCoils8" <=> r \in Writes
    BY <1>1, <1>2, <1>3, <1>4
  <2> QED BY <1>5, <2>1, <2>2
<1>7. Nothing \notin Writes
  BY <1>2, <1>5
<1> QED BY <1>1, <1>2, <1>3, <1>4, <1>5, <1>6, <1>7

\* What the head and the rest of a queue are.
LEMMA HeadAndTail ==
  ASSUME NEW R, NEW q \in Seq(R), q # <<>>, Distinct(q)
  PROVE  /\ Head(q) \in R /\ Head(q) \in Range(q)
         /\ Tail(q) \in Seq(R) /\ Distinct(Tail(q))
         /\ Range(Tail(q)) \subseteq Range(q)
         /\ \A r \in Range(q) : r \in Range(Tail(q)) \/ r = Head(q)
<1>1. /\ Len(q) \in Nat \ {0} /\ DOMAIN q = 1..Len(q) /\ Head(q) = q[1]
      /\ Tail(q) \in Seq(R) /\ Len(Tail(q)) = Len(q) - 1
      /\ \A i \in 1..Len(Tail(q)) : Tail(q)[i] = q[i + 1]
  BY HeadTailProperties, EmptySeq, LenProperties
<1>2. DOMAIN Tail(q) = 1..(Len(q) - 1)
  BY <1>1, LenProperties
<1>3. \A i \in 1..(Len(q) - 1) : i + 1 \in DOMAIN q /\ Tail(q)[i] = q[i + 1]
  BY <1>1
<1>4. \A i \in 1..Len(q) : i = 1 \/ i - 1 \in 1..(Len(q) - 1)
  BY <1>1
<1>5. Distinct(Tail(q))
  <2> SUFFICES ASSUME NEW i \in DOMAIN Tail(q), NEW j \in DOMAIN Tail(q),
                      Tail(q)[i].module = Tail(q)[j].module
               PROVE  i = j
    BY DEF Distinct
  <2>1. i + 1 = j + 1
    BY <1>2, <1>3 DEF Distinct
  <2> QED BY <1>1, <1>2, <2>1
<1>6. Range(Tail(q)) \subseteq Range(q)
  BY <1>2, <1>3 DEF Range
<1>7. ASSUME NEW r \in Range(q) PROVE r \in Range(Tail(q)) \/ r = Head(q)
  <2>1. PICK i \in 1..Len(q) : r = q[i]
    BY <1>1 DEF Range
  <2>2. CASE i = 1
    BY <1>1, <2>1, <2>2
  <2>3. CASE i - 1 \in 1..(Len(q) - 1)
    <3>1. Tail(q)[i - 1] = q[i]
      BY <1>1, <1>3, <2>3
    <3> QED BY <1>2, <2>1, <2>3, <3>1 DEF Range
  <2> QED BY <1>4, <2>2, <2>3
<1>8. Head(q) \in R /\ Head(q) \in Range(q)
  BY <1>1 DEF Range
<1> QED BY <1>1, <1>5, <1>6, <1>7, <1>8

LEMMA EmptyRange ==
  ASSUME NEW S, NEW q \in Seq(S)
  PROVE  Range(q) = {} <=> q = <<>>
<1>1. DOMAIN q = 1..Len(q) /\ (q # <<>> => Len(q) \in Nat \ {0})
  BY LenProperties, EmptySeq
<1>2. CASE q = <<>>
  BY <1>2 DEF Range
<1>3. CASE q # <<>>
  <2>1. 1 \in DOMAIN q
    BY <1>1, <1>3
  <2> QED BY <1>3, <2>1 DEF Range
<1> QED BY <1>2, <1>3

\* A write replaces the one of its module.
LEMMA WriteReplaces ==
  ASSUME NEW q \in Seq(Writes), Distinct(q), NEW r \in Writes
  PROVE  LET w == WithWrite(q, r)
         IN  /\ w \in Seq(Writes) /\ Distinct(w)
             /\ r \in Range(w)
             /\ \A x \in Range(w) : x = r \/ (x \in Range(q) /\ x.module # r.module)
             /\ \A x \in Range(q) : x.module # r.module => x \in Range(w)
<1> DEFINE others == OfOthers[r.module]
           kept   == Without(q, r.module)
           w      == Append(kept, r)
<1>1. others = {x \in Requests : x.module # r.module}
  BY RequestKinds DEF OfOthers
<1>2. kept = Select(q, others)
  BY DEF Without
<1> HIDE DEF others, kept
<1>3. /\ kept \in Seq(Writes)
      /\ \A x \in Range(q) \cap others : x \in Range(kept)
      /\ \E from \in [DOMAIN kept -> DOMAIN q] :
           /\ \A a \in DOMAIN kept : kept[a] = q[from[a]] /\ q[from[a]] \in others
           /\ \A a, b \in DOMAIN kept : from[a] = from[b] => a = b
  BY <1>2, SelectShape
<1>4. PICK from \in [DOMAIN kept -> DOMAIN q] :
        /\ \A a \in DOMAIN kept : kept[a] = q[from[a]] /\ q[from[a]] \in others
        /\ \A a, b \in DOMAIN kept : from[a] = from[b] => a = b
  BY <1>3
<1>5. \A x \in Range(q) : x \in Writes
  <2>1. \A i \in 1..Len(q) : q[i] \in Writes
    BY ElementOfSeq
  <2> QED BY <2>1, LenProperties DEF Range
<1>6. Distinct(kept)
  <2> SUFFICES ASSUME NEW a \in DOMAIN kept, NEW b \in DOMAIN kept,
                      kept[a].module = kept[b].module
               PROVE  a = b
    BY DEF Distinct
  <2>1. from[a] = from[b]
    BY <1>4 DEF Distinct
  <2> QED BY <1>4, <2>1
<1>7. \A x \in Range(kept) : x \in Range(q) /\ x.module # r.module
  BY <1>1, <1>4 DEF Range
<1>8. /\ w \in Seq(Writes) /\ Len(kept) \in Nat /\ DOMAIN kept = 1..Len(kept)
      /\ DOMAIN w = 1..(Len(kept) + 1) /\ w[Len(kept) + 1] = r
      /\ \A i \in 1..Len(kept) : w[i] = kept[i]
  BY <1>3, AppendProperties, LenProperties
<1> HIDE DEF w
<1>9. \A i \in 1..(Len(kept) + 1) : i \in 1..Len(kept) \/ i = Len(kept) + 1
  BY <1>8
<1>10. Range(w) = Range(kept) \cup {r}
  <2>1. \A x \in Range(w) : x \in Range(kept) \cup {r}
    BY <1>8, <1>9 DEF Range
  <2>2. \A x \in Range(kept) : x \in Range(w)
    <3>1. 1..Len(kept) \subseteq 1..(Len(kept) + 1)
      BY <1>8
    <3> QED BY <1>8, <3>1 DEF Range
  <2>3. r \in Range(w)
    <3>1. Len(kept) + 1 \in 1..(Len(kept) + 1)
      BY <1>8
    <3> QED BY <1>8, <3>1 DEF Range
  <2> QED BY <2>1, <2>2, <2>3
<1>11. Distinct(w)
  <2>1. \A i \in 1..Len(kept) : kept[i].module # r.module
    BY <1>7, <1>8 DEF Range
  <2> QED BY <1>6, <1>8, <1>9, <2>1 DEF Distinct
<1>12. \A x \in Range(q) : x.module # r.module => x \in Range(kept)
  BY <1>1, <1>3, <1>5, RequestKinds
<1>13. w = WithWrite(q, r)
  BY DEF w, kept, WithWrite
<1> QED BY <1>7, <1>8, <1>10, <1>11, <1>12, <1>13
\* A poll waits once: requests of one kind for one module are equal.
LEMMA PollWaitsOnce ==
  ASSUME NEW R \in {InputReads, CoilReads}, NEW q \in Seq(R), Distinct(q), NEW r \in R
  PROVE  WithPoll(q, r) \in Seq(R) /\ Distinct(WithPoll(q, r))
<1> DEFINE w == Append(q, r)
<1>1. \A x, y \in R : x.module = y.module => x = y
  BY RequestKinds
<1>2. /\ w \in Seq(R) /\ Len(q) \in Nat /\ DOMAIN q = 1..Len(q)
      /\ DOMAIN w = 1..(Len(q) + 1) /\ w[Len(q) + 1] = r
      /\ \A i \in 1..Len(q) : w[i] = q[i] /\ q[i] \in R
  BY AppendProperties, LenProperties, ElementOfSeq
<1>3. CASE Contains(q, r)
  BY <1>3 DEF WithPoll
<1>4. CASE ~Contains(q, r)
  <2>1. \A i \in 1..Len(q) : q[i].module # r.module
    BY <1>1, <1>2, <1>4 DEF Contains
  <2>2. \A i \in 1..(Len(q) + 1) : i \in 1..Len(q) \/ i = Len(q) + 1
    BY <1>2
  <2> HIDE DEF w
  <2>3. Distinct(w)
    BY <1>2, <2>1, <2>2 DEF Distinct
  <2> QED BY <1>2, <1>4, <2>3 DEF WithPoll, w
<1> QED BY <1>3, <1>4
-----------------------------------------------------------------------------
(* Requests go out.                                                        *)

LEMMA PumpAdvances ==
  ASSUME NEW b, GoodBus(b), NEW open \in BOOLEAN
  PROVE  /\ GoodBus(Pump(b, open)) /\ Advance(b, Pump(b, open))
         /\ ~open => Pump(b, open) = b
<1> DEFINE p == Pump(b, open)
<1>1. /\ b.outstanding \in Requests \cup {Nothing} /\ b.high \in Seq(Writes)
      /\ b.normal \in Seq(InputReads) /\ b.low \in Seq(CoilReads)
      /\ Distinct(b.high) /\ Distinct(b.normal) /\ Distinct(b.low)
      /\ b = [outstanding |-> b.outstanding, high |-> b.high, normal |-> b.normal, low |-> b.low]
  BY DEF GoodBus
<1>2. ~open => p = b
  BY DEF Pump
<1>3. CASE ~open \/ b.outstanding # Nothing \/ b[Urgent(b)] = <<>>
  <2>1. p = b
    BY <1>3 DEF Pump
  <2> QED BY <1>2, <2>1 DEF Advance
<1>4. CASE open /\ b.outstanding = Nothing /\ Urgent(b) = "high" /\ b.high # <<>>
  <2>1. p = [outstanding |-> Head(b.high), high |-> Tail(b.high),
             normal |-> b.normal, low |-> b.low]
    BY <1>1, <1>4 DEF Pump
  <2>2. /\ Head(b.high) \in Writes /\ Head(b.high) \in Range(b.high)
        /\ Tail(b.high) \in Seq(Writes) /\ Distinct(Tail(b.high))
        /\ Range(Tail(b.high)) \subseteq Range(b.high)
        /\ \A r \in Range(b.high) : r \in Range(Tail(b.high)) \/ r = Head(b.high)
    BY <1>1, <1>4, HeadAndTail
  <2>3. Head(b.high) \in Requests
    BY <2>2, RequestKinds
  <2> HIDE DEF p
  <2>4. GoodBus(p)
    BY <1>1, <2>1, <2>2, <2>3 DEF GoodBus
  <2>5. Advance(b, p)
    BY <1>4, <2>1, <2>2 DEF Advance
  <2> QED BY <1>4, <2>4, <2>5 DEF p
<1>5. CASE open /\ b.outstanding = Nothing /\ Urgent(b) = "normal" /\ b.normal # <<>>
  <2>1. p = [outstanding |-> Head(b.normal), high |-> b.high,
             normal |-> Tail(b.normal), low |-> b.low]
    BY <1>1, <1>5 DEF Pump
  <2>2. /\ Head(b.normal) \in InputReads
        /\ Tail(b.normal) \in Seq(InputReads) /\ Distinct(Tail(b.normal))
    BY <1>1, <1>5, HeadAndTail
  <2>3. Head(b.normal) \in Requests /\ b.high = <<>>
    BY <1>5, <2>2, RequestKinds DEF Urgent
  <2> HIDE DEF p
  <2>4. GoodBus(p)
    BY <1>1, <2>1, <2>2, <2>3 DEF GoodBus
  <2>5. Advance(b, p)
    BY <1>5, <2>1, <2>2, <2>3 DEF Advance
  <2> QED BY <1>5, <2>4, <2>5 DEF p
<1>6. CASE open /\ b.outstanding = Nothing /\ Urgent(b) = "low" /\ b.low # <<>>
  <2>1. p = [outstanding |-> Head(b.low), high |-> b.high,
             normal |-> b.normal, low |-> Tail(b.low)]
    BY <1>1, <1>6 DEF Pump
  <2>2. /\ Head(b.low) \in CoilReads
        /\ Tail(b.low) \in Seq(CoilReads) /\ Distinct(Tail(b.low))
    BY <1>1, <1>6, HeadAndTail
  <2>3. Head(b.low) \in Requests /\ b.high = <<>>
    BY <1>6, <2>2, RequestKinds DEF Urgent
  <2> HIDE DEF p
  <2>4. GoodBus(p)
    BY <1>1, <2>1, <2>2, <2>3 DEF GoodBus
  <2>5. Advance(b, p)
    BY <1>6, <2>1, <2>2, <2>3 DEF Advance
  <2> QED BY <1>6, <2>4, <2>5 DEF p
<1>7. Urgent(b) \in {"high", "normal", "low"}
  BY DEF Urgent
<1> QED BY <1>3, <1>4, <1>5, <1>6, <1>7

LEMMA AdvanceIsTransitive ==
  ASSUME NEW a, NEW b, NEW c, GoodBus(a), GoodBus(b), GoodBus(c), Advance(a, b), Advance(b, c)
  PROVE  Advance(a, c)
<1>1. \A r \in Range(a.high) : r \in Writes
  BY RangeOfSeq DEF GoodBus
<1>2. \A r \in Writes \cup InputReads \cup CoilReads : r # Nothing
  BY RequestKinds
<1>3. Range(c.high) \subseteq Range(a.high)
  BY DEF Advance
<1>4. ASSUME NEW r \in Range(a.high) PROVE r \in Range(c.high) \/ r = c.outstanding
  <2>1. CASE r \in Range(b.high)
    BY <2>1 DEF Advance
  <2>2. CASE r = b.outstanding
    BY <1>1, <1>2, <2>2 DEF Advance
  <2> QED BY <2>1, <2>2 DEF Advance
<1>5. \/ c.outstanding = a.outstanding
      \/ a.outstanding = Nothing /\ c.outstanding \in Range(a.high)
      \/ /\ a.outstanding = Nothing /\ c.outstanding \in InputReads \cup CoilReads
         /\ a.high = <<>> /\ c.high = <<>>
  <2>1. CASE b.outstanding = a.outstanding
    <3>1. CASE b.outstanding = Nothing /\ c.outstanding \in InputReads \cup CoilReads
               /\ b.high = <<>> /\ c.high = <<>>
      <4>1. Range(b.high) = {}
        BY <3>1, EmptyRange DEF GoodBus
      <4>2. Range(a.high) = {}
        BY <1>1, <1>2, <2>1, <3>1, <4>1 DEF Advance
      <4>3. a.high = <<>>
        BY <4>2, EmptyRange DEF GoodBus
      <4> QED BY <2>1, <3>1, <4>3
    <3> QED BY <2>1, <3>1 DEF Advance
  <2>2. CASE a.outstanding = Nothing /\ b.outstanding \in Range(a.high)
    BY <1>1, <1>2, <2>2 DEF Advance
  <2>3. CASE /\ a.outstanding = Nothing /\ b.outstanding \in InputReads \cup CoilReads
             /\ a.high = <<>> /\ b.high = <<>>
    <3>1. c.outstanding = b.outstanding
      BY <1>2, <2>3 DEF Advance
    <3>2. Range(c.high) = {}
      BY <2>3, EmptyRange DEF Advance, GoodBus
    <3>3. c.high = <<>>
      BY <3>2, EmptyRange DEF GoodBus
    <3> QED BY <2>3, <3>1, <3>3
  <2> QED BY <2>1, <2>2, <2>3 DEF Advance
<1> QED BY <1>3, <1>4, <1>5 DEF Advance

\* What goes out changes neither which write is the last one nor that one is due.
LEMMA AdvanceKeeps ==
  ASSUME NEW b, NEW p, GoodBus(b), GoodBus(p), Advance(b, p), NEW m \in Modules
  PROVE  /\ \A v : Latest(b, m, v) => Latest(p, m, v)
         /\ Pending(b, m) => Pending(p, m)
<1>1. \A r \in Range(b.high) : r \in Writes
  BY RangeOfSeq DEF GoodBus
<1>2. \A r \in InputReads \cup CoilReads : r \notin Writes
  BY RequestKinds
<1>3. ASSUME NEW v, Latest(b, m, v) PROVE Latest(p, m, v)
  <2>1. \A r \in Range(p.high) : r.module = m => r.bits = v
    BY <1>3 DEF Latest, Advance
  <2>2. ASSUME p.outstanding \in Writes, p.outstanding.module = m, p.outstanding.bits # v
        PROVE  \E r \in Range(p.high) : r.module = m
    <3>1. p.outstanding \notin Range(b.high)
      BY <1>3, <2>2 DEF Latest
    <3>2. p.outstanding = b.outstanding
      BY <1>2, <2>2, <3>1 DEF Advance
    <3>3. PICK r \in Range(b.high) : r.module = m
      BY <1>3, <2>2, <3>2 DEF Latest
    <3>4. r \in Range(p.high)
      BY <3>1, <3>3 DEF Advance
    <3> QED BY <3>3, <3>4
  <2> QED BY <2>1, <2>2 DEF Latest
<1>4. Pending(b, m) => Pending(p, m)
  <2> SUFFICES ASSUME Pending(b, m) PROVE Pending(p, m)
    OBVIOUS
  <2>1. PICK r \in Range(b.high) \cup {b.outstanding} : r \in Writes /\ r.module = m
    BY DEF Pending
  <2>2. r # Nothing
    BY <2>1, RequestKinds
  <2>3. r \in Range(p.high) \cup {p.outstanding}
    BY <2>1, <2>2 DEF Advance
  <2> QED BY <2>1, <2>3 DEF Pending
<1> QED BY <1>3, <1>4
-----------------------------------------------------------------------------
(* Requests are queued.                                                    *)

\* From the bus a to the bus b the writes of the modules in done were queued.
Written(a, b, done, bytes) ==
  /\ GoodBus(b)
  /\ \A m \in done : Latest(b, m, bytes[m]) /\ Pending(b, m)
  /\ \A m \in Modules \ done : \A v : Latest(a, m, v) => Latest(b, m, v)
  /\ \A m \in Modules : Pending(a, m) => Pending(b, m)
  /\ \A r \in Range(b.high) : r.module \in done \/ r \in Range(a.high)
  /\ \/ b.outstanding = a.outstanding
     \/ connected /\ a.outstanding = Nothing /\ b.outstanding \in Writes

LEMMA OneMoreWritten ==
  ASSUME connected \in BOOLEAN, NEW bytes \in [Modules -> Bytes],
         NEW a, NEW b, NEW done \in SUBSET Modules, Written(a, b, done, bytes), NEW m \in Modules
  PROVE  Written(a, Enqueue(b, Write(m, bytes[m])), done \cup {m}, bytes)
<1> DEFINE r == Write(m, bytes[m])
           w == [b EXCEPT !.high = WithWrite(b.high, r)]
           e == Pump(w, connected)
<1>1. /\ r \in Writes /\ r.type = "WriteCoils8" /\ r.module = m /\ r.bits = bytes[m]
  <2>1. bytes[m] \in Bytes
    OBVIOUS
  <2>2. r \in Writes
    BY <2>1 DEF Writes
  <2> QED BY <2>2 DEF Write
<1>2. Enqueue(b, r) = e
  BY <1>1 DEF Enqueue
<1>3. GoodBus(b)
  BY DEF Written
<1> HIDE DEF r
<1>4. /\ WithWrite(b.high, r) \in Seq(Writes) /\ Distinct(WithWrite(b.high, r))
      /\ r \in Range(WithWrite(b.high, r))
      /\ \A x \in Range(WithWrite(b.high, r)) : x = r \/ (x \in Range(b.high) /\ x.module # m)
      /\ \A x \in Range(b.high) : x.module # m => x \in Range(WithWrite(b.high, r))
  BY <1>1, <1>3, WriteReplaces DEF GoodBus
<1>5. /\ w.high = WithWrite(b.high, r) /\ w.outstanding = b.outstanding
      /\ w.normal = b.normal /\ w.low = b.low /\ GoodBus(w)
  BY <1>3, <1>4 DEF GoodBus
<1> HIDE DEF w
<1>6. GoodBus(e) /\ Advance(w, e) /\ (~connected => e = w)
  BY <1>5, PumpAdvances
<1> HIDE DEF e
<1>7. \A x \in Range(b.high) : x \in Writes
  BY <1>3, RangeOfSeq DEF GoodBus
<1>8. Latest(w, m, bytes[m]) /\ Pending(w, m)
  BY <1>1, <1>4, <1>5 DEF Latest, Pending
<1>9. ASSUME NEW k \in Modules, k # m PROVE \A v : Latest(b, k, v) => Latest(w, k, v)
  BY <1>1, <1>4, <1>5, <1>9 DEF Latest
<1>10. ASSUME NEW k \in Modules, Pending(b, k) PROVE Pending(w, k)
  <2>1. CASE k = m
    BY <1>8, <2>1
  <2>2. CASE k # m
    BY <1>4, <1>5, <1>10, <2>2 DEF Pending
  <2> QED BY <2>1, <2>2
<1>11. \A k \in Modules : /\ \A v : Latest(w, k, v) => Latest(e, k, v)
                          /\ Pending(w, k) => Pending(e, k)
  BY <1>5, <1>6, AdvanceKeeps
<1>12. \A k \in done \cup {m} : Latest(e, k, bytes[k]) /\ Pending(e, k)
  <2>1. \A k \in done : k \in Modules /\ Latest(b, k, bytes[k]) /\ Pending(b, k)
    BY DEF Written
  <2> QED BY <1>8, <1>9, <1>10, <1>11, <2>1
<1>13. \A k \in Modules \ (done \cup {m}) : \A v : Latest(a, k, v) => Latest(e, k, v)
  <2>1. \A k \in Modules \ done : \A v : Latest(a, k, v) => Latest(b, k, v)
    BY DEF Written
  <2> QED BY <1>9, <1>11, <2>1
<1>14. \A k \in Modules : Pending(a, k) => Pending(e, k)
  BY <1>10, <1>11 DEF Written
<1>15. \A x \in Range(e.high) : x.module \in done \cup {m} \/ x \in Range(a.high)
  <2>1. \A x \in Range(e.high) : x \in Range(w.high)
    BY <1>6 DEF Advance
  <2> QED BY <1>1, <1>4, <1>5, <2>1 DEF Written
<1>16. \/ e.outstanding = a.outstanding
       \/ connected /\ a.outstanding = Nothing /\ e.outstanding \in Writes
  <2>1. w.high # <<>>
    <3>1. Range(w.high) # {} /\ w.high \in Seq(Writes)
      BY <1>4, <1>5
    <3> QED BY <3>1, EmptyRange
  <2>2. \A x \in Range(w.high) : x \in Writes
    BY <1>1, <1>4, <1>5, <1>7
  <2>3. \/ e.outstanding = b.outstanding
        \/ connected /\ b.outstanding = Nothing /\ e.outstanding \in Writes
    BY <1>5, <1>6, <2>1, <2>2 DEF Advance
  <2>4. \/ b.outstanding = a.outstanding
        \/ connected /\ a.outstanding = Nothing /\ b.outstanding \in Writes
    BY DEF Written
  <2>5. Nothing \notin Writes
    BY RequestKinds
  <2> QED BY <2>3, <2>4, <2>5
<1>17. Written(a, e, done \cup {m}, bytes)
  BY <1>6, <1>12, <1>13, <1>14, <1>15, <1>16 DEF Written
<1> QED BY <1>2, <1>17 DEF r

LEMMA PollQueued ==
  ASSUME connected \in BOOLEAN, NEW b, GoodBus(b), NEW r \in InputReads \cup CoilReads
  PROVE  GoodBus(Enqueue(b, r)) /\ Advance(b, Enqueue(b, r))
<1> DEFINE n == [b EXCEPT !.normal = WithPoll(b.normal, r)]
           l == [b EXCEPT !.low = WithPoll(b.low, r)]
<1>1. CASE r \in InputReads
  <2>1. Enqueue(b, r) = Pump(n, connected)
    BY <1>1, RequestKinds DEF Enqueue
  <2>2. WithPoll(b.normal, r) \in Seq(InputReads) /\ Distinct(WithPoll(b.normal, r))
    BY <1>1, PollWaitsOnce DEF GoodBus
  <2>3. GoodBus(n) /\ n.high = b.high /\ n.outstanding = b.outstanding
    BY <2>2 DEF GoodBus
  <2> HIDE DEF n
  <2>4. GoodBus(Pump(n, connected)) /\ Advance(n, Pump(n, connected))
    BY <2>3, PumpAdvances
  <2>5. Advance(b, Pump(n, connected))
    BY <2>3, <2>4 DEF Advance
  <2> QED BY <2>1, <2>4, <2>5
<1>2. CASE r \in CoilReads
  <2>1. Enqueue(b, r) = Pump(l, connected)
    BY <1>2, RequestKinds DEF Enqueue
  <2>2. WithPoll(b.low, r) \in Seq(CoilReads) /\ Distinct(WithPoll(b.low, r))
    BY <1>2, PollWaitsOnce DEF GoodBus
  <2>3. GoodBus(l) /\ l.high = b.high /\ l.outstanding = b.outstanding
    BY <2>2 DEF GoodBus
  <2> HIDE DEF l
  <2>4. GoodBus(Pump(l, connected)) /\ Advance(l, Pump(l, connected))
    BY <2>3, PumpAdvances
  <2>5. Advance(b, Pump(l, connected))
    BY <2>3, <2>4 DEF Advance
  <2> QED BY <2>1, <2>4, <2>5
<1> QED BY <1>1, <1>2
-----------------------------------------------------------------------------
(* A fold over a sequence visits its values one after the other.           *)

\* The buses between the values of a sequence that are enqueued one by one.
OneByOne(path, b, n, s) ==
  /\ path[0] = b
  /\ \A i \in 1..n : path[i] = Enqueue(path[i - 1], s[i])
  /\ EnqueueAll(b, s) = path[n]

LEMMA EnqueueOneByOne ==
  ASSUME NEW b, NEW n \in Nat, NEW s, DOMAIN s = 1..n
  PROVE  \E path : OneByOne(path, b, n, s)
<1> DEFINE Next1(f, t) == IF t = {} THEN b ELSE Enqueue(f[t \ {Max(t)}], s[Max(t)])
           IsFold(f, k) == f = [t \in SUBSET (1..k) |-> Next1(f, t)]
           S == {k \in Nat : \E f : IsFold(f, k)}
<1>1. 0 \in S
  <2> DEFINE f == [t \in SUBSET (1..0) |-> b]
  <2>1. IsFold(f, 0)
    OBVIOUS
  <2> QED BY <2>1
<1>2. ASSUME NEW k \in Nat, k \in S PROVE k + 1 \in S
  <2>1. PICK f : IsFold(f, k)
    BY <1>2
  <2> DEFINE g == [t \in SUBSET (1..(k + 1)) |-> Next1(f, t)]
  <2>2. SUBSET (1..k) \subseteq SUBSET (1..(k + 1))
    <3>1. 1..k \subseteq 1..(k + 1)
      BY <1>2
    <3> QED BY <3>1
  <2>3. \A t \in SUBSET (1..k) : f[t] = Next1(f, t) /\ g[t] = f[t]
    BY <2>1, <2>2
  <2>4. \A t \in SUBSET (1..(k + 1)) : t # {} => t \ {Max(t)} \in SUBSET (1..k)
    BY <1>2, WithoutLargest
  <2> HIDE DEF g
  <2>5. \A t \in SUBSET (1..(k + 1)) : Next1(f, t) = Next1(g, t)
    BY <2>3, <2>4
  <2>6. IsFold(g, k + 1)
    BY <2>5 DEF g
  <2> HIDE DEF IsFold
  <2>7. \E h : IsFold(h, k + 1)
    BY <2>6
  <2>8. k + 1 \in Nat
    BY <1>2
  <2> QED BY <2>7, <2>8
<1>3. n \in S
  <2> HIDE DEF S
  <2>1. \A i \in 0..(n - 1) : i \in S => i + 1 \in S
    BY <1>2
  <2>2. \A i \in 0..n : i \in S
    BY <1>1, <2>1, InductionUpTo
  <2> QED BY <2>2
<1> DEFINE iter == CHOOSE f : IsFold(f, n)
<1>4. IsFold(iter, n)
  BY <1>3
<1>5. EnqueueAll(b, s) = iter[1..n]
  BY DEF EnqueueAll, FoldLeft, MapThenFoldSet
<1> HIDE DEF iter
<1> DEFINE path == [i \in 0..n |-> iter[1..i]]
<1>6. iter[1..0] = b
  BY <1>4
<1>7. ASSUME NEW i \in 1..n PROVE iter[1..i] = Enqueue(iter[1..(i - 1)], s[i])
  <2>1. /\ 1..i \in SUBSET (1..n) /\ 1..i # {} /\ Max(1..i) = i
        /\ (1..i) \ {Max(1..i)} = 1..(i - 1)
    BY LargestOfInterval
  <2>2. iter[1..i] = Next1(iter, 1..i)
    BY <1>4, <2>1
  <2> QED BY <2>1, <2>2
<1>8. OneByOne(path, b, n, s)
  BY <1>5, <1>6, <1>7 DEF OneByOne
<1> QED BY <1>8

\* What the tick's writes make of the bus.
LEMMA AllWritten ==
  ASSUME connected \in BOOLEAN, NEW a, GoodBus(a), NEW bytes \in [Modules -> Bytes],
         NEW changed \in SUBSET Modules, NEW order \in SetToSeqs(changed)
  PROVE  Written(a, EnqueueAll(a, [i \in DOMAIN order |-> Write(order[i], bytes[order[i]])]),
                 changed, bytes)
<1> DEFINE n == Cardinality(changed)
           s == [i \in DOMAIN order |-> Write(order[i], bytes[order[i]])]
<1>1. IsFiniteSet(changed) /\ n \in Nat
  <2>1. IsFiniteSet(Modules)
    BY FS_Interval
  <2> QED BY <2>1, FS_Subset, FS_CardinalityType
<1>2. order \in [1..n -> changed] /\ \A i, j \in 1..n : i # j => order[i] # order[j]
  BY DEF SetToSeqs
<1> HIDE DEF n
<1>3. \A m \in changed : \E i \in 1..n : order[i] = m
  <2>1. order \in Injection(1..n, changed)
    BY <1>2 DEF Injection, IsInjective
  <2>2. IsFiniteSet(1..n) /\ Cardinality(1..n) = n
    BY <1>1, FS_Interval
  <2>3. order \in Surjection(1..n, changed)
    BY <1>1, <2>1, <2>2, FS_Injection DEF n
  <2> QED BY <2>3 DEF Surjection
<1>4. DOMAIN s = 1..n /\ \A i \in 1..n : s[i] = Write(order[i], bytes[order[i]])
  BY <1>2
<1> HIDE DEF s
<1>5. PICK path : OneByOne(path, a, n, s)
  BY <1>1, <1>4, EnqueueOneByOne
<1> DEFINE sofar(i) == {m \in changed : \E j \in 1..i : order[j] = m}
           T == {i \in 0..n : Written(a, path[i], sofar(i), bytes)}
<1>6. 0 \in T
  <2>1. sofar(0) = {}
    OBVIOUS
  <2>2. Written(a, a, {}, bytes)
    BY DEF Written
  <2>3. path[0] = a
    BY <1>5 DEF OneByOne
  <2>4. Written(a, path[0], sofar(0), bytes)
    <3> HIDE DEF sofar, T
    <3> QED BY <2>1, <2>2, <2>3, Zenon
  <2>5. 0 \in 0..n
    BY <1>1
  <2> HIDE DEF sofar
  <2> QED BY <2>4, <2>5
<1>7. ASSUME NEW i \in 0..(n - 1), i \in T PROVE i + 1 \in T
  <2>1. i + 1 \in 1..n /\ i + 1 \in 0..n /\ (i + 1) - 1 = i /\ i \in Nat
    BY <1>1
  <2>2. order[i + 1] \in changed /\ order[i + 1] \in Modules /\ sofar(i) \in SUBSET Modules
    BY <1>2, <2>1
  <2>3. sofar(i + 1) = sofar(i) \cup {order[i + 1]}
    <3>1. 1..(i + 1) = 1..i \cup {i + 1}
      BY <2>1
    <3> QED BY <2>2, <3>1
  <2>4. path[i + 1] = Enqueue(path[i], Write(order[i + 1], bytes[order[i + 1]]))
    BY <1>4, <1>5, <2>1 DEF OneByOne
  <2>5. Written(a, path[i], sofar(i), bytes)
    BY <1>7
  <2> HIDE DEF sofar, T
  <2>6. Written(a, Enqueue(path[i], Write(order[i + 1], bytes[order[i + 1]])),
                sofar(i) \cup {order[i + 1]}, bytes)
    BY <2>2, <2>5, OneMoreWritten
  <2>7. Written(a, path[i + 1], sofar(i + 1), bytes)
    BY <2>3, <2>4, <2>6, Zenon
  <2> QED BY <2>1, <2>7 DEF T
<1>8. n \in T
  <2> HIDE DEF T
  <2>1. \A i \in 0..n : i \in T
    BY <1>1, <1>6, <1>7, InductionUpTo
  <2> QED BY <1>1, <2>1
<1>9. sofar(n) = changed
  BY <1>2, <1>3
<1>10. Written(a, path[n], sofar(n), bytes)
  BY <1>8
<1> HIDE DEF sofar
<1> QED BY <1>5, <1>9, <1>10 DEF s, OneByOne

\* What the polls make of it.
LEMMA PollsQueued ==
  ASSUME connected \in BOOLEAN, NEW a, GoodBus(a), NEW n \in Nat, NEW due, DOMAIN due = 1..n,
         \A i \in 1..n : due[i] \in InputReads \cup CoilReads
  PROVE  GoodBus(EnqueueAll(a, due)) /\ Advance(a, EnqueueAll(a, due))
<1>1. PICK path : OneByOne(path, a, n, due)
  BY EnqueueOneByOne
<1> DEFINE T == {i \in 0..n : GoodBus(path[i]) /\ Advance(a, path[i])}
<1>2. 0 \in T
  <2>1. Advance(a, a)
    BY DEF Advance
  <2> QED BY <1>1, <2>1 DEF OneByOne
<1>3. ASSUME NEW i \in 0..(n - 1), i \in T PROVE i + 1 \in T
  <2>1. i + 1 \in 1..n /\ i + 1 \in 0..n /\ (i + 1) - 1 = i
    OBVIOUS
  <2>2. path[i + 1] = Enqueue(path[i], due[i + 1]) /\ due[i + 1] \in InputReads \cup CoilReads
    BY <1>1, <2>1 DEF OneByOne
  <2>3. GoodBus(path[i]) /\ Advance(a, path[i])
    BY <1>3
  <2>4. GoodBus(path[i + 1]) /\ Advance(path[i], path[i + 1])
    BY <2>2, <2>3, PollQueued
  <2>5. Advance(a, path[i + 1])
    BY <2>3, <2>4, AdvanceIsTransitive
  <2> QED BY <2>1, <2>4, <2>5
<1>4. n \in T
  <2> HIDE DEF T
  <2>1. \A i \in 0..n : i \in T
    BY <1>2, <1>3, InductionUpTo
  <2> QED BY <2>1
<1> QED BY <1>1, <1>4 DEF OneByOne
-----------------------------------------------------------------------------
(* The steps.                                                              *)

\* The queues and the wire: a closed port has no request out.
BusInv ==
  /\ GoodBus(bus)
  /\ ~connected => bus.outstanding = Nothing

Changed(bytes) == {m \in Modules : Known(m) # bytes[m]}

LEMMA DriveStep ==
  ASSUME TypeOK, BusInv, NEW bytes \in [Modules -> Bytes], DriveRelays(bytes)
  PROVE  Written(bus, bus', Changed(bytes), bytes)
<1> DEFINE changed == Changed(bytes)
<1>1. PICK order \in SetToSeqs(changed) :
        bus' = EnqueueAll(bus, [i \in DOMAIN order |-> Write(order[i], bytes[order[i]])])
  BY DEF DriveRelays, Changed
<1>2. changed \in SUBSET Modules
  BY DEF Changed
<1>3. GoodBus(bus) /\ connected \in BOOLEAN
  BY DEF BusInv, TypeOK
<1> HIDE DEF changed
<1>4. Written(bus, EnqueueAll(bus, [i \in DOMAIN order |-> Write(order[i], bytes[order[i]])]),
              changed, bytes)
  BY <1>2, <1>3, AllWritten
<1> QED BY <1>1, <1>4 DEF changed

LEMMA PollStep ==
  ASSUME TypeOK, BusInv, PollTick(InputPolls) \/ PollTick(RelayPolls) \/ PollTick(InputPolls \o RelayPolls)
  PROVE  GoodBus(bus') /\ Advance(bus, bus')
<1>1. GoodBus(bus) /\ connected \in BOOLEAN
  BY DEF BusInv, TypeOK
<1>2. /\ InputPolls \in Seq(InputReads \cup CoilReads) /\ RelayPolls \in Seq(InputReads \cup CoilReads)
  BY DEF InputPolls, RelayPolls, InputReads, CoilReads
<1>3. InputPolls \o RelayPolls \in Seq(InputReads \cup CoilReads)
  BY <1>2, ConcatProperties
<1>4. PICK due \in Seq(InputReads \cup CoilReads) : bus' = EnqueueAll(bus, due)
  BY <1>2, <1>3 DEF PollTick
<1>5. Len(due) \in Nat /\ DOMAIN due = 1..Len(due) /\ \A i \in 1..Len(due) : due[i] \in InputReads \cup CoilReads
  BY LenProperties, ElementOfSeq
<1>6. GoodBus(EnqueueAll(bus, due)) /\ Advance(bus, EnqueueAll(bus, due))
  BY <1>1, <1>5, PollsQueued
<1> QED BY <1>4, <1>6

\* The request on the wire is done, and the next one goes out.
Freed == [bus EXCEPT !.outstanding = Nothing]

LEMMA ReplyStep ==
  ASSUME BusInv, bus' = Pump(Freed, TRUE)
  PROVE  GoodBus(Freed) /\ GoodBus(bus') /\ Advance(Freed, bus')
<1>1. GoodBus(Freed)
  BY DEF BusInv, GoodBus, Freed
<1> QED BY <1>1, PumpAdvances

LEMMA EmptyBusIsGood == GoodBus(EmptyBus) /\ EmptyBus.outstanding = Nothing /\ EmptyBus.high = <<>>
<1>1. \A R : <<>> \in Seq(R)
  BY EmptySeq
<1>2. Distinct(<<>>)
  BY DEF Distinct
<1> QED BY <1>1, <1>2 DEF GoodBus, EmptyBus
-----------------------------------------------------------------------------
(* Types and queues.                                                       *)

LEMMA MonitorTypes ==
  ASSUME TypeOK
  PROVE  /\ MarkSuccess => failures' \in 0..OfflineFailureThreshold /\ online' \in BOOLEAN
         /\ MarkFailure => failures' \in 0..OfflineFailureThreshold /\ online' \in BOOLEAN
         /\ Failed(0) \in 0..OfflineFailureThreshold
<1>1. \A n \in 0..OfflineFailureThreshold : Failed(n) \in 0..OfflineFailureThreshold
  BY DEF Failed
<1>2. 0 \in 0..OfflineFailureThreshold
  OBVIOUS
<1>3. failures \in 0..OfflineFailureThreshold /\ online \in BOOLEAN
  BY DEF TypeOK
<1>4. MarkSuccess => failures' \in 0..OfflineFailureThreshold /\ online' \in BOOLEAN
  BY <1>2 DEF MarkSuccess
<1>5. MarkFailure => failures' \in 0..OfflineFailureThreshold /\ online' \in BOOLEAN
  BY <1>1, <1>3 DEF MarkFailure
<1> QED BY <1>1, <1>2, <1>4, <1>5

LEMMA GoodBusTypes ==
  ASSUME NEW b, GoodBus(b)
  PROVE  /\ b.outstanding \in Requests \cup {Nothing}
         /\ b.high \in Seq(Requests) /\ b.normal \in Seq(Requests) /\ b.low \in Seq(Requests)
<1>1. Writes \subseteq Requests /\ InputReads \subseteq Requests /\ CoilReads \subseteq Requests
  BY RequestKinds
<1> QED BY <1>1, SeqMonotonic DEF GoodBus

LEMMA TypesAndQueues == Spec => [](TypeOK /\ BusInv)
<1>1. Init => TypeOK /\ BusInv
  <2> SUFFICES ASSUME Init PROVE TypeOK /\ BusInv
    OBVIOUS
  <2>1. BusInv
    BY EmptyBusIsGood DEF Init, BusInv
  <2>2. /\ lastRelayBytes \in [Modules -> Bytes \cup {Forgotten}]
        /\ commanded \in [Modules -> Bytes \cup {Forgotten}]
    BY DEF Init
  <2>3. /\ bus.outstanding \in Requests \cup {Nothing}
        /\ bus.high \in Seq(Requests) /\ bus.normal \in Seq(Requests) /\ bus.low \in Seq(Requests)
    BY <2>1, GoodBusTypes DEF BusInv
  <2>4. connected \in BOOLEAN /\ online \in BOOLEAN /\ failures \in 0..OfflineFailureThreshold
    <3>1. connected \in BOOLEAN /\ online \in BOOLEAN /\ failures = 0
      BY DEF Init
    <3>2. 0 \in 0..OfflineFailureThreshold
      OBVIOUS
    <3> QED BY <3>1, <3>2
  <2>5. relays \in [Modules -> Bytes] /\ missed \subseteq Modules
    BY DEF Init
  <2> QED BY <2>1, <2>2, <2>3, <2>4, <2>5 DEF TypeOK
<1>2. TypeOK /\ BusInv /\ [Next]_vars => TypeOK' /\ BusInv'
  <2> SUFFICES ASSUME TypeOK, BusInv, [Next]_vars PROVE TypeOK' /\ BusInv'
    OBVIOUS
  <2>1. bus.outstanding # Nothing =>
          /\ connected
          /\ bus.outstanding.type = "WriteCoils8" =>
               bus.outstanding.module \in Modules /\ bus.outstanding.bits \in Bytes
    <3>1. bus.outstanding # Nothing => bus.outstanding \in Requests /\ connected
      BY DEF TypeOK, BusInv
    <3> QED BY <3>1, RequestKinds
  <2>2. ASSUME NEW bytes \in [Modules -> Bytes], DriveRelays(bytes)
        PROVE  TypeOK' /\ BusInv'
    <3>1. Written(bus, bus', Changed(bytes), bytes)
      BY <2>2, DriveStep
    <3>2. GoodBus(bus') /\ (~connected' => bus'.outstanding = Nothing)
      BY <2>2, <3>1 DEF Written, DriveRelays, BusInv
    <3>3. lastRelayBytes' \in [Modules -> Bytes \cup {Forgotten}]
      BY <2>2 DEF DriveRelays, TypeOK
    <3>4. commanded' \in [Modules -> Bytes \cup {Forgotten}]
      BY <2>2 DEF DriveRelays
    <3> QED BY <2>2, <3>2, <3>3, <3>4, GoodBusTypes DEF DriveRelays, TypeOK, BusInv
  <2>3. ASSUME PollTick(InputPolls) \/ PollTick(RelayPolls) \/ PollTick(InputPolls \o RelayPolls)
        PROVE  TypeOK' /\ BusInv'
    <3>1. GoodBus(bus')
      BY <2>3, PollStep
    <3> QED BY <2>3, <3>1, GoodBusTypes DEF PollTick, TypeOK, BusInv
  <2>4. CASE Connect
    <3>1. failures' \in 0..OfflineFailureThreshold /\ online' \in BOOLEAN
      BY <2>4, MonitorTypes DEF Connect
    <3>2. lastRelayBytes' \in [Modules -> Bytes \cup {Forgotten}]
      BY <2>4 DEF Connect, ForgetWhenReopened
    <3> QED BY <2>4, <3>1, <3>2 DEF Connect, TypeOK, BusInv
  <2>5. CASE ConnectFails
    <3>1. failures' \in 0..OfflineFailureThreshold /\ online' \in BOOLEAN
      BY <2>5, MonitorTypes DEF ConnectFails
    <3>2. GoodBus(bus') /\ bus'.outstanding = Nothing
      BY <2>5, EmptyBusIsGood DEF ConnectFails
    <3> QED BY <2>5, <3>1, <3>2, GoodBusTypes DEF ConnectFails, TypeOK, BusInv
  <2>6. CASE Answer
    <3>1. GoodBus(bus')
      BY <2>6, ReplyStep DEF Answer, Freed
    <3>2. failures' \in 0..OfflineFailureThreshold /\ online' \in BOOLEAN
      BY <2>6, MonitorTypes DEF Answer
    <3>3. relays' \in [Modules -> Bytes] /\ missed' \subseteq Modules
      BY <2>1, <2>6 DEF Answer, TypeOK
    <3>4. connected /\ connected' = connected
      BY <2>1, <2>6 DEF Answer
    <3>5. /\ bus'.outstanding \in Requests \cup {Nothing}
          /\ bus'.high \in Seq(Requests) /\ bus'.normal \in Seq(Requests) /\ bus'.low \in Seq(Requests)
      BY <3>1, GoodBusTypes
    <3>6. lastRelayBytes' = lastRelayBytes /\ commanded' = commanded
      BY <2>6 DEF Answer
    <3> QED BY <3>1, <3>2, <3>3, <3>4, <3>5, <3>6 DEF TypeOK, BusInv
  <2>7. ASSUME NEW reached \in BOOLEAN, Timeout(reached) PROVE TypeOK' /\ BusInv'
    <3>1. GoodBus(bus')
      BY <2>7, ReplyStep DEF Timeout, Freed
    <3>2. failures' \in 0..OfflineFailureThreshold /\ online' \in BOOLEAN
      BY <2>7, MonitorTypes DEF Timeout
    <3>3. relays' \in [Modules -> Bytes] /\ missed' \subseteq Modules
      BY <2>1, <2>7 DEF Timeout, TypeOK
    <3>4. connected /\ connected' = connected
      BY <2>1, <2>7 DEF Timeout
    <3>5. /\ bus'.outstanding \in Requests \cup {Nothing}
          /\ bus'.high \in Seq(Requests) /\ bus'.normal \in Seq(Requests) /\ bus'.low \in Seq(Requests)
      BY <3>1, GoodBusTypes
    <3>6. lastRelayBytes' = lastRelayBytes /\ commanded' = commanded
      BY <2>7 DEF Timeout
    <3> QED BY <3>1, <3>2, <3>3, <3>4, <3>5, <3>6 DEF TypeOK, BusInv
  <2>8. ASSUME NEW reached \in BOOLEAN, ConnectionLost(reached) PROVE TypeOK' /\ BusInv'
    <3>1. GoodBus(bus') /\ bus'.outstanding = Nothing
      BY <2>8, EmptyBusIsGood DEF ConnectionLost
    <3>2. failures' \in 0..OfflineFailureThreshold /\ online' \in BOOLEAN
      <4>1. Failed(0) \in 0..OfflineFailureThreshold /\ 0 \in 0..OfflineFailureThreshold
        BY MonitorTypes
      <4> QED BY <2>8, <4>1 DEF ConnectionLost
    <3>3. relays' \in [Modules -> Bytes]
      BY <2>1, <2>8 DEF ConnectionLost, TypeOK
    <3>4. missed' \subseteq Modules
      <4>1. \/ missed' = missed
            \/ /\ bus.outstanding # Nothing /\ bus.outstanding.type = "WriteCoils8"
               /\ missed' = missed \cup {bus.outstanding.module}
        BY <2>8 DEF ConnectionLost
      <4>2. missed \subseteq Modules
        BY DEF TypeOK
      <4> QED BY <2>1, <4>1, <4>2
    <3>5. /\ bus'.outstanding \in Requests \cup {Nothing}
          /\ bus'.high \in Seq(Requests) /\ bus'.normal \in Seq(Requests) /\ bus'.low \in Seq(Requests)
      BY <3>1, GoodBusTypes
    <3>6. lastRelayBytes' = lastRelayBytes /\ commanded' = commanded /\ connected' = FALSE
      BY <2>8 DEF ConnectionLost
    <3> QED BY <3>1, <3>2, <3>3, <3>4, <3>5, <3>6 DEF TypeOK, BusInv
  <2>9. CASE UNCHANGED vars
    BY <2>9 DEF vars, TypeOK, BusInv
  <2> QED BY <2>2, <2>3, <2>4, <2>5, <2>6, <2>7, <2>8, <2>9 DEF Next
<1> QED BY <1>1, <1>2, PTL DEF Spec

\* Every variable has its type.
THEOREM TypeCorrect == Spec => []TypeOK
  BY TypesAndQueues, PTL

\* No queue holds two requests that mean the same.
THEOREM QueuesAreShort == Spec => []QueuesStayShort
<1>1. BusInv => QueuesStayShort
  BY DEF BusInv, GoodBus, Distinct, QueuesStayShort
<1> QED BY <1>1, TypesAndQueues, PTL
-----------------------------------------------------------------------------
(* The monitor.                                                            *)

LEMMA MonitorStep ==
  ASSUME TypeOK, BusInv, OnlineIsEarned, [Next]_vars
  PROVE  OnlineIsEarned'
<1>1. 0 < OfflineFailureThreshold
  OBVIOUS
<1>2. \A bytes : DriveRelays(bytes) => OnlineIsEarned'
  BY DEF DriveRelays, OnlineIsEarned
<1>3. \A due : PollTick(due) => OnlineIsEarned'
  BY DEF PollTick, OnlineIsEarned
<1>4. Connect => OnlineIsEarned'
  BY <1>1 DEF Connect, MarkSuccess, OnlineIsEarned
<1>5. ConnectFails => OnlineIsEarned'
  BY DEF ConnectFails, OnlineIsEarned
<1>6. \A reached : ConnectionLost(reached) => OnlineIsEarned'
  BY DEF ConnectionLost, OnlineIsEarned
<1>7. Answer => OnlineIsEarned'
  BY <1>1 DEF Answer, MarkSuccess, OnlineIsEarned, BusInv
<1>8. ASSUME NEW reached, Timeout(reached) PROVE OnlineIsEarned'
  <2>1. MarkFailure /\ connected' = connected
    BY <1>8 DEF Timeout
  <2>2. online' => online /\ failures' < OfflineFailureThreshold
    BY <2>1, Zenon DEF MarkFailure
  <2> QED BY <2>1, <2>2 DEF OnlineIsEarned
<1>9. UNCHANGED vars => OnlineIsEarned'
  BY DEF vars, OnlineIsEarned
<1> QED BY <1>2, <1>3, <1>4, <1>5, <1>6, <1>7, <1>8, <1>9 DEF Next

\* The monitor calls the bus online only while the port is open and the
\* failures in a row stay below the threshold.
THEOREM OnlineMeansAnswering == Spec => []OnlineIsEarned
<1>1. Init => OnlineIsEarned
  BY DEF Init, OnlineIsEarned
<1> QED BY <1>1, MonitorStep, TypesAndQueues, PTL DEF Spec
-----------------------------------------------------------------------------
(* The order on the wire.                                                  *)

\* No poll goes out while a write waits.
THEOREM WritesComeFirst == Spec => WritesGoFirst
<1> DEFINE First == bus'.outstanding # bus.outstanding /\ bus'.outstanding \notin {Nothing}
                    /\ bus'.outstanding.type # "WriteCoils8" => bus'.high = <<>>
<1>1. ASSUME NEW b, GoodBus(b), Advance(b, bus'), b.outstanding \in {bus.outstanding, Nothing}
      PROVE  First
  <2>1. \A r \in Range(b.high) : r.type = "WriteCoils8"
    BY <1>1, RangeOfSeq, RequestKinds DEF GoodBus
  <2> QED BY <1>1, <2>1 DEF Advance
<1>2. TypeOK /\ BusInv /\ [Next]_vars => First
  <2> SUFFICES ASSUME TypeOK, BusInv, [Next]_vars PROVE First
    OBVIOUS
  <2>1. ASSUME NEW bytes \in [Modules -> Bytes], DriveRelays(bytes) PROVE First
    <3>1. bus'.outstanding = bus.outstanding \/ bus'.outstanding \in Writes
      BY <2>1, DriveStep DEF Written
    <3> QED BY <3>1, RequestKinds
  <2>2. ASSUME PollTick(InputPolls) \/ PollTick(RelayPolls) \/ PollTick(InputPolls \o RelayPolls)
        PROVE  First
    <3>1. Advance(bus, bus') /\ GoodBus(bus)
      BY <2>2, PollStep DEF BusInv
    <3> QED BY <1>1, <3>1
  <2>3. ASSUME bus' = Pump(Freed, TRUE) PROVE First
    <3>1. GoodBus(Freed) /\ Advance(Freed, bus') /\ Freed.outstanding = Nothing
      <4>1. Freed.outstanding = Nothing
        BY DEF Freed, BusInv, GoodBus
      <4> QED BY <2>3, <4>1, ReplyStep
    <3> QED BY <1>1, <3>1
  <2>4. bus' = bus \/ bus' = EmptyBus => First
    BY EmptyBusIsGood
  <2>5. Connect \/ ConnectFails \/ UNCHANGED vars => First
    BY <2>4 DEF Connect, ConnectFails, vars
  <2>6. \A reached : Timeout(reached) \/ ConnectionLost(reached) => First
    BY <2>3, <2>4 DEF Timeout, ConnectionLost, Freed
  <2>7. Answer => First
    BY <2>3 DEF Answer, Freed
  <2> QED BY <2>1, <2>2, <2>5, <2>6, <2>7 DEF Next
<1>3. Spec => [][First]_vars
  <2>1. TypeOK /\ BusInv /\ [Next]_vars => [First]_vars
    BY <1>2
  <2> QED BY <2>1, TypesAndQueues, PTL DEF Spec
<1> QED BY <1>3 DEF WritesGoFirst
-----------------------------------------------------------------------------
(* What was written.                                                       *)

\* The last write of a module that waits, is on the wire or was answered
\* carries the byte the engine believes it has written.
Followed(m) ==
  connected /\ lastRelayBytes[m] # Forgotten =>
    /\ Latest(bus, m, lastRelayBytes[m])
    /\ m \in missed \/ Pending(bus, m) \/ relays[m] = lastRelayBytes[m]

FollowedInv == \A m \in Modules : Followed(m)

LEMMA ReplyFollows ==
  ASSUME TypeOK, BusInv, FollowedInv,
         bus.outstanding # Nothing, bus' = Pump(Freed, TRUE),
         UNCHANGED <<connected, lastRelayBytes>>,
         IF bus.outstanding.type = "WriteCoils8"
         THEN \/ /\ relays' = [relays EXCEPT ![bus.outstanding.module] = bus.outstanding.bits]
                 /\ missed' = missed \ {bus.outstanding.module}
              \/ /\ \E byte : relays' = [relays EXCEPT ![bus.outstanding.module] = byte]
                 /\ missed' = missed \cup {bus.outstanding.module}
         ELSE relays' = relays /\ missed' = missed
  PROVE  FollowedInv'
<1> SUFFICES ASSUME NEW m \in Modules, connected, lastRelayBytes[m] # Forgotten
             PROVE  /\ Latest(bus', m, lastRelayBytes[m])
                    /\ m \in missed' \/ Pending(bus', m) \/ relays'[m] = lastRelayBytes[m]
  BY DEF FollowedInv, Followed
<1> DEFINE v == lastRelayBytes[m]
           r == bus.outstanding
<1>1. Latest(bus, m, v) /\ (m \in missed \/ Pending(bus, m) \/ relays[m] = v)
  BY DEF FollowedInv, Followed
<1>2. GoodBus(Freed) /\ GoodBus(bus') /\ Advance(Freed, bus')
  BY ReplyStep
<1>3. Freed.outstanding = Nothing /\ Freed.high = bus.high /\ r \in Requests
  BY DEF Freed, BusInv, GoodBus
<1>4. Latest(Freed, m, v)
  <2>1. Freed.outstanding \notin Writes
    BY <1>3, RequestKinds
  <2> QED BY <1>1, <1>3, <2>1 DEF Latest
<1>5. Latest(bus', m, v) /\ (Pending(Freed, m) => Pending(bus', m))
  BY <1>2, <1>4, AdvanceKeeps
<1>6. CASE r \in Writes /\ r.module = m
  <2>1. r.type = "WriteCoils8"
    BY <1>6, RequestKinds
  <2>2. CASE \E x \in Range(bus.high) : x.module = m
    <3>1. \A x \in Range(bus.high) : x \in Writes
      BY <1>2, <1>3, RangeOfSeq DEF GoodBus
    <3>2. Pending(Freed, m)
      BY <1>3, <2>2, <3>1 DEF Pending
    <3> QED BY <1>5, <3>2
  <2>3. CASE ~ \E x \in Range(bus.high) : x.module = m
    <3>1. r.bits = v
      BY <1>1, <1>6, <2>3 DEF Latest
    <3>2. \/ relays'[m] = r.bits
          \/ m \in missed'
      BY <1>6, <2>1 DEF TypeOK
    <3> QED BY <1>5, <3>1, <3>2
  <2> QED BY <2>2, <2>3
<1>7. CASE ~ (r \in Writes /\ r.module = m)
  <2>1. Pending(bus, m) => Pending(Freed, m)
    BY <1>3, <1>7 DEF Pending
  <2>2. CASE r.type = "WriteCoils8"
    <3>1. r.module # m
      BY <1>3, <1>7, <2>2, RequestKinds
    <3>2. relays'[m] = relays[m] /\ (m \in missed' <=> m \in missed)
      BY <2>2, <3>1 DEF TypeOK
    <3> QED BY <1>1, <1>5, <2>1, <3>2
  <2>3. CASE r.type # "WriteCoils8"
    <3>1. relays'[m] = relays[m] /\ (m \in missed' <=> m \in missed)
      BY <2>3
    <3> QED BY <1>1, <1>5, <2>1, <3>1
  <2> QED BY <2>2, <2>3
<1> QED BY <1>6, <1>7

LEMMA FollowedStep ==
  ASSUME TypeOK, BusInv, FollowedInv, [Next]_vars
  PROVE  FollowedInv'
<1>1. ASSUME NEW bytes \in [Modules -> Bytes], DriveRelays(bytes) PROVE FollowedInv'
  <2> SUFFICES ASSUME NEW m \in Modules, connected, lastRelayBytes'[m] # Forgotten
               PROVE  /\ Latest(bus', m, lastRelayBytes'[m])
                      /\ m \in missed \/ Pending(bus', m) \/ relays[m] = lastRelayBytes'[m]
    BY <1>1 DEF FollowedInv, Followed, DriveRelays
  <2>1. Written(bus, bus', Changed(bytes), bytes)
    BY <1>1, DriveStep
  <2>2. CASE m \in Changed(bytes)
    <3>1. lastRelayBytes'[m] = bytes[m]
      BY <1>1, <2>2 DEF DriveRelays, Changed
    <3> QED BY <2>1, <2>2, <3>1 DEF Written
  <2>3. CASE m \notin Changed(bytes)
    <3>1. lastRelayBytes'[m] = lastRelayBytes[m]
      BY <1>1, <2>3 DEF DriveRelays, Changed
    <3>2. /\ Latest(bus, m, lastRelayBytes[m])
          /\ m \in missed \/ Pending(bus, m) \/ relays[m] = lastRelayBytes[m]
      BY <3>1 DEF FollowedInv, Followed
    <3> QED BY <2>1, <2>3, <3>1, <3>2 DEF Written
  <2> QED BY <2>2, <2>3
<1>2. ASSUME PollTick(InputPolls) \/ PollTick(RelayPolls) \/ PollTick(InputPolls \o RelayPolls)
      PROVE  FollowedInv'
  <2> SUFFICES ASSUME NEW m \in Modules, connected, lastRelayBytes[m] # Forgotten
               PROVE  /\ Latest(bus', m, lastRelayBytes[m])
                      /\ m \in missed \/ Pending(bus', m) \/ relays[m] = lastRelayBytes[m]
    BY <1>2 DEF FollowedInv, Followed, PollTick
  <2>1. GoodBus(bus) /\ GoodBus(bus') /\ Advance(bus, bus')
    BY <1>2, PollStep DEF BusInv
  <2>2. /\ Latest(bus, m, lastRelayBytes[m])
        /\ m \in missed \/ Pending(bus, m) \/ relays[m] = lastRelayBytes[m]
    BY DEF FollowedInv, Followed
  <2>3. /\ Latest(bus, m, lastRelayBytes[m]) => Latest(bus', m, lastRelayBytes[m])
        /\ Pending(bus, m) => Pending(bus', m)
    BY <2>1, AdvanceKeeps
  <2> QED BY <2>2, <2>3
<1>3. CASE Connect
  BY <1>3 DEF Connect, ForgetWhenReopened, FollowedInv, Followed
<1>4. CASE ConnectFails
  BY <1>4 DEF ConnectFails, FollowedInv, Followed
<1>5. CASE Answer
  <2>1. /\ bus.outstanding # Nothing /\ bus' = Pump(Freed, TRUE)
        /\ UNCHANGED <<connected, lastRelayBytes>>
    BY <1>5 DEF Answer, Freed
  <2>2. IF bus.outstanding.type = "WriteCoils8"
        THEN /\ relays' = [relays EXCEPT ![bus.outstanding.module] = bus.outstanding.bits]
             /\ missed' = missed \ {bus.outstanding.module}
        ELSE relays' = relays /\ missed' = missed
    BY <1>5 DEF Answer
  <2> QED BY <2>1, <2>2, ReplyFollows
<1>6. ASSUME NEW reached \in BOOLEAN, Timeout(reached) PROVE FollowedInv'
  <2>1. /\ bus.outstanding # Nothing /\ bus' = Pump(Freed, TRUE)
        /\ UNCHANGED <<connected, lastRelayBytes>>
    BY <1>6 DEF Timeout, Freed
  <2>2. IF bus.outstanding.type = "WriteCoils8"
        THEN /\ \/ relays' = [relays EXCEPT ![bus.outstanding.module] = bus.outstanding.bits]
                \/ relays' = relays
             /\ missed' = missed \cup {bus.outstanding.module}
        ELSE relays' = relays /\ missed' = missed
    BY <1>6 DEF Timeout
  <2>3. relays = [relays EXCEPT ![bus.outstanding.module] = relays[bus.outstanding.module]]
    BY DEF TypeOK
  <2> QED BY <2>1, <2>2, <2>3, ReplyFollows
<1>7. ASSUME NEW reached \in BOOLEAN, ConnectionLost(reached) PROVE FollowedInv'
  BY <1>7 DEF ConnectionLost, FollowedInv, Followed
<1>8. CASE UNCHANGED vars
  BY <1>8 DEF vars, FollowedInv, Followed, Latest, Pending
<1> QED BY <1>1, <1>2, <1>3, <1>4, <1>5, <1>6, <1>7, <1>8 DEF Next

\* When no write of a module waits and its last one was answered, its relays
\* are what the engine believes it has written.
THEOREM WhatIsWrittenIsApplied == Spec => []WrittenIsApplied
<1>1. Init => FollowedInv
  BY DEF Init, FollowedInv, Followed
<1>2. FollowedInv => WrittenIsApplied
  <2> SUFFICES ASSUME FollowedInv, NEW m \in Modules, connected, lastRelayBytes[m] # Forgotten,
                      m \notin missed, relays[m] # lastRelayBytes[m]
               PROVE  \E r \in {bus.outstanding} \cup Range(bus.high) :
                        r # Nothing /\ r.type = "WriteCoils8" /\ r.module = m
    BY DEF WrittenIsApplied
  <2>1. PICK r \in Range(bus.high) \cup {bus.outstanding} : r \in Writes /\ r.module = m
    BY DEF FollowedInv, Followed, Pending
  <2> QED BY <2>1, RequestKinds
<1> QED BY <1>1, <1>2, FollowedStep, TypesAndQueues, PTL DEF Spec
-----------------------------------------------------------------------------
(* What waits.                                                             *)

\* A write that waits carries the last byte, and the engine believes it has
\* written that byte, or nothing.
LatestWaits ==
  /\ \A r \in Range(bus.high) : r.bits = commanded[r.module]
  /\ \A m \in Modules : lastRelayBytes[m] \in {Forgotten, commanded[m]}

LEMMA LatestWaitsStep ==
  ASSUME 255 \notin Bytes, TypeOK, BusInv, LatestWaits, [Next]_vars
  PROVE  LatestWaits'
<1>1. ASSUME NEW bytes \in [Modules -> Bytes], DriveRelays(bytes) PROVE LatestWaits'
  <2>1. Written(bus, bus', Changed(bytes), bytes) /\ commanded' = bytes
    BY <1>1, DriveStep DEF DriveRelays
  <2>2. ASSUME NEW m \in Modules, m \notin Changed(bytes)
        PROVE  lastRelayBytes[m] = bytes[m] /\ commanded[m] = bytes[m]
    <3>1. Known(m) = bytes[m] /\ bytes[m] \in Bytes
      BY <2>2 DEF Changed
    <3>2. lastRelayBytes[m] = bytes[m] /\ lastRelayBytes[m] # Forgotten
      BY <3>1 DEF Known, Forgotten
    <3> QED BY <3>2 DEF LatestWaits
  <2>3. ASSUME NEW m \in Modules PROVE lastRelayBytes'[m] = bytes[m]
    BY <1>1, <2>2 DEF DriveRelays, Changed
  <2>4. ASSUME NEW r \in Range(bus'.high) PROVE r.bits = bytes[r.module]
    <3>1. r.module \in Modules
      BY <2>1, <2>4, RangeOfSeq, RequestKinds DEF Written, GoodBus
    <3>2. CASE r.module \in Changed(bytes)
      BY <2>1, <2>4, <3>2 DEF Written, Latest
    <3>3. CASE r.module \notin Changed(bytes)
      <4>1. r \in Range(bus.high)
        BY <2>1, <2>4, <3>3 DEF Written
      <4> QED BY <2>2, <3>1, <3>3, <4>1 DEF LatestWaits
    <3> QED BY <3>2, <3>3
  <2> QED BY <2>1, <2>3, <2>4 DEF LatestWaits
<1>2. ASSUME Range(bus'.high) \subseteq Range(bus.high), commanded' = commanded,
             lastRelayBytes' = lastRelayBytes \/ lastRelayBytes' = ForgetWhenReopened
      PROVE  LatestWaits'
  BY <1>2 DEF LatestWaits, ForgetWhenReopened
<1>3. ASSUME PollTick(InputPolls) \/ PollTick(RelayPolls) \/ PollTick(InputPolls \o RelayPolls)
      PROVE  LatestWaits'
  <2>1. Advance(bus, bus') /\ commanded' = commanded /\ lastRelayBytes' = lastRelayBytes
    BY <1>3, PollStep DEF PollTick
  <2> QED BY <1>2, <2>1 DEF Advance
<1>4. ASSUME bus' = Pump(Freed, TRUE), UNCHANGED <<commanded, lastRelayBytes>> PROVE LatestWaits'
  <2>1. Advance(Freed, bus') /\ Freed.high = bus.high
    <3>1. Freed.high = bus.high
      BY DEF Freed, BusInv, GoodBus
    <3> QED BY <1>4, <3>1, ReplyStep
  <2> QED BY <1>2, <1>4, <2>1 DEF Advance
<1>5. ASSUME bus' = EmptyBus \/ bus' = bus, commanded' = commanded,
             lastRelayBytes' = lastRelayBytes \/ lastRelayBytes' = ForgetWhenReopened
      PROVE  LatestWaits'
  <2>1. Range(EmptyBus.high) = {}
    BY EmptyBusIsGood DEF Range
  <2> QED BY <1>2, <1>5, <2>1
<1>6. Connect \/ ConnectFails \/ UNCHANGED vars => LatestWaits'
  BY <1>5 DEF Connect, ConnectFails, vars
<1>7. Answer => LatestWaits'
  BY <1>4 DEF Answer, Freed
<1>8. \A reached : Timeout(reached) \/ ConnectionLost(reached) => LatestWaits'
  BY <1>4, <1>5 DEF Timeout, ConnectionLost, Freed
<1> QED BY <1>1, <1>3, <1>6, <1>7, <1>8 DEF Next

\* As long as no module is to get the byte 255, which the engine takes for the
\* byte it does not remember, a write that waits carries the byte the last tick
\* computed for its module.
THEOREM WaitingWritesAreLatest ==
  ASSUME 255 \notin Bytes
  PROVE  Spec => []QueuedWriteIsLatest
<1>1. Init => LatestWaits
  BY EmptyBusIsGood DEF Init, LatestWaits, Range
<1>2. LatestWaits => QueuedWriteIsLatest
  BY DEF LatestWaits, QueuedWriteIsLatest, Range
<1>3. TypeOK /\ BusInv /\ LatestWaits /\ [Next]_vars => LatestWaits'
  BY LatestWaitsStep
<1> QED BY <1>1, <1>2, <1>3, TypesAndQueues, PTL DEF Spec
=============================================================================
