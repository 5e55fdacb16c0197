---------------------------- MODULE BlobCacheProofs ----------------------------
(***************************************************************************)
(* BlobCache for any number of users, pages, calls and logins and for any  *)
(* limits: eviction is sound, and memory, answers and the disk never keep  *)
(* what was overwritten.                                                   *)
(***************************************************************************)
EXTENDS BlobCache, FiniteSetTheorems, SequenceTheorems, TLAPS

(***************************************************************************)
(* Orders of keys                                                          *)
(***************************************************************************)
\* splice takes one entry out.
LEMMA RemoveLaws ==
  ASSUME NEW S, NEW s \in Seq(S), NEW i \in DOMAIN s
  PROVE  /\ RemoveAt(s, i) \in Seq(S) /\ Len(RemoveAt(s, i)) = Len(s) - 1
         /\ \A j \in 1..Len(s) - 1 : RemoveAt(s, i)[j] = IF j < i THEN s[j] ELSE s[j + 1]
<1>1. i \in 1..Len(s) /\ Len(s) \in Nat
  OBVIOUS
<1>2. /\ SubSeq(s, 1, i - 1) \in Seq(S) /\ Len(SubSeq(s, 1, i - 1)) = i - 1
      /\ \A j \in 1..i - 1 : SubSeq(s, 1, i - 1)[j] = s[j]
  BY <1>1
<1>3. /\ SubSeq(s, i + 1, Len(s)) \in Seq(S) /\ Len(SubSeq(s, i + 1, Len(s))) = Len(s) - i
      /\ \A j \in 1..Len(s) - i : SubSeq(s, i + 1, Len(s))[j] = s[i + j]
  BY <1>1
<1> DEFINE a == SubSeq(s, 1, i - 1)
           b == SubSeq(s, i + 1, Len(s))
<1>4. RemoveAt(s, i) = a \o b
  BY DEF RemoveAt
<1> HIDE DEF a, b
<1>5. a \in Seq(S) /\ b \in Seq(S) /\ Len(a) = i - 1 /\ Len(b) = Len(s) - i
  BY <1>2, <1>3 DEF a, b
<1>6. ASSUME NEW j \in 1..Len(s) - 1
      PROVE  (a \o b)[j] = IF j < i THEN s[j] ELSE s[j + 1]
  <2>1. CASE j < i
    <3>1. j \in 1..i - 1
      BY <1>1, <2>1
    <3>2. a[j] = s[j]
      BY <1>2, <3>1 DEF a
    <3> QED
      BY <1>1, <1>5, <2>1, <3>1, <3>2
  <2>2. CASE ~(j < i)
    <3>1. PICK l \in 1..Len(s) - i : l = j - (i - 1)
      BY <1>1, <2>2
    <3>2. b[l] = s[i + l] /\ i + l = j + 1
      BY <1>1, <1>3, <3>1 DEF b
    <3>3. (a \o b)[j] = b[j - (i - 1)]
      BY <1>1, <1>5, <2>2, <3>1
    <3> QED
      BY <2>2, <3>1, <3>2, <3>3
  <2> QED
    BY <2>1, <2>2
<1> QED
  BY <1>1, <1>4, <1>5, <1>6

\* Taking a key out of an order.
LEMMA RemovedLaws ==
  ASSUME NEW o \in Seq(Keys), NEW k \in Keys
  PROVE  /\ Removed(o, k) \in Seq(Keys)
         /\ Once(o) => /\ Once(Removed(o, k)) /\ Range(Removed(o, k)) = Range(o) \ {k}
                       /\ Len(Removed(o, k)) = IF k \in Range(o) THEN Len(o) - 1 ELSE Len(o)
<1>1. CASE k \notin Range(o)
  BY <1>1 DEF Removed
<1>2. CASE k \in Range(o)
  <2> DEFINE i == CHOOSE i \in DOMAIN o : o[i] = k
             r == RemoveAt(o, i)
  <2>1. i \in DOMAIN o /\ o[i] = k
    BY <1>2 DEF Range
  <2>2. Removed(o, k) = r
    BY <1>2 DEF Removed
  <2> HIDE DEF i
  <2>3. /\ r \in Seq(Keys) /\ Len(r) = Len(o) - 1
        /\ \A j \in 1..Len(o) - 1 : r[j] = IF j < i THEN o[j] ELSE o[j + 1]
    BY <2>1, RemoveLaws
  <2> HIDE DEF r
  <2>4. ASSUME Once(o)
        PROVE  Once(r) /\ Range(r) = Range(o) \ {k}
    <3>1. DOMAIN r = 1..Len(o) - 1 /\ DOMAIN o = 1..Len(o) /\ Len(o) \in Nat
      BY <2>3
    <3>2. Once(r)
      BY <2>1, <2>3, <2>4, <3>1 DEF Once
    <3>3. \A j \in DOMAIN r : r[j] \in Range(o) /\ r[j] # k
      BY <2>1, <2>3, <2>4, <3>1 DEF Once, Range
    <3>4. ASSUME NEW j \in DOMAIN o, o[j] # k
          PROVE  \E l \in DOMAIN r : r[l] = o[j]
      <4>1. CASE j < i
        <5>1. j \in DOMAIN r /\ r[j] = o[j]
          BY <2>1, <2>3, <3>1, <4>1
        <5> QED
          BY <5>1
      <4>2. CASE ~(j < i)
        <5>1. j # i
          BY <2>1, <3>4
        <5>2. j - 1 \in DOMAIN r /\ r[j - 1] = o[j]
          BY <2>1, <2>3, <3>1, <4>2, <5>1
        <5> QED
          BY <5>2
      <4> QED
        BY <4>1, <4>2
    <3> QED
      BY <3>2, <3>3, <3>4 DEF Range
  <2> QED
    BY <1>2, <2>2, <2>3, <2>4
<1> QED
  BY <1>1, <1>2

\* Touching a key puts it last.
LEMMA TouchLaws ==
  ASSUME NEW o \in Seq(Keys), NEW k \in Keys
  PROVE  /\ TouchAccessOrder(o, k) \in Seq(Keys) /\ Len(TouchAccessOrder(o, k)) > 0
         /\ TouchAccessOrder(o, k)[Len(TouchAccessOrder(o, k))] = k
         /\ Once(o) => /\ Once(TouchAccessOrder(o, k))
                       /\ Range(TouchAccessOrder(o, k)) = Range(o) \union {k}
                       /\ Len(TouchAccessOrder(o, k)) = IF k \in Range(o) THEN Len(o) ELSE Len(o) + 1
<1> DEFINE r == Removed(o, k)
<1>1. r \in Seq(Keys) /\ TouchAccessOrder(o, k) = Append(r, k)
  BY RemovedLaws DEF TouchAccessOrder
<1>2. Once(o) => /\ Once(r) /\ Range(r) = Range(o) \ {k}
                 /\ Len(r) = IF k \in Range(o) THEN Len(o) - 1 ELSE Len(o)
  BY RemovedLaws
<1> HIDE DEF r
<1>3. /\ Append(r, k) \in Seq(Keys) /\ Len(Append(r, k)) = Len(r) + 1 /\ Append(r, k)[Len(r) + 1] = k
      /\ Len(r) \in Nat /\ DOMAIN Append(r, k) = 1..Len(r) + 1
      /\ \A j \in 1..Len(r) : Append(r, k)[j] = r[j]
  BY <1>1
<1>4. Range(Append(r, k)) = Range(r) \union {k}
  <2>1. DOMAIN r = 1..Len(r)
    BY <1>1
  <2>2. Len(r) + 1 \in DOMAIN Append(r, k)
    BY <1>3
  <2>3. \A j \in 1..Len(r) : j \in DOMAIN Append(r, k)
    BY <1>3
  <2>4. \A j \in DOMAIN Append(r, k) : j \in 1..Len(r) \/ j = Len(r) + 1
    BY <1>3
  <2> QED
    BY <1>3, <2>1, <2>2, <2>3, <2>4 DEF Range
<1>5. ASSUME Once(o)
      PROVE  Once(Append(r, k))
  <2>1. DOMAIN r = 1..Len(r)
    BY <1>1
  <2>2. \A j \in 1..Len(r) : r[j] # k
    BY <1>2, <1>5, <2>1 DEF Range
  <2> QED
    BY <1>2, <1>3, <1>5, <2>1, <2>2 DEF Once
<1> QED
  BY <1>1, <1>2, <1>3, <1>4, <1>5

\* An order is as long as it names keys.
LEMMA OrderSize ==
  ASSUME NEW o \in Seq(Keys), Once(o)
  PROVE  IsFiniteSet(Range(o)) /\ Cardinality(Range(o)) = Len(o)
<1>1. o \in Bijection(1..Len(o), Range(o))
  <2>1. DOMAIN o = 1..Len(o)
    OBVIOUS
  <2> QED
    BY <2>1 DEF Bijection, Injection, Surjection, IsInjective, Once, Range
<1>2. Len(o) \in Nat /\ ExistsBijection(1..Len(o), Range(o))
  BY <1>1 DEF ExistsBijection
<1>3. IsFiniteSet(Range(o))
  BY <1>2, FS_NatBijection
<1> QED
  BY <1>2, <1>3, FS_CountingElements

\* Shifting an order once.
LEMMA ShiftLaws ==
  ASSUME NEW o \in Seq(Keys), Len(o) > 0
  PROVE  /\ Range(SubSeq(o, 1, 1)) = {o[1]} /\ o[1] \in Range(o)
         /\ SubSeq(o, 2, Len(o)) \in Seq(Keys) /\ Len(SubSeq(o, 2, Len(o))) = Len(o) - 1
         /\ Once(o) => /\ Once(SubSeq(o, 2, Len(o)))
                       /\ Range(SubSeq(o, 2, Len(o))) = Range(o) \ {o[1]}
<1> DEFINE t == SubSeq(o, 2, Len(o))
<1>1. Len(o) \in Nat /\ DOMAIN o = 1..Len(o) /\ 1 \in DOMAIN o
  OBVIOUS
<1>2. SubSeq(o, 1, 1) \in Seq(Keys) /\ Len(SubSeq(o, 1, 1)) = 1 /\ SubSeq(o, 1, 1)[1] = o[1]
  BY <1>1
<1>3. Range(SubSeq(o, 1, 1)) = {o[1]}
  <2>1. DOMAIN SubSeq(o, 1, 1) = {1}
    BY <1>2
  <2> QED
    BY <1>2, <2>1 DEF Range
<1>4. o[1] \in Range(o)
  BY <1>1 DEF Range
<1>5. t \in Seq(Keys) /\ Len(t) = Len(o) - 1 /\ DOMAIN t = 1..Len(o) - 1
  BY <1>1
<1>6. \A i \in 1..Len(o) - 1 : t[i] = o[i + 1]
  BY <1>1
<1> HIDE DEF t
<1>7. ASSUME Once(o)
      PROVE  Once(t) /\ Range(t) = Range(o) \ {o[1]}
  <2>1. \A i \in DOMAIN t : i + 1 \in DOMAIN o /\ t[i] = o[i + 1] /\ i + 1 # 1
    BY <1>1, <1>5, <1>6
  <2>2. Once(t)
    <3>1. ASSUME NEW i \in DOMAIN t, NEW j \in DOMAIN t, t[i] = t[j]
          PROVE  i = j
      <4>1. i + 1 = j + 1
        BY <1>7, <2>1, <3>1 DEF Once
      <4> QED
        BY <1>5, <4>1
    <3> QED
      BY <3>1 DEF Once
  <2>3. \A i \in DOMAIN t : t[i] \in Range(o) \ {o[1]}
    BY <1>1, <1>7, <2>1 DEF Once, Range
  <2>4. ASSUME NEW i \in DOMAIN o, o[i] # o[1]
        PROVE  \E j \in DOMAIN t : t[j] = o[i]
    <3>1. i - 1 \in DOMAIN t /\ (i - 1) + 1 = i
      BY <1>1, <1>5, <2>4
    <3> QED
      BY <2>1, <3>1
  <2> QED
    BY <2>2, <2>3, <2>4 DEF Range
<1> QED
  BY <1>3, <1>4, <1>5, <1>7 DEF t

\* What setToMemory does: at most the oldest entry goes.
LEMMA MemorySet ==
  ASSUME TypeOK, LruIsSound, NEW k \in Keys, NEW blob \in Blobs, SetToMemory(k, blob)
  PROVE  /\ LruIsSound' /\ memory' \in [Keys -> Blobs \union {None}] /\ order' \in Seq(Keys)
         /\ \A j \in Keys : memory'[j] \in {IF j = k THEN blob ELSE memory[j], None}
<1> DEFINE m == [memory EXCEPT ![k] = blob]
           o == TouchAccessOrder(order, k)
           n == CHOOSE n \in Shifts(m, o) : \A i \in Shifts(m, o) : n <= i
<1>0. memory \in [Keys -> Blobs \union {None}] /\ order \in Seq(Keys) /\ MaxMemory \in Nat \ {0} /\ None \notin Blobs
  BY CacheAssumption DEF TypeOK, Blobs
<1>1. Once(order) /\ Range(order) = InMemory(memory) /\ Len(order) <= MaxMemory
  BY DEF LruIsSound, Once
<1>2. /\ o \in Seq(Keys) /\ Len(o) > 0 /\ Once(o) /\ Range(o) = Range(order) \union {k}
      /\ Len(o) \in {Len(order), Len(order) + 1}
  BY <1>0, <1>1, TouchLaws
<1>3. m \in [Keys -> Blobs \union {None}] /\ \A j \in Keys : m[j] = IF j = k THEN blob ELSE memory[j]
  BY <1>0
<1>4. /\ memory' = [j \in Keys |-> IF j \in Range(SubSeq(o, 1, n)) THEN None ELSE m[j]]
      /\ order' = SubSeq(o, n + 1, Len(o))
  BY DEF SetToMemory
<1> HIDE DEF o, m
<1>5. InMemory(m) = Range(o)
  BY <1>0, <1>1, <1>2, <1>3 DEF InMemory
<1>6. Len(o) \in Nat /\ Len(order) \in Nat /\ Len(o) <= MaxMemory + 1
  BY <1>0, <1>1, <1>2
<1>7. IsFiniteSet(Range(o)) /\ Cardinality(Range(o)) = Len(o)
  BY <1>2, OrderSize
<1>8. SubSeq(o, 1, 0) = <<>> /\ Range(<<>>) = {}
  BY <1>2 DEF Range
<1>9. 0 \in Shifts(m, o) <=> Len(o) <= MaxMemory
  <2>1. Cardinality(InMemory(m) \ Range(SubSeq(o, 1, 0))) = Len(o)
    BY <1>5, <1>7, <1>8
  <2>2. 0 \in 0..Len(o)
    BY <1>6
  <2> QED
    BY <2>1, <2>2 DEF Shifts
<1>10. /\ Range(SubSeq(o, 1, 1)) = {o[1]} /\ o[1] \in Range(o)
       /\ SubSeq(o, 2, Len(o)) \in Seq(Keys) /\ Len(SubSeq(o, 2, Len(o))) = Len(o) - 1
       /\ Once(SubSeq(o, 2, Len(o))) /\ Range(SubSeq(o, 2, Len(o))) = Range(o) \ {o[1]}
  BY <1>2, ShiftLaws
<1>11. 1 \in Shifts(m, o)
  <2>1. Cardinality(InMemory(m) \ Range(SubSeq(o, 1, 1))) = Len(o) - 1
    BY <1>5, <1>7, <1>10, FS_RemoveElement
  <2>2. 1 \in 0..Len(o) /\ Len(o) - 1 <= MaxMemory
    BY <1>0, <1>2, <1>6
  <2> QED
    BY <2>1, <2>2 DEF Shifts
<1>12. \A i \in Shifts(m, o) : i \in Nat
  BY <1>6 DEF Shifts
<1>13. CASE Len(o) <= MaxMemory
  <2>1. n = 0
    BY <1>9, <1>12, <1>13
  <2> HIDE DEF n
  <2>2. memory' = m
    BY <1>3, <1>4, <1>8, <2>1
  <2>3. order' = o
    BY <1>2, <1>4, <2>1
  <2> QED
    BY <1>2, <1>3, <1>5, <1>13, <2>2, <2>3 DEF LruIsSound, Once
<1>14. CASE ~(Len(o) <= MaxMemory)
  <2>1. n = 1
    <3>1. \A i \in Shifts(m, o) : 1 <= i
      BY <1>9, <1>12, <1>14
    <3>2. \A x \in Shifts(m, o) : (\A i \in Shifts(m, o) : x <= i) => x = 1
      BY <1>11, <1>12, <3>1
    <3> QED
      BY <1>11, <3>1, <3>2
  <2> HIDE DEF n
  <2>2. \A j \in Keys : memory'[j] = IF j = o[1] THEN None ELSE m[j]
    BY <1>4, <1>10, <2>1
  <2>3. order' = SubSeq(o, 2, Len(o))
    BY <1>4, <2>1
  <2>4. InMemory(memory') = Range(order')
    BY <1>5, <1>10, <2>2, <2>3 DEF InMemory
  <2>5. memory' \in [Keys -> Blobs \union {None}]
    BY <1>3, <1>4
  <2>6. Len(order') <= MaxMemory
    BY <1>0, <1>6, <1>10, <2>3
  <2>7. \A j \in Keys : memory'[j] \in {IF j = k THEN blob ELSE memory[j], None}
    BY <1>3, <2>2
  <2>8. LruIsSound'
    BY <1>10, <2>3, <2>4, <2>6 DEF LruIsSound, Once
  <2> QED
    BY <1>10, <2>3, <2>5, <2>7, <2>8
<1> QED
  BY <1>13, <1>14

\* Reading from memory only touches the order.
LEMMA MemoryRead ==
  ASSUME TypeOK, LruIsSound, NEW k \in Keys, GetFromMemory(k)
  PROVE  LruIsSound' /\ UNCHANGED memory /\ order' \in Seq(Keys)
<1>1. order \in Seq(Keys) /\ Once(order)
  BY DEF TypeOK, LruIsSound, Once
<1>2. CASE memory[k] # None
  <2>1. k \in Range(order)
    BY <1>2 DEF LruIsSound, InMemory
  <2>2. /\ order' = TouchAccessOrder(order, k) /\ order' \in Seq(Keys) /\ Once(order')
        /\ Range(order') = Range(order) \union {k} /\ Len(order') = Len(order) /\ UNCHANGED memory
    BY <1>1, <1>2, <2>1, TouchLaws DEF GetFromMemory
  <2>3. Range(order') = Range(order)
    BY <2>1, <2>2
  <2> QED
    BY <2>2, <2>3 DEF LruIsSound, Once, InMemory
<1>3. CASE memory[k] = None
  BY <1>1, <1>3 DEF GetFromMemory, LruIsSound
<1> QED
  BY <1>2, <1>3

\* Dropping an entry takes it out of memory and out of the order.
LEMMA MemoryDrop ==
  ASSUME TypeOK, LruIsSound, NEW k \in Keys, DropFromMemory(k)
  PROVE  /\ LruIsSound' /\ memory' = [memory EXCEPT ![k] = None]
         /\ memory' \in [Keys -> Blobs \union {None}] /\ order' \in Seq(Keys)
<1>1. order \in Seq(Keys) /\ Once(order) /\ memory \in [Keys -> Blobs \union {None}]
  BY DEF TypeOK, LruIsSound, Once
<1>2. /\ order' = Removed(order, k) /\ order' \in Seq(Keys) /\ Once(order') /\ Range(order') = Range(order) \ {k}
      /\ Len(order') = IF k \in Range(order) THEN Len(order) - 1 ELSE Len(order)
  BY <1>1, RemovedLaws DEF DropFromMemory
<1>3. Len(order') <= MaxMemory
  BY <1>1, <1>2, CacheAssumption DEF LruIsSound
<1>4. memory' = [memory EXCEPT ![k] = None] /\ InMemory(memory') = InMemory(memory) \ {k}
  BY <1>1 DEF DropFromMemory, InMemory
<1> QED
  BY <1>1, <1>2, <1>3, <1>4 DEF LruIsSound, Once

(***************************************************************************)
(* Types                                                                   *)
(***************************************************************************)
Ops == {"get", "set", "delete", "evict"}
\* Calls that are under way, that are to be made or under way, and that are done.
CallsUnderWay == [step : Steps, op : Ops, key : Keys, version : Nat, blob : Blobs \union {None}]
CallsToMake == [step : Steps \union {"none"}, op : Ops, key : Keys, version : Nat, blob : Blobs \union {None}]
CallsDone == [step : {"done"}, op : Ops, true : BOOLEAN]

\* The step of a call tells which of the three kinds it is of.
LEMMA CallKinds ==
  ASSUME NEW x \in CallStates
  PROVE  /\ x.step \in Steps <=> x \in CallsUnderWay
         /\ x.step = "done" <=> x \in CallsDone
         /\ x.step = "none" <=> x = NoCall
         /\ x.step \in Steps \union {"done", "none"}
  BY DEF CallStates, CallsUnderWay, CallsDone, NoCall, Steps, Ops

\* Calls under way, calls that are done and their union.
LEMMA CallKindsOf ==
  /\ CallsUnderWay \subseteq CallStates /\ CallsUnderWay \subseteq CallsToMake
  /\ CallsDone \subseteq CallStates /\ NoCall \in CallStates
  BY DEF CallStates, CallsUnderWay, CallsToMake, CallsDone, NoCall, Steps, Ops

\* A call goes a step on.
LEMMA CallGoesOn ==
  ASSUME NEW x \in CallsToMake, NEW s \in Steps
  PROVE  /\ [x EXCEPT !.step = s] = [step |-> s, op |-> x.op, key |-> x.key, version |-> x.version, blob |-> x.blob]
         /\ [x EXCEPT !.step = s] \in CallsUnderWay
<1>1. x = [step |-> x.step, op |-> x.op, key |-> x.key, version |-> x.version, blob |-> x.blob]
  BY DEF CallsToMake
<1>2. [x EXCEPT !.step = s] = [step |-> s, op |-> x.op, key |-> x.key, version |-> x.version, blob |-> x.blob]
  BY <1>1
<1> QED
  BY <1>2 DEF CallsToMake, CallsUnderWay

\* A call has what it read.
LEMMA CallReads ==
  ASSUME NEW x \in CallsUnderWay, NEW bl \in Blobs \union {None}
  PROVE  /\ [x EXCEPT !.blob = bl] = [step |-> x.step, op |-> x.op, key |-> x.key, version |-> x.version, blob |-> bl]
         /\ [x EXCEPT !.blob = bl] \in CallsUnderWay
<1>1. x = [step |-> x.step, op |-> x.op, key |-> x.key, version |-> x.version, blob |-> x.blob]
  BY DEF CallsUnderWay
<1>2. [x EXCEPT !.blob = bl] = [step |-> x.step, op |-> x.op, key |-> x.key, version |-> x.version, blob |-> bl]
  BY <1>1
<1> QED
  BY <1>2 DEF CallsUnderWay

\* A call turns to something else.
LEMMA CallTurns ==
  ASSUME NEW x \in CallsUnderWay, NEW op \in Ops
  PROVE  /\ [x EXCEPT !.op = op] = [step |-> x.step, op |-> op, key |-> x.key, version |-> x.version, blob |-> x.blob]
         /\ [x EXCEPT !.op = op] \in CallsUnderWay
<1>1. x = [step |-> x.step, op |-> x.op, key |-> x.key, version |-> x.version, blob |-> x.blob]
  BY DEF CallsUnderWay
<1>2. [x EXCEPT !.op = op] = [step |-> x.step, op |-> op, key |-> x.key, version |-> x.version, blob |-> x.blob]
  BY <1>1
<1> QED
  BY <1>2 DEF CallsUnderWay

\* A call ends.
LEMMA CallEnds ==
  ASSUME NEW x \in CallsToMake, NEW b \in BOOLEAN
  PROVE  /\ Done(x, b) \in CallsDone /\ Done(x, b).step = "done" /\ Done(x, b).true = b
<1>1. x.op \in Ops
  BY DEF CallsToMake
<1> QED
  BY <1>1 DEF CallsDone, Done

\* A call that is made.
LEMMA NewCallIs ==
  ASSUME TypeOK, NEW op \in Ops, NEW c \in Calls, NEW k \in Keys
  PROVE  /\ NewCall(op, c, k) \in CallsToMake
         /\ NewCall(op, c, k).op = op /\ NewCall(op, c, k).key = k /\ NewCall(op, c, k).version = version[k]
         /\ NewCall(op, c, k).step = "none"
  BY DEF TypeOK, NewCall, CallsToMake

\* The user and the connection of the moment.
LEMMA DoorTypes ==
  ASSUME TypeOK
  PROVE  /\ current # 0 => current \in DOMAIN opening /\ current = Len(opening) /\ User \in Users /\ User = opening[current].user
         /\ DOMAIN opening = 1..Len(opening) /\ Len(opening) \in Nat /\ DOMAIN opening \subseteq 1..MaxLogins
         /\ User # None => current # 0
         /\ User \in Users \union {None}
         /\ DbReady => User \in Users
<1>1. opening \in Seq([user : Users, state : {"pending", "open", "closed", "failed"}]) /\ Len(opening) <= MaxLogins
  BY DEF TypeOK
<1>2. DOMAIN opening = 1..Len(opening) /\ Len(opening) \in Nat /\ MaxLogins \in Nat
  BY <1>1, CacheAssumption
<1>3. current # 0 => current \in DOMAIN opening /\ current = Len(opening)
  <2>1. current \in {0, Len(opening)}
    BY DEF TypeOK
  <2>2. Len(opening) # 0 => Len(opening) \in 1..Len(opening)
    BY <1>2
  <2> QED
    BY <1>2, <2>1, <2>2
<1>4. \A n \in DOMAIN opening : opening[n].user \in Users
  <2> DEFINE S == [user : Users, state : {"pending", "open", "closed", "failed"}]
  <2>1. opening \in Seq(S) /\ \A x \in S : x.user \in Users
    BY <1>1
  <2> HIDE DEF S
  <2> QED
    BY <2>1
<1> QED
  BY <1>1, <1>2, <1>3, <1>4, CacheAssumption DEF User, DbReady

\* What asking for the database does to lines and calls.
LEMMA AskTypes ==
  ASSUME TypeOK, NEW c \in Calls, NEW call \in CallsToMake, AskForDB(c, call)
  PROVE  /\ calls' \in [Calls -> CallStates] /\ queue' \in [Users -> Seq(Calls)]
         /\ waiters' \in [1..MaxLogins -> Seq(Calls)] /\ missed' \subseteq Keys
<1>1. call.key \in Keys
  BY DEF CallsToMake
<1>2. CASE DbReady
  <2>1. /\ calls' = [calls EXCEPT ![c] = [call EXCEPT !.step = "queued"]]
        /\ queue' = [queue EXCEPT ![User] = Append(@, c)] /\ waiters' = waiters
        /\ missed' = IF Writes(call) THEN missed \ {call.key} ELSE missed
    BY <1>2 DEF AskForDB, StillOpening, DbReady
  <2>2. [call EXCEPT !.step = "queued"] \in CallStates
    BY CallGoesOn, CallKindsOf DEF Steps
  <2>3. User \in Users
    BY <1>2, DoorTypes
  <2> QED
    BY <1>1, <2>1, <2>2, <2>3 DEF TypeOK
<1>3. CASE StillOpening
  <2>1. /\ calls' = [calls EXCEPT ![c] = [call EXCEPT !.step = "waiting"]]
        /\ queue' = queue /\ missed' = missed /\ waiters' = [waiters EXCEPT ![current] = Append(@, c)]
    BY <1>3 DEF AskForDB, StillOpening, DbReady
  <2>2. [call EXCEPT !.step = "waiting"] \in CallStates
    BY CallGoesOn, CallKindsOf DEF Steps
  <2>3. current \in 1..MaxLogins
    BY <1>3, DoorTypes DEF StillOpening
  <2> QED
    BY <2>1, <2>2, <2>3 DEF TypeOK
<1>4. CASE ~DbReady /\ ~StillOpening
  <2>1. /\ calls' = [calls EXCEPT ![c] = Done(call, TRUE)] /\ queue' = queue /\ waiters' = waiters
        /\ missed' = IF Writes(call) THEN missed \union {call.key} ELSE missed
    BY <1>4 DEF AskForDB
  <2>2. Done(call, TRUE) \in CallStates
    BY CallEnds, CallKindsOf
  <2> QED
    BY <1>1, <2>1, <2>2 DEF TypeOK
<1> QED
  BY <1>2, <1>3, <1>4

\* A call that asks for the database makes its transaction, waits, or is done.
LEMMA AskCases ==
  ASSUME TypeOK, NEW c \in Calls, NEW call \in CallsToMake, AskForDB(c, call)
  PROVE  \E x \in CallStates :
           /\ calls' = [calls EXCEPT ![c] = x]
           /\ x.step \in Steps => x.op = call.op /\ x.key = call.key /\ x.version = call.version
           /\ \/ /\ DbReady /\ x.step = "queued"
                 /\ queue' = [queue EXCEPT ![User] = Append(@, c)] /\ waiters' = waiters
                 /\ missed' = IF Writes(call) THEN missed \ {call.key} ELSE missed
              \/ /\ StillOpening /\ x.step = "waiting"
                 /\ waiters' = [waiters EXCEPT ![current] = Append(@, c)] /\ queue' = queue
                 /\ missed' = missed
              \/ /\ ~DbReady /\ ~StillOpening /\ x.step = "done" /\ x.true
                 /\ queue' = queue /\ waiters' = waiters
                 /\ missed' = IF Writes(call) THEN missed \union {call.key} ELSE missed
<1>1. \A s \in Steps : LET x == [call EXCEPT !.step = s] IN
        x \in CallStates /\ x.step = s /\ x.op = call.op /\ x.key = call.key /\ x.version = call.version
  <2> TAKE s \in Steps
  <2> DEFINE x == [call EXCEPT !.step = s]
  <2>1. x = [step |-> s, op |-> call.op, key |-> call.key, version |-> call.version, blob |-> call.blob] /\ x \in CallStates
    BY CallGoesOn, CallKindsOf
  <2> HIDE DEF x
  <2>2. x \in CallStates /\ x.step = s /\ x.op = call.op /\ x.key = call.key /\ x.version = call.version
    BY <2>1
  <2> QED
    BY <2>2 DEF x
<1>2. Done(call, TRUE) \in CallStates /\ Done(call, TRUE).step = "done" /\ Done(call, TRUE).true
  BY CallEnds, CallKindsOf
<1>3. CASE DbReady
  <2>1. /\ calls' = [calls EXCEPT ![c] = [call EXCEPT !.step = "queued"]]
        /\ queue' = [queue EXCEPT ![User] = Append(@, c)] /\ waiters' = waiters
        /\ missed' = IF Writes(call) THEN missed \ {call.key} ELSE missed
    BY <1>3 DEF AskForDB, StillOpening, DbReady
  <2>2. "queued" \in Steps
    BY DEF Steps
  <2> DEFINE x == [call EXCEPT !.step = "queued"]
  <2>3. x \in CallStates /\ x.step = "queued" /\ x.op = call.op /\ x.key = call.key /\ x.version = call.version
    BY <1>1, <2>2
  <2> HIDE DEF x
  <2>4. calls' = [calls EXCEPT ![c] = x]
    BY <2>1 DEF x
  <2> QED
    BY <1>3, <2>1, <2>3, <2>4
<1>4. CASE StillOpening
  <2>1. /\ calls' = [calls EXCEPT ![c] = [call EXCEPT !.step = "waiting"]]
        /\ queue' = queue /\ missed' = missed /\ waiters' = [waiters EXCEPT ![current] = Append(@, c)]
    BY <1>4 DEF AskForDB, StillOpening, DbReady
  <2>2. "waiting" \in Steps
    BY DEF Steps
  <2> DEFINE x == [call EXCEPT !.step = "waiting"]
  <2>3. x \in CallStates /\ x.step = "waiting" /\ x.op = call.op /\ x.key = call.key /\ x.version = call.version
    BY <1>1, <2>2
  <2> HIDE DEF x
  <2>4. calls' = [calls EXCEPT ![c] = x]
    BY <2>1 DEF x
  <2> QED
    BY <1>4, <2>1, <2>3, <2>4
<1>5. CASE ~DbReady /\ ~StillOpening
  <2>1. /\ calls' = [calls EXCEPT ![c] = Done(call, TRUE)] /\ queue' = queue /\ waiters' = waiters
        /\ missed' = IF Writes(call) THEN missed \union {call.key} ELSE missed
    BY <1>5 DEF AskForDB
  <2> DEFINE x == Done(call, TRUE)
  <2>2. x \in CallStates /\ x.step = "done" /\ x.true /\ x.step \notin Steps
    BY <1>2 DEF Steps
  <2> HIDE DEF x
  <2>3. calls' = [calls EXCEPT ![c] = x]
    BY <2>1 DEF x
  <2> QED
    BY <1>5, <2>1, <2>2, <2>3
<1> QED
  BY <1>3, <1>4, <1>5

\* What a key may stand for.
LEMMA MeaningTypes ==
  ASSUME NEW k, NEW l, NEW m, l[k] \in Blobs \union {None}
  PROVE  /\ Meanings(k, l, m) \subseteq Blobs \union {None} /\ l[k] \in Meanings(k, l, m)
         /\ k \in m => Meanings(k, l, m) = Blobs \union {None}
         /\ k \notin m => Meanings(k, l, m) = {l[k]}
  BY DEF Meanings

\* The answer of a call under way.
LEMMA AnswerIs ==
  ASSUME TypeOK, NEW c \in Calls, Busy(c), NEW blob
  PROVE  /\ calls[c] \in CallsUnderWay /\ Answer(c, blob) \in CallsDone /\ Answer(c, blob).step = "done"
         /\ Answer(c, blob).true = (blob \in seen[c] \union {None})
<1>1. calls[c] \in CallStates
  BY DEF TypeOK
<1>2. calls[c] \in CallsUnderWay
  BY <1>1, CallKinds DEF Busy
<1>3. calls[c] \in CallsToMake
  BY <1>2, CallKindsOf
<1> DEFINE b == blob \in seen[c] \union {None}
<1>4. b \in BOOLEAN
  OBVIOUS
<1> HIDE DEF b
<1>5. Done(calls[c], b) \in CallsDone /\ Done(calls[c], b).step = "done" /\ Done(calls[c], b).true = b
  BY <1>3, <1>4, CallEnds
<1> QED
  BY <1>2, <1>5 DEF Answer, b

\* Calls that fail.
LEMMA GiveUpLaws ==
  ASSUME TypeOK, NEW cs \in SUBSET {c \in Calls : Busy(c)}, GiveUp(cs)
  PROVE  /\ calls' \in [Calls -> CallStates] /\ missed' \subseteq Keys
         /\ seen' \in [Calls -> SUBSET (Blobs \union {None})] /\ last' = last /\ missed \subseteq missed'
         /\ \A c \in cs : calls'[c].step = "done" /\ calls'[c].true /\ (Writes(calls[c]) => calls[c].key \in missed')
         /\ \A c \in Calls \ cs : calls'[c] = calls[c]
         /\ \A c \in Calls : calls'[c].step \in Steps /\ calls'[c].op = "get" =>
              Meanings(calls'[c].key, last', missed') \subseteq seen'[c]
<1>1. \A c \in cs : Answer(c, None) \in CallStates /\ Answer(c, None).step = "done" /\ Answer(c, None).true
  BY AnswerIs, CallKindsOf
<1>2. calls' = [c \in Calls |-> IF c \in cs THEN Answer(c, None) ELSE calls[c]]
  BY DEF GiveUp
<1>3. calls' \in [Calls -> CallStates]
  BY <1>1, <1>2 DEF TypeOK
<1>4. \A c \in Calls : Busy(c) => calls[c].key \in Keys
  <2> TAKE c \in Calls
  <2>1. Busy(c) => calls[c] \in CallsUnderWay
    BY AnswerIs
  <2> QED
    BY <2>1 DEF CallsUnderWay
<1>5. missed' = missed \union {calls[c].key : c \in {d \in cs : Writes(calls[d])}}
  BY DEF GiveUp
<1>6. missed' \subseteq Keys
  BY <1>4, <1>5 DEF TypeOK
<1>7. seen' = [d \in Calls |->
        IF Busy(d) /\ d \notin cs /\ calls[d].op = "get" THEN seen[d] \union Meanings(calls[d].key, last, missed') ELSE {}]
  BY DEF GiveUp
<1>8. \A d \in Calls : Busy(d) => Meanings(calls[d].key, last, missed') \subseteq Blobs \union {None}
  BY <1>4, MeaningTypes DEF TypeOK
<1>9. seen' \in [Calls -> SUBSET (Blobs \union {None})]
  <2>1. \A d \in Calls : seen[d] \subseteq Blobs \union {None}
    BY DEF TypeOK
  <2>2. \A d \in Calls : (IF Busy(d) /\ d \notin cs /\ calls[d].op = "get"
                          THEN seen[d] \union Meanings(calls[d].key, last, missed') ELSE {}) \subseteq Blobs \union {None}
    BY <1>8, <2>1
  <2> QED
    BY <1>7, <2>2
<1>10. last' = last
  BY DEF GiveUp
<1>11. ASSUME NEW c \in Calls, calls'[c].step \in Steps, calls'[c].op = "get"
       PROVE  Meanings(calls'[c].key, last', missed') \subseteq seen'[c]
  <2>1. c \notin cs
    BY <1>1, <1>2, <1>11 DEF Steps
  <2>2. calls'[c] = calls[c] /\ Busy(c)
    BY <1>2, <1>11, <2>1 DEF Busy
  <2> QED
    BY <1>7, <1>10, <1>11, <2>1, <2>2
<1> QED
  BY <1>1, <1>2, <1>3, <1>5, <1>6, <1>9, <1>10, <1>11

\* Lines name calls, and these are where the line says.
LEMMA LineCalls ==
  ASSUME TypeOK, LineInv
  PROVE  /\ \A u \in Users : \A c \in Range(queue[u]) :
              /\ c \in Calls /\ Busy(c) /\ calls[c].step = "queued" /\ (OfPage(c) => Owner[calls[c].key] = u)
         /\ \A n \in 1..MaxLogins : \A c \in Range(waiters[n]) :
              /\ c \in Calls /\ Busy(c) /\ calls[c].step = "waiting" /\ Pending(n)
              /\ OfPage(c) => Owner[calls[c].key] = opening[n].user
<1>1. \A u \in Users : queue[u] \in Seq(Calls)
  BY DEF TypeOK
<1>2. \A n \in 1..MaxLogins : waiters[n] \in Seq(Calls)
  BY DEF TypeOK
<1>3. \A s \in Seq(Calls) : \A c \in Range(s) : c \in Calls /\ \E i \in DOMAIN s : c = s[i]
  BY DEF Range
<1>4. ASSUME NEW u \in Users, NEW c \in Range(queue[u])
      PROVE  /\ c \in Calls /\ Busy(c) /\ calls[c].step = "queued" /\ (OfPage(c) => Owner[calls[c].key] = u)
  <2>1. PICK i \in DOMAIN queue[u] : c = queue[u][i]
    BY <1>1, <1>3
  <2>2. c \in Calls
    BY <1>1, <1>3
  <2>3. calls[c].step = "queued" /\ (OfPage(c) => Owner[calls[c].key] = u)
    BY <2>1 DEF LineInv
  <2> QED
    BY <2>2, <2>3 DEF Busy, Steps
<1>5. ASSUME NEW n \in 1..MaxLogins, NEW c \in Range(waiters[n])
      PROVE  /\ c \in Calls /\ Busy(c) /\ calls[c].step = "waiting" /\ Pending(n)
             /\ OfPage(c) => Owner[calls[c].key] = opening[n].user
  <2>1. PICK i \in DOMAIN waiters[n] : c = waiters[n][i]
    BY <1>2, <1>3
  <2>2. c \in Calls
    BY <1>2, <1>3
  <2>3. calls[c].step = "waiting" /\ Pending(n) /\ (OfPage(c) => Owner[calls[c].key] = opening[n].user)
    BY <2>1 DEF LineInv
  <2> QED
    BY <2>2, <2>3 DEF Busy, Steps
<1> QED
  BY <1>4, <1>5

(***************************************************************************)
(* What keeps the parts of the invariant                                   *)
(***************************************************************************)
\* Versions stay right when pages' calls end or go on, and none is made.
LEMMA VersionStays ==
  ASSUME VersionInv, version' = version, last' = last,
         \A c \in Calls : calls'[c] = NoCall <=> calls[c] = NoCall,
         \A c \in Calls : OfPage(c)' =>
           OfPage(c) /\ calls'[c].op = calls[c].op /\ calls'[c].key = calls[c].key /\ calls'[c].version = calls[c].version
  PROVE  VersionInv'
<1>1. \A c, d \in Calls : c < d /\ calls'[d] # NoCall => calls'[c] # NoCall
  BY DEF VersionInv
<1>2. ASSUME NEW c \in Calls, OfPage(c)'
      PROVE  /\ calls'[c].version <= version'[calls'[c].key]
             /\ Writes(calls'[c]) =>
                  /\ calls'[c].version < version'[calls'[c].key]
                  /\ IsLatest(c)' => last'[calls'[c].key] = IF calls'[c].op = "set" THEN c ELSE None
  <2>1. /\ OfPage(c) /\ calls'[c].op = calls[c].op /\ calls'[c].key = calls[c].key
        /\ calls'[c].version = calls[c].version
    BY <1>2
  <2> QED
    BY <2>1 DEF VersionInv, Writes, IsLatest
<1>3. ASSUME NEW c \in Calls, NEW d \in Calls, c < d, OfPage(c)', OfPage(d)', calls'[c].key = calls'[d].key
      PROVE  /\ calls'[c].version <= calls'[d].version
             /\ Writes(calls'[c]) => calls'[c].version < calls'[d].version
  <2>1. /\ OfPage(c) /\ calls'[c].op = calls[c].op /\ calls'[c].key = calls[c].key
        /\ calls'[c].version = calls[c].version
    BY <1>3
  <2>2. OfPage(d) /\ calls'[d].key = calls[d].key /\ calls'[d].version = calls[d].version
    BY <1>3
  <2> QED
    BY <1>3, <2>1, <2>2 DEF VersionInv, Writes
<1> QED
  BY <1>1, <1>2, <1>3 DEF VersionInv

\* A line without some of its first, or without anyone.
Rest(t, s) == \E j \in Nat : \A i \in DOMAIN t : i + j \in DOMAIN s /\ t[i] = s[i + j]

\* It has no one twice either, and the same order.
LEMMA RestLaws ==
  ASSUME NEW s \in Seq(Calls), NEW t \in Seq(Calls), Rest(t, s)
  PROVE  Range(t) \subseteq Range(s) /\ (Once(s) => Once(t))
<1>1. PICK j \in Nat : \A i \in DOMAIN t : i + j \in DOMAIN s /\ t[i] = s[i + j]
  BY DEF Rest
<1>2. DOMAIN t \subseteq Nat
  OBVIOUS
<1>3. Range(t) \subseteq Range(s)
  BY <1>1 DEF Range
<1>4. ASSUME Once(s), NEW i \in DOMAIN t, NEW l \in DOMAIN t, t[i] = t[l]
      PROVE  i = l
  <2>1. i + j = l + j
    BY <1>1, <1>4 DEF Once
  <2> QED
    BY <1>2, <2>1
<1> QED
  BY <1>3, <1>4 DEF Once

\* Nothing has gone from a line.
LEMMA RestItself == \A s \in Seq(Calls) : Rest(s, s)
<1>1. \A s \in Seq(Calls) : DOMAIN s \subseteq Nat
  OBVIOUS
<1>2. \A i \in Nat : i + 0 = i
  OBVIOUS
<1> QED
  BY <1>1, <1>2 DEF Rest

\* Calls under way that read or write a page.
Pages == {c \in Calls : OfPage(c)}

\* Lines stay in order when calls leave them at the front, or altogether.
LEMMA OrderStays ==
  ASSUME TypeOK, TypeOK', OrderInv,
         \A u \in Users : Rest(queue'[u], queue[u]),
         \A n \in 1..MaxLogins : Rest(waiters'[n], waiters[n]),
         \A n \in 1..MaxLogins : Range(waiters'[n]) # {} => opening'[n].user = opening[n].user,
         \A c \in Calls : OfPage(c)' => OfPage(c) /\ calls'[c].key = calls[c].key,
         \A c \in Calls : OfPage(c)' /\ calls'[c].step \in {"queued", "read"} => calls[c].step \in {"queued", "read"}
  PROVE  OrderInv'
<1>1. \A u \in Users : queue[u] \in Seq(Calls) /\ queue'[u] \in Seq(Calls)
  BY DEF TypeOK
<1>2. \A n \in 1..MaxLogins : waiters[n] \in Seq(Calls) /\ waiters'[n] \in Seq(Calls)
  BY DEF TypeOK
<1>0. \A s \in Seq(Calls) : Range(s) \subseteq Calls
  BY DEF Range
<1>3. \A u \in Users : Range(queue'[u]) \subseteq Range(queue[u]) /\ Once(queue'[u])
  BY <1>1, RestLaws DEF OrderInv
<1>4. \A n \in 1..MaxLogins : Range(waiters'[n]) \subseteq Range(waiters[n]) /\ Once(waiters'[n])
  BY <1>2, RestLaws DEF OrderInv
<1>5. ASSUME NEW s \in Seq(Calls), NEW t \in Seq(Calls), Rest(t, s), InOrder(s)
      PROVE  \A i, l \in DOMAIN t : i < l /\ t[i] \in Pages' /\ t[l] \in Pages' => t[i] < t[l]
  <2>1. PICK j \in Nat : \A h \in DOMAIN t : h + j \in DOMAIN s /\ t[h] = s[h + j]
    BY <1>5 DEF Rest
  <2>2. Pages' \subseteq Pages
    BY DEF Pages
  <2>3. ASSUME NEW i \in DOMAIN t, NEW l \in DOMAIN t, i < l, t[i] \in Pages', t[l] \in Pages'
        PROVE  t[i] < t[l]
    <3>1. i + j < l + j /\ i + j \in DOMAIN s /\ l + j \in DOMAIN s /\ t[i] = s[i + j] /\ t[l] = s[l + j]
      BY <2>1, <2>3
    <3>2. OfPage(s[i + j]) /\ OfPage(s[l + j])
      BY <2>2, <2>3, <3>1 DEF Pages
    <3>3. s[i + j] < s[l + j]
      BY <1>5, <3>1, <3>2 DEF InOrder
    <3> QED
      BY <3>1, <3>3
  <2> QED
    BY <2>3
<1>6. \A u \in Users : InOrder(queue[u])'
  <2>1. \A u \in Users : Rest(queue'[u], queue[u]) /\ InOrder(queue[u])
    BY DEF OrderInv
  <2>2. \A u \in Users : \A i, l \in DOMAIN queue'[u] :
          i < l /\ queue'[u][i] \in Pages' /\ queue'[u][l] \in Pages' => queue'[u][i] < queue'[u][l]
    BY <1>1, <1>5, <2>1
  <2> QED
    BY <1>1, <2>2 DEF InOrder, Pages
<1>7. \A n \in 1..MaxLogins : InOrder(waiters[n])'
  <2>1. \A n \in 1..MaxLogins : Rest(waiters'[n], waiters[n]) /\ InOrder(waiters[n])
    BY DEF OrderInv
  <2>2. \A n \in 1..MaxLogins : \A i, l \in DOMAIN waiters'[n] :
          i < l /\ waiters'[n][i] \in Pages' /\ waiters'[n][l] \in Pages' => waiters'[n][i] < waiters'[n][l]
    BY <1>2, <1>5, <2>1
  <2> QED
    BY <1>2, <2>2 DEF InOrder, Pages
<1>8. \A u, v \in Users : u # v => Range(queue'[u]) \cap Range(queue'[v]) = {}
  BY <1>3 DEF OrderInv
<1>9. \A n, m \in 1..MaxLogins : n # m => Range(waiters'[n]) \cap Range(waiters'[m]) = {}
  BY <1>4 DEF OrderInv
<1>10. ASSUME NEW n \in 1..MaxLogins, NEW d \in Range(waiters'[n]), NEW c \in Calls,
              OfPage(c)', OfPage(d)', calls'[c].step \in {"queued", "read"}, Owner[calls'[c].key] = opening'[n].user
       PROVE  c < d
  <2>1. d \in Calls /\ d \in Range(waiters[n])
    BY <1>0, <1>2, <1>4
  <2>2. opening'[n].user = opening[n].user
    OBVIOUS
  <2>3. OfPage(c) /\ OfPage(d) /\ calls'[c].key = calls[c].key /\ calls[c].step \in {"queued", "read"}
    BY <1>10, <2>1
  <2> QED
    BY <1>10, <2>1, <2>2, <2>3 DEF OrderInv
<1>11. ASSUME NEW n \in 1..MaxLogins, NEW m \in 1..MaxLogins, NEW c \in Range(waiters'[n]), NEW d \in Range(waiters'[m]),
              n < m, opening'[n].user = opening'[m].user, OfPage(c)', OfPage(d)'
       PROVE  c < d
  <2>1. c \in Calls /\ d \in Calls /\ c \in Range(waiters[n]) /\ d \in Range(waiters[m])
    BY <1>0, <1>2, <1>4
  <2>2. opening'[n].user = opening[n].user /\ opening'[m].user = opening[m].user
    OBVIOUS
  <2>3. OfPage(c) /\ OfPage(d)
    BY <1>11, <2>1
  <2> QED
    BY <1>11, <2>1, <2>2, <2>3 DEF OrderInv
<1> QED
  BY <1>3, <1>4, <1>6, <1>7, <1>8, <1>9, <1>10, <1>11 DEF OrderInv

(***************************************************************************)
(* Steps after which there is less to do: connections come and go, calls   *)
(* that wait fail, memory and databases lose entries.                      *)
(***************************************************************************)
\* A call that waits fails, and a write that fails has missed the database.
Fails(c) ==
  /\ Busy(c) /\ calls[c].step \in {"waiting", "queued"}
  /\ calls'[c].step = "done" /\ calls'[c].true
  /\ Writes(calls[c]) => calls[c].key \in missed'

\* Whole lines fail or stay, copies go or stay, and nothing is written.
LessToDo ==
  /\ version' = version /\ last' = last /\ missed \subseteq missed'
  /\ \A k \in Keys : memory'[k] \in {memory[k], None} /\ disk'[k] \in {disk[k], None}
  /\ \A c \in Calls : calls'[c] = calls[c] \/ Fails(c)
  /\ \A u \in Users :
       \/ queue'[u] = queue[u] /\ \A c \in Range(queue[u]) : calls'[c] = calls[c]
       \/ queue'[u] = <<>> /\ \A c \in Range(queue[u]) : Fails(c)
  /\ \A n \in 1..MaxLogins :
       \/ waiters'[n] = waiters[n] /\ (\A c \in Range(waiters[n]) : calls'[c] = calls[c]) /\ (Pending(n) => Pending(n)')
       \/ waiters'[n] = <<>> /\ \A c \in Range(waiters[n]) : Fails(c)
  /\ \A n \in DOMAIN opening : n \in DOMAIN opening' /\ opening'[n].user = opening[n].user
  /\ current' \in 1..MaxLogins => current' = current \/ waiters'[current'] = <<>>
  /\ \A c \in Calls : calls'[c].step \in Steps /\ calls'[c].op = "get" =>
       Meanings(calls'[c].key, last', missed') \subseteq seen'[c]

\* A call that fails is neither under way nor not made.
LEMMA FailsIs ==
  ASSUME NEW c \in Calls, Fails(c)
  PROVE  calls[c] # NoCall /\ calls'[c] # NoCall /\ ~Busy(c)' /\ ~OfPage(c)' /\ calls'[c].step \notin {"waiting", "queued", "read", "stored"}
<1>1. calls[c].step # "none" /\ calls'[c].step = "done"
  BY DEF Fails
<1> QED
  BY <1>1 DEF NoCall, Busy, OfPage, Steps

\* Nobody waits for an opening that is not there.
LEMMA NobodyWaits ==
  ASSUME TypeOK, LineInv, NEW n \in 1..MaxLogins, waiters[n] # <<>>
  PROVE  Pending(n) /\ n \in DOMAIN opening
<1>1. waiters[n] \in Seq(Calls)
  BY DEF TypeOK
<1>2. 1 \in DOMAIN waiters[n]
  BY <1>1
<1> QED
  BY <1>2 DEF LineInv, Pending

\* Less to do leaves the calls in their lines.
LEMMA LessToDoLines ==
  ASSUME TypeOK, LineInv, TypeOK', LessToDo
  PROVE  LineInv'
<1>1. \A u \in Users : queue[u] \in Seq(Calls) /\ queue'[u] \in Seq(Calls)
  BY DEF TypeOK
<1>2. \A n \in 1..MaxLogins : waiters[n] \in Seq(Calls) /\ waiters'[n] \in Seq(Calls)
  BY DEF TypeOK
<1>3. ASSUME NEW u \in Users, NEW i \in DOMAIN queue'[u]
      PROVE  calls'[queue'[u][i]].step = "queued" /\ (OfPage(queue[u][i])' => Owner[calls'[queue'[u][i]].key] = u)
  <2>1. queue'[u] = queue[u] /\ \A c \in Range(queue[u]) : calls'[c] = calls[c]
    <3>1. queue'[u] # <<>>
      BY <1>3
    <3> QED
      BY <3>1 DEF LessToDo
  <2> DEFINE c == queue[u][i]
  <2>2. i \in DOMAIN queue[u] /\ c \in Range(queue[u]) /\ queue'[u][i] = c
    BY <1>1, <1>3, <2>1 DEF Range
  <2>3. calls[c].step = "queued" /\ (OfPage(c) => Owner[calls[c].key] = u)
    BY <2>2 DEF LineInv
  <2>4. calls'[c] = calls[c]
    BY <2>1, <2>2
  <2> QED
    BY <2>2, <2>3, <2>4 DEF OfPage, Busy
<1>4. ASSUME NEW n \in 1..MaxLogins, NEW i \in DOMAIN waiters'[n]
      PROVE  /\ calls'[waiters'[n][i]].step = "waiting" /\ Pending(n)'
             /\ OfPage(waiters[n][i])' => Owner[calls'[waiters'[n][i]].key] = opening'[n].user
  <2>1. waiters'[n] = waiters[n] /\ (\A c \in Range(waiters[n]) : calls'[c] = calls[c]) /\ (Pending(n) => Pending(n)')
    <3>1. waiters'[n] # <<>>
      BY <1>4
    <3> QED
      BY <3>1 DEF LessToDo
  <2> DEFINE c == waiters[n][i]
  <2>2. i \in DOMAIN waiters[n] /\ c \in Range(waiters[n]) /\ waiters'[n][i] = c
    BY <1>2, <1>4, <2>1 DEF Range
  <2>3. calls[c].step = "waiting" /\ Pending(n) /\ (OfPage(c) => Owner[calls[c].key] = opening[n].user)
    BY <2>2 DEF LineInv
  <2>4. calls'[c] = calls[c]
    BY <2>1, <2>2
  <2>5. opening'[n].user = opening[n].user
    BY <2>3 DEF LessToDo, Pending
  <2> QED
    BY <2>1, <2>2, <2>3, <2>4, <2>5 DEF OfPage, Busy
<1>5. ASSUME NEW c \in Calls, calls'[c].step \in {"waiting", "queued", "read", "stored"}
      PROVE  calls'[c] = calls[c]
  BY <1>5, FailsIs DEF LessToDo
<1>6. ASSUME NEW c \in Calls, calls'[c].step = "queued"
      PROVE  \E u \in Users : c \in Range(queue'[u])
  <2>1. calls'[c] = calls[c]
    BY <1>5, <1>6
  <2>2. PICK u \in Users : c \in Range(queue[u])
    BY <1>6, <2>1 DEF LineInv
  <2>3. ~Fails(c)
    BY <1>6 DEF Fails
  <2>4. queue'[u] = queue[u]
    BY <2>2, <2>3 DEF LessToDo
  <2> QED
    BY <2>2, <2>4
<1>7. ASSUME NEW c \in Calls, calls'[c].step = "waiting"
      PROVE  \E n \in 1..MaxLogins : c \in Range(waiters'[n])
  <2>1. calls'[c] = calls[c]
    BY <1>5, <1>7
  <2>2. PICK n \in 1..MaxLogins : c \in Range(waiters[n])
    BY <1>7, <2>1 DEF LineInv
  <2>3. ~Fails(c)
    BY <1>7 DEF Fails
  <2>4. waiters'[n] = waiters[n]
    BY <2>2, <2>3 DEF LessToDo
  <2> QED
    BY <2>2, <2>4
<1>8. \A c \in Calls : /\ calls'[c].step = "stored" => calls'[c].op = "set"
                       /\ calls'[c].step = "read" => calls'[c].op = "get"
  BY <1>5 DEF LineInv
<1> QED
  BY <1>3, <1>4, <1>6, <1>7, <1>8 DEF LineInv

\* Less to do keeps the invariant, but for what it says of types, memory and connections.
LEMMA LessToDoKeeps ==
  ASSUME IInv, TypeOK', LruIsSound', DoorInv', LessToDo
  PROVE  IInv'
<1> USE DEF IInv
<1>1. LineInv'
  BY LessToDoLines
<1>2. \A c \in Calls : calls'[c] = calls[c] \/ Fails(c)
  BY DEF LessToDo
<1>3. \A c \in Calls : Busy(c)' => calls'[c] = calls[c] /\ Busy(c)
  BY <1>2, FailsIs DEF Busy
<1>4. \A c \in Calls : OfPage(c)' => calls'[c] = calls[c] /\ OfPage(c)
  BY <1>3 DEF OfPage
<1>5. AnswersAreCurrent'
  BY <1>2 DEF AnswersAreCurrent, Ended, Fails
<1>6. VersionInv'
  <2>1. \A c \in Calls : calls'[c] = NoCall <=> calls[c] = NoCall
    BY <1>2, FailsIs
  <2>2. version' = version /\ last' = last
    BY DEF LessToDo
  <2> QED
    BY <1>4, <2>1, <2>2, VersionStays
<1>7. OrderInv'
  <2>1. \A s \in Seq(Calls) : Rest(<<>>, s) /\ Rest(s, s)
    <3>1. \A s \in Seq(Calls) : DOMAIN s \subseteq Nat
      OBVIOUS
    <3>2. \A i \in Nat : i + 0 = i
      OBVIOUS
    <3>3. DOMAIN <<>> = {}
      OBVIOUS
    <3> QED
      BY <3>1, <3>2, <3>3 DEF Rest
  <2>2. \A u \in Users : Rest(queue'[u], queue[u])
    <3>1. \A u \in Users : queue[u] \in Seq(Calls) /\ queue'[u] \in {queue[u], <<>>}
      BY DEF TypeOK, LessToDo
    <3> QED
      BY <2>1, <3>1
  <2>3. \A n \in 1..MaxLogins : Rest(waiters'[n], waiters[n])
    <3>1. \A n \in 1..MaxLogins : waiters[n] \in Seq(Calls) /\ waiters'[n] \in {waiters[n], <<>>}
      BY DEF TypeOK, LessToDo
    <3> QED
      BY <2>1, <3>1
  <2>4. \A n \in 1..MaxLogins : Range(waiters'[n]) # {} => opening'[n].user = opening[n].user
    <3> TAKE n \in 1..MaxLogins
    <3> HAVE Range(waiters'[n]) # {}
    <3>1. waiters'[n] # <<>>
      BY DEF Range
    <3>2. waiters[n] # <<>>
      BY <3>1 DEF LessToDo
    <3>3. n \in DOMAIN opening
      BY <3>2, NobodyWaits
    <3> QED
      BY <3>3 DEF LessToDo
  <2>5. \A c \in Calls : OfPage(c)' => OfPage(c) /\ calls'[c].key = calls[c].key
    BY <1>4
  <2>6. \A c \in Calls : OfPage(c)' /\ calls'[c].step \in {"queued", "read"} => calls[c].step \in {"queued", "read"}
    BY <1>4
  <2> QED
    BY <2>2, <2>3, <2>4, <2>5, <2>6, OrderStays
<1>8. CopyInv'
  <2> SUFFICES ASSUME NEW k \in Keys
               PROVE  /\ WaitsHere(k)' => \E c \in Range(waiters'[current']) : Unwritten(c, k)' /\ IsLatest(c)'
                      /\ k \notin missed' =>
                           \/ \E c \in Calls : Unwritten(c, k)' /\ IsLatest(c)'
                           \/ (\A c \in Calls : ~Unwritten(c, k)') /\ disk'[k] \in {None, last'[k]}
                      /\ k \notin missed' \/ WaitsHere(k)' => memory'[k] \in {None, last'[k]}
    BY DEF CopyInv
  <2>1. version' = version /\ last' = last /\ missed \subseteq missed'
        /\ memory'[k] \in {memory[k], None} /\ disk'[k] \in {disk[k], None}
    BY DEF LessToDo
  <2>2. \A c \in Calls : calls'[c] = calls[c] => (Unwritten(c, k)' <=> Unwritten(c, k)) /\ (IsLatest(c)' <=> IsLatest(c))
    BY <2>1 DEF Unwritten, IsLatest
  <2>3. \A c \in Calls : Fails(c) => ~Unwritten(c, k)' /\ (Unwritten(c, k) => k \in missed')
    BY DEF Unwritten, Fails
  <2>4. ASSUME WaitsHere(k)'
        PROVE  /\ WaitsHere(k)
               /\ \E c \in Range(waiters'[current']) : Unwritten(c, k)' /\ IsLatest(c)'
    <3>1. current' # 0 /\ waiters'[current'] # <<>>
      BY <2>4 DEF WaitsHere, Range
    <3>2. current' \in 1..MaxLogins
      <4>1. opening' \in Seq([user : Users, state : {"pending", "open", "closed", "failed"}]) /\ Len(opening') <= MaxLogins
            /\ current' \in {0, Len(opening')}
        BY DEF TypeOK
      <4>2. Len(opening') \in Nat /\ MaxLogins \in Nat
        BY <4>1, CacheAssumption
      <4> QED
        BY <3>1, <4>1, <4>2
    <3>3. current' = current
      BY <3>1, <3>2 DEF LessToDo
    <3>4. waiters'[current] = waiters[current] /\ \A c \in Range(waiters[current]) : calls'[c] = calls[c]
      BY <3>1, <3>2, <3>3 DEF LessToDo
    <3>5. \A c \in Range(waiters[current]) : c \in Calls
      BY <3>2, <3>3, LineCalls
    <3>6. WaitsHere(k)
      BY <2>2, <2>4, <3>3, <3>4, <3>5 DEF WaitsHere
    <3>7. PICK c \in Range(waiters[current]) : Unwritten(c, k) /\ IsLatest(c)
      BY <3>6 DEF CopyInv
    <3> QED
      BY <2>2, <3>3, <3>4, <3>5, <3>6, <3>7
  <2>5. ASSUME k \notin missed'
        PROVE  \/ \E c \in Calls : Unwritten(c, k)' /\ IsLatest(c)'
               \/ (\A c \in Calls : ~Unwritten(c, k)') /\ disk'[k] \in {None, last'[k]}
    <3>1. k \notin missed
      BY <2>1, <2>5
    <3>2. CASE \E c \in Calls : Unwritten(c, k) /\ IsLatest(c)
      BY <1>2, <2>2, <2>3, <2>5, <3>2
    <3>3. CASE (\A c \in Calls : ~Unwritten(c, k)) /\ disk[k] \in {None, last[k]}
      BY <1>2, <2>1, <2>2, <2>3, <3>3
    <3> QED
      BY <3>1, <3>2, <3>3 DEF CopyInv
  <2>6. ASSUME k \notin missed' \/ WaitsHere(k)'
        PROVE  memory'[k] \in {None, last'[k]}
    <3>1. memory[k] \in {None, last[k]}
      BY <2>1, <2>4, <2>6 DEF CopyInv
    <3> QED
      BY <2>1, <3>1
  <2> QED
    BY <2>4, <2>5, <2>6
<1>9. ReadInv'
  <2>1. ASSUME NEW c \in Calls, calls'[c].step = "read", calls'[c].key \notin missed', NothingCameBetween(c)'
        PROVE  calls'[c].blob \in {None, last'[calls'[c].key]}
    <3>1. calls'[c] = calls[c]
      BY <1>3, <2>1 DEF Busy, Steps
    <3>2. version' = version /\ last' = last /\ missed \subseteq missed'
      BY DEF LessToDo
    <3> QED
      BY <2>1, <3>1, <3>2 DEF ReadInv, NothingCameBetween
  <2>2. \A c \in Calls : Busy(c)' /\ calls'[c].op = "get" => Meanings(calls'[c].key, last', missed') \subseteq seen'[c]
    BY DEF LessToDo, Busy
  <2> QED
    BY <2>1, <2>2 DEF ReadInv
<1> QED
  BY <1>1, <1>5, <1>6, <1>7, <1>8, <1>9

Connections == [user : Users, state : {"pending", "open", "closed", "failed"}]

\* Openings.
LEMMA OpeningTypes ==
  ASSUME TypeOK
  PROVE  /\ opening \in Seq(Connections) /\ Len(opening) \in Nat /\ Len(opening) <= MaxLogins /\ DOMAIN opening = 1..Len(opening)
         /\ \A n \in DOMAIN opening : opening[n] \in Connections
<1>1. opening \in Seq(Connections) /\ Len(opening) <= MaxLogins
  BY DEF TypeOK, Connections
<1> QED
  BY <1>1

\* What becomes of one.
LEMMA OneOver ==
  ASSUME TypeOK, NEW n \in DOMAIN opening, NEW s \in {"open", "closed", "failed"},
         opening' = [opening EXCEPT ![n].state = s]
  PROVE  /\ opening' \in Seq(Connections) /\ Len(opening') = Len(opening) /\ DOMAIN opening' = DOMAIN opening
         /\ \A m \in DOMAIN opening : /\ opening'[m].user = opening[m].user
                                      /\ opening'[m].state = IF m = n THEN s ELSE opening[m].state
<1> DEFINE x == [opening[n] EXCEPT !.state = s]
<1>1. opening \in Seq(Connections) /\ opening[n] \in Connections
  BY OpeningTypes
<1>2. x \in Connections /\ x.user = opening[n].user /\ x.state = s
  BY <1>1 DEF Connections
<1>3. opening' = [opening EXCEPT ![n] = x]
  OBVIOUS
<1> HIDE DEF x
<1>4. opening' \in Seq(Connections) /\ Len(opening') = Len(opening) /\ DOMAIN opening' = DOMAIN opening
  BY <1>1, <1>2, <1>3
<1>5. \A m \in DOMAIN opening : opening'[m] = IF m = n THEN x ELSE opening[m]
  BY <1>1, <1>3
<1> QED
  BY <1>2, <1>4, <1>5

\* setCacheUser closes an open connection.
LEMMA LeaveLaws ==
  ASSUME TypeOK
  PROVE  /\ LeaveDB \in Seq(Connections) /\ Len(LeaveDB) = Len(opening) /\ DOMAIN LeaveDB = DOMAIN opening
         /\ \A n \in DOMAIN opening : /\ LeaveDB[n].user = opening[n].user
                                      /\ LeaveDB[n].state = "pending" <=> opening[n].state = "pending"
<1>1. /\ opening \in Seq(Connections) /\ Len(opening) \in Nat /\ DOMAIN opening = 1..Len(opening)
      /\ \A n \in DOMAIN opening : opening[n] \in Connections
  BY OpeningTypes
<1>2. \A n \in DOMAIN opening : LET x == [opening[n] EXCEPT !.state = "closed"] IN
        x \in Connections /\ x.user = opening[n].user /\ x.state = "closed"
  BY <1>1 DEF Connections
<1>3. \A n \in DOMAIN opening : LeaveDB[n] \in Connections /\ LeaveDB[n].user = opening[n].user
                                 /\ (LeaveDB[n].state = "pending" <=> opening[n].state = "pending")
  BY <1>1, <1>2 DEF LeaveDB, State
<1>4. LeaveDB \in [1..Len(opening) -> Connections]
  BY <1>1, <1>3 DEF LeaveDB
<1>5. LeaveDB \in Seq(Connections) /\ Len(LeaveDB) = Len(opening)
  BY <1>1, <1>4, SeqDef
<1> QED
  BY <1>1, <1>3, <1>4, <1>5

\* Calls that go on undisturbed have no less to do.
LEMMA Undisturbed ==
  ASSUME IInv, UNCHANGED <<version, calls, waiters, queue, history>>,
         \A k \in Keys : memory'[k] \in {memory[k], None} /\ disk'[k] \in {disk[k], None},
         \A n \in DOMAIN opening : n \in DOMAIN opening' /\ opening'[n].user = opening[n].user
                                   /\ (opening[n].state = "pending" => opening'[n].state = "pending"),
         current' \in 1..MaxLogins => current' = current \/ waiters'[current'] = <<>>
  PROVE  LessToDo
<1>1. \A n \in 1..MaxLogins : Pending(n) => Pending(n)'
  BY DEF Pending, State
<1>2. \A c \in Calls : calls[c].step \in Steps /\ calls[c].op = "get" => Meanings(calls[c].key, last, missed) \subseteq seen[c]
  BY DEF IInv, ReadInv, Busy
<1> QED
  BY <1>1, <1>2 DEF LessToDo, history

\* A user logs in, or out.
LEMMA LogInKeeps ==
  ASSUME IInv, NEW u \in Users, LogIn(u)
  PROVE  IInv'
<1>1. TypeOK /\ LruIsSound /\ LineInv /\ DoorInv
  BY DEF IInv
<1> DEFINE o == [user |-> u, state |-> "pending"]
           L == Len(opening)
<1>2. /\ opening \in Seq(Connections) /\ L \in Nat /\ DOMAIN opening = 1..L /\ L + 1 <= MaxLogins
  BY <1>1, OpeningTypes, CacheAssumption DEF LogIn
<1>3. /\ opening' = Append(LeaveDB, o) /\ current' = L + 1 /\ blocked' = FALSE
      /\ UNCHANGED <<lru, version, store, old, held, trouble, calls, waiters, history>>
  BY DEF LogIn
<1>4. /\ LeaveDB \in Seq(Connections) /\ Len(LeaveDB) = L
      /\ \A n \in 1..L : /\ LeaveDB[n].user = opening[n].user
                         /\ LeaveDB[n].state = "pending" <=> opening[n].state = "pending"
  BY <1>1, <1>2, LeaveLaws
<1>5. o \in Connections /\ o.user = u /\ o.state = "pending"
  BY DEF Connections
<1> HIDE DEF o
<1>6. /\ opening' \in Seq(Connections) /\ Len(opening') = L + 1 /\ DOMAIN opening' = 1..L + 1
      /\ opening'[L + 1] = o /\ \A n \in 1..L : opening'[n] = LeaveDB[n]
  BY <1>2, <1>3, <1>4, <1>5
<1> HIDE DEF L
<1>7. TypeOK'
  <2>1. opening' \in Seq([user : Users, state : {"pending", "open", "closed", "failed"}]) /\ Len(opening') <= MaxLogins
        /\ current' \in {0, Len(opening')} /\ blocked' \in BOOLEAN
    BY <1>2, <1>3, <1>6 DEF Connections
  <2> QED
    BY <1>1, <1>3, <2>1 DEF TypeOK, lru, store, records, history
<1>8. LruIsSound'
  BY <1>1, <1>3 DEF LruIsSound, lru, InMemory
<1>9. DoorInv'
  <2>1. ASSUME NEW n \in DOMAIN opening', NEW m \in DOMAIN opening', n < m, opening'[n].user = opening'[m].user, Pending(n)'
        PROVE  Pending(m)'
    <3>1. CASE m = L + 1
      BY <1>5, <1>6, <3>1 DEF Pending, State
    <3>2. CASE m # L + 1
      <4>1. n \in 1..L /\ m \in 1..L
        BY <1>2, <1>6, <2>1, <3>2
      <4>2. Pending(n) /\ opening[n].user = opening[m].user
        BY <1>2, <1>4, <1>6, <2>1, <4>1 DEF Pending, State
      <4>3. Pending(m)
        BY <1>1, <1>2, <2>1, <4>1, <4>2 DEF DoorInv
      <4> QED
        BY <1>4, <1>6, <4>1, <4>3 DEF Pending, State
    <3> QED
      BY <3>1, <3>2
  <2> QED
    BY <1>3, <2>1 DEF DoorInv
<1>10. waiters'[L + 1] = <<>>
  <2>1. L + 1 \in 1..MaxLogins /\ L + 1 \notin DOMAIN opening
    BY <1>2, CacheAssumption
  <2> QED
    BY <1>1, <1>3, <2>1, NobodyWaits
<1>11. LessToDo
  <2>1. \A n \in DOMAIN opening : n \in DOMAIN opening' /\ opening'[n].user = opening[n].user
                                   /\ (opening[n].state = "pending" => opening'[n].state = "pending")
    BY <1>2, <1>4, <1>6
  <2>2. \A k \in Keys : memory'[k] \in {memory[k], None} /\ disk'[k] \in {disk[k], None}
    BY <1>3 DEF lru, store, records
  <2> QED
    BY <1>3, <1>10, <2>1, <2>2, Undisturbed DEF store
<1> QED
  BY <1>7, <1>8, <1>9, <1>11, LessToDoKeeps

\* A user logs out.
LEMMA LogOutKeeps ==
  ASSUME IInv, LogOut
  PROVE  IInv'
<1>1. TypeOK /\ LruIsSound /\ LineInv /\ DoorInv
  BY DEF IInv
<1>2. /\ opening' = LeaveDB /\ current' = 0 /\ blocked' = FALSE /\ ClearMemory
      /\ UNCHANGED <<version, store, old, held, trouble, calls, waiters, history>>
  BY DEF LogOut
<1>3. /\ LeaveDB \in Seq(Connections) /\ Len(LeaveDB) = Len(opening) /\ DOMAIN LeaveDB = DOMAIN opening
      /\ \A n \in DOMAIN opening : /\ LeaveDB[n].user = opening[n].user
                                   /\ LeaveDB[n].state = "pending" <=> opening[n].state = "pending"
  BY <1>1, LeaveLaws
<1>4. TypeOK'
  <2>1. opening' \in Seq([user : Users, state : {"pending", "open", "closed", "failed"}]) /\ Len(opening') <= MaxLogins
        /\ current' \in {0, Len(opening')} /\ blocked' \in BOOLEAN
    BY <1>1, <1>2, <1>3, OpeningTypes DEF Connections
  <2>2. memory' \in [Keys -> Blobs \union {None}] /\ order' \in Seq(Keys)
    BY <1>2 DEF ClearMemory
  <2> QED
    BY <1>1, <1>2, <2>1, <2>2 DEF TypeOK, store, records, history
<1>5. LruIsSound'
  <2>1. order' = <<>> /\ InMemory(memory)' = {}
    BY <1>2 DEF ClearMemory, InMemory
  <2>2. DOMAIN <<>> = {} /\ Len(<<>>) = 0
    OBVIOUS
  <2> QED
    BY <2>1, <2>2, CacheAssumption DEF LruIsSound, Range
<1>6. DoorInv'
  <2>1. ASSUME NEW n \in DOMAIN opening', NEW m \in DOMAIN opening', n < m, opening'[n].user = opening'[m].user, Pending(n)'
        PROVE  Pending(m)'
    <3>1. n \in DOMAIN opening /\ m \in DOMAIN opening /\ Pending(n) /\ opening[n].user = opening[m].user
      BY <1>2, <1>3, <2>1 DEF Pending, State
    <3>2. Pending(m)
      BY <1>1, <2>1, <3>1 DEF DoorInv
    <3> QED
      BY <1>2, <1>3, <3>2 DEF Pending, State
  <2> QED
    BY <1>2, <2>1 DEF DoorInv
<1>7. LessToDo
  <2>1. \A n \in DOMAIN opening : n \in DOMAIN opening' /\ opening'[n].user = opening[n].user
                                   /\ (opening[n].state = "pending" => opening'[n].state = "pending")
    BY <1>2, <1>3
  <2>2. \A k \in Keys : memory'[k] \in {memory[k], None} /\ disk'[k] \in {disk[k], None}
    BY <1>2 DEF ClearMemory, store, records
  <2>3. current' \notin 1..MaxLogins
    BY <1>2
  <2> QED
    BY <1>2, <2>1, <2>2, <2>3, Undisturbed DEF store
<1> QED
  BY <1>4, <1>5, <1>6, <1>7, LessToDoKeeps

\* An older tab lets go of a database.
LEMMA OldTabKeeps ==
  ASSUME IInv, NEW u \in Users, OldTabCloses(u)
  PROVE  IInv'
<1>1. TypeOK /\ LruIsSound /\ LineInv /\ DoorInv
  BY DEF IInv
<1>2. /\ held' \subseteq held
      /\ UNCHANGED <<lru, version, store, old, opening, current, blocked, trouble, calls, waiters, history>>
  BY DEF OldTabCloses
<1>3. TypeOK'
  BY <1>1, <1>2 DEF TypeOK, lru, store, records, history
<1>4. LruIsSound'
  BY <1>1, <1>2 DEF LruIsSound, lru, InMemory
<1>5. DoorInv'
  BY <1>1, <1>2 DEF DoorInv, Pending, State
<1>6. LessToDo
  <2>1. \A k \in Keys : memory'[k] \in {memory[k], None} /\ disk'[k] \in {disk[k], None}
    BY <1>2 DEF lru, store, records
  <2> QED
    BY <1>2, <2>1, Undisturbed DEF store
<1> QED
  BY <1>3, <1>4, <1>5, <1>6, LessToDoKeeps

\* The connection of the moment closes: nobody waits for it, and nobody's place in line changes.
LEMMA CloseLaws ==
  ASSUME TypeOK, DoorInv, LineInv, DbReady, opening' = [opening EXCEPT ![current].state = "closed"], UNCHANGED current
  PROVE  /\ opening' \in Seq(Connections) /\ Len(opening') = Len(opening) /\ DOMAIN opening' = DOMAIN opening
         /\ \A n \in DOMAIN opening : /\ opening'[n].user = opening[n].user
                                      /\ opening'[n].state = "pending" <=> opening[n].state = "pending"
         /\ \A n \in DOMAIN opening : Pending(n)' <=> Pending(n)
         /\ current \in DOMAIN opening /\ current \in 1..MaxLogins /\ waiters[current] = <<>>
         /\ \A n, m \in DOMAIN opening' : n < m /\ opening'[n].user = opening'[m].user /\ Pending(n)' => Pending(m)'
<1>1. current \in DOMAIN opening /\ opening[current].state = "open" /\ DOMAIN opening \subseteq 1..MaxLogins
  BY DoorTypes DEF DbReady, State
<1>2. /\ opening' \in Seq(Connections) /\ Len(opening') = Len(opening) /\ DOMAIN opening' = DOMAIN opening
      /\ \A n \in DOMAIN opening : /\ opening'[n].user = opening[n].user
                                   /\ opening'[n].state = IF n = current THEN "closed" ELSE opening[n].state
  BY <1>1, OneOver
<1>3. \A n \in DOMAIN opening : (opening'[n].state = "pending" <=> opening[n].state = "pending")
  BY <1>1, <1>2
<1>4. \A n \in DOMAIN opening : Pending(n)' <=> Pending(n)
  BY <1>2, <1>3 DEF Pending, State
<1>5. waiters[current] = <<>>
  BY <1>1, NobodyWaits DEF Pending, State
<1>6. \A n, m \in DOMAIN opening' : n < m /\ opening'[n].user = opening'[m].user /\ Pending(n)' => Pending(m)'
  BY <1>2, <1>4 DEF DoorInv
<1> QED
  BY <1>1, <1>2, <1>3, <1>4, <1>5, <1>6

\* A newer tab makes this one step aside.
LEMMA StepAsideKeeps ==
  ASSUME IInv, StepAside
  PROVE  IInv'
<1>1. TypeOK /\ LruIsSound /\ LineInv /\ DoorInv
  BY DEF IInv
<1>2. /\ DbReady /\ opening' = [opening EXCEPT ![current].state = "closed"]
      /\ UNCHANGED <<lru, version, store, old, held, current, blocked, calls, waiters, history>>
  BY DEF StepAside
<1>3. /\ opening' \in Seq(Connections) /\ Len(opening') = Len(opening) /\ DOMAIN opening' = DOMAIN opening
      /\ \A n \in DOMAIN opening : /\ opening'[n].user = opening[n].user
                                   /\ opening'[n].state = "pending" <=> opening[n].state = "pending"
      /\ waiters[current] = <<>>
      /\ \A n, m \in DOMAIN opening' : n < m /\ opening'[n].user = opening'[m].user /\ Pending(n)' => Pending(m)'
  BY <1>1, <1>2, CloseLaws
<1>4. TypeOK'
  BY <1>1, <1>2, <1>3 DEF TypeOK, lru, store, records, history, Connections
<1>5. LruIsSound'
  BY <1>1, <1>2 DEF LruIsSound, lru, InMemory
<1>6. DoorInv'
  BY <1>2, <1>3 DEF DoorInv
<1>7. LessToDo
  <2>1. \A k \in Keys : memory'[k] \in {memory[k], None} /\ disk'[k] \in {disk[k], None}
    BY <1>2 DEF lru, store, records
  <2> QED
    BY <1>2, <1>3, <2>1, Undisturbed DEF store
<1> QED
  BY <1>4, <1>5, <1>6, <1>7, LessToDoKeeps

\* Calls of a line are not in another.
LEMMA LinesApart ==
  ASSUME TypeOK, LineInv, OrderInv
  PROVE  /\ \A u \in Users, n \in 1..MaxLogins : Range(queue[u]) \cap Range(waiters[n]) = {}
         /\ \A u, v \in Users : u # v => Range(queue[u]) \cap Range(queue[v]) = {}
         /\ \A n, m \in 1..MaxLogins : n # m => Range(waiters[n]) \cap Range(waiters[m]) = {}
         /\ \A u \in Users : Range(queue[u]) \subseteq {c \in Calls : Busy(c) /\ calls[c].step \in {"waiting", "queued"}}
         /\ \A n \in 1..MaxLogins : Range(waiters[n]) \subseteq {c \in Calls : Busy(c) /\ calls[c].step \in {"waiting", "queued"}}
<1>1. \A u \in Users, n \in 1..MaxLogins : \A c \in Range(queue[u]) : c \notin Range(waiters[n])
  <2> TAKE u \in Users, n \in 1..MaxLogins
  <2> TAKE c \in Range(queue[u])
  <2>1. calls[c].step = "queued"
    BY LineCalls
  <2>2. c \in Range(waiters[n]) => calls[c].step = "waiting"
    BY LineCalls
  <2> QED
    BY <2>1, <2>2
<1>2. \A u \in Users : Range(queue[u]) \subseteq {c \in Calls : Busy(c) /\ calls[c].step \in {"waiting", "queued"}}
  BY LineCalls
<1>3. \A n \in 1..MaxLogins : Range(waiters[n]) \subseteq {c \in Calls : Busy(c) /\ calls[c].step \in {"waiting", "queued"}}
  BY LineCalls
<1> QED
  BY <1>1, <1>2, <1>3 DEF OrderInv

\* Lines whose calls fail leave less to do.
LEMMA FailedLines ==
  ASSUME IInv, NEW cs \in SUBSET {c \in Calls : Busy(c) /\ calls[c].step \in {"waiting", "queued"}}, GiveUp(cs),
         UNCHANGED <<lru, version, current>>,
         \A k \in Keys : disk'[k] \in {disk[k], None},
         \A u \in Users : \/ queue'[u] = queue[u] /\ Range(queue[u]) \cap cs = {}
                          \/ queue'[u] = <<>> /\ Range(queue[u]) \subseteq cs,
         \A n \in 1..MaxLogins : \/ waiters'[n] = waiters[n] /\ Range(waiters[n]) \cap cs = {} /\ (Pending(n) => Pending(n)')
                                 \/ waiters'[n] = <<>> /\ Range(waiters[n]) \subseteq cs,
         \A n \in DOMAIN opening : n \in DOMAIN opening' /\ opening'[n].user = opening[n].user
  PROVE  LessToDo
<1>1. TypeOK /\ LineInv /\ OrderInv
  BY DEF IInv
<1>2. cs \in SUBSET {c \in Calls : Busy(c)}
  OBVIOUS
<1>3. /\ last' = last /\ missed \subseteq missed'
      /\ \A c \in cs : calls'[c].step = "done" /\ calls'[c].true /\ (Writes(calls[c]) => calls[c].key \in missed')
      /\ \A c \in Calls \ cs : calls'[c] = calls[c]
      /\ \A c \in Calls : calls'[c].step \in Steps /\ calls'[c].op = "get" =>
           Meanings(calls'[c].key, last', missed') \subseteq seen'[c]
  BY <1>1, <1>2, GiveUpLaws
<1>4. \A c \in cs : Fails(c)
  BY <1>3 DEF Fails
<1>5. \A c \in Calls : calls'[c] = calls[c] \/ Fails(c)
  BY <1>3, <1>4
<1>6. \A u \in Users : \/ queue'[u] = queue[u] /\ \A c \in Range(queue[u]) : calls'[c] = calls[c]
                       \/ queue'[u] = <<>> /\ \A c \in Range(queue[u]) : Fails(c)
  <2> TAKE u \in Users
  <2>1. Range(queue[u]) \subseteq Calls
    BY <1>1, LinesApart
  <2>2. CASE queue'[u] = queue[u] /\ Range(queue[u]) \cap cs = {}
    BY <1>3, <2>1, <2>2
  <2>3. CASE queue'[u] = <<>> /\ Range(queue[u]) \subseteq cs
    BY <1>4, <2>3
  <2> QED
    BY <2>2, <2>3
<1>7. \A n \in 1..MaxLogins :
        \/ waiters'[n] = waiters[n] /\ (\A c \in Range(waiters[n]) : calls'[c] = calls[c]) /\ (Pending(n) => Pending(n)')
        \/ waiters'[n] = <<>> /\ \A c \in Range(waiters[n]) : Fails(c)
  <2> TAKE n \in 1..MaxLogins
  <2>1. Range(waiters[n]) \subseteq Calls
    BY <1>1, LinesApart
  <2>2. CASE waiters'[n] = waiters[n] /\ Range(waiters[n]) \cap cs = {} /\ (Pending(n) => Pending(n)')
    BY <1>3, <2>1, <2>2
  <2>3. CASE waiters'[n] = <<>> /\ Range(waiters[n]) \subseteq cs
    BY <1>4, <2>3
  <2> QED
    BY <2>2, <2>3
<1>8. \A k \in Keys : memory'[k] \in {memory[k], None} /\ disk'[k] \in {disk[k], None}
  BY DEF lru
<1>9. current' \in 1..MaxLogins => current' = current \/ waiters'[current'] = <<>>
  OBVIOUS
<1> QED
  BY <1>3, <1>5, <1>6, <1>7, <1>8, <1>9 DEF LessToDo

\* Those who wait for an opening hear that it is over.
LEMMA AnsweredLaws ==
  ASSUME TypeOK, LineInv, OrderInv, NEW n \in 1..MaxLogins, Answered(n)
  PROVE  /\ waiters' \in [1..MaxLogins -> Seq(Calls)] /\ waiters'[n] = <<>>
         /\ \A m \in 1..MaxLogins : m # n => waiters'[m] = waiters[m] /\ Range(waiters[m]) \cap Range(waiters[n]) = {}
<1>1. waiters' = [waiters EXCEPT ![n] = <<>>] /\ waiters \in [1..MaxLogins -> Seq(Calls)]
  BY DEF Answered, TypeOK
<1>2. <<>> \in Seq(Calls)
  OBVIOUS
<1> QED
  BY <1>1, <1>2, LinesApart

\* An opening that is over does not change who comes after whom.
LEMMA OpeningOver ==
  ASSUME TypeOK, DoorInv, NEW n \in 1..MaxLogins, FirstPending(n), NEW s \in {"open", "closed", "failed"},
         opening' = [opening EXCEPT ![n].state = s]
  PROVE  /\ n \in DOMAIN opening
         /\ opening' \in Seq(Connections) /\ Len(opening') = Len(opening) /\ DOMAIN opening' = DOMAIN opening
         /\ \A m \in DOMAIN opening : opening'[m].user = opening[m].user
         /\ \A m \in DOMAIN opening : m # n => (Pending(m)' <=> Pending(m))
         /\ \A m, l \in DOMAIN opening' : m < l /\ opening'[m].user = opening'[l].user /\ Pending(m)' => Pending(l)'
<1>1. n \in DOMAIN opening /\ DOMAIN opening \subseteq Nat
  BY OpeningTypes DEF FirstPending, Pending
<1>2. /\ opening' \in Seq(Connections) /\ Len(opening') = Len(opening) /\ DOMAIN opening' = DOMAIN opening
      /\ \A m \in DOMAIN opening : /\ opening'[m].user = opening[m].user
                                   /\ opening'[m].state = IF m = n THEN s ELSE opening[m].state
  BY <1>1, OneOver
<1>3. \A m \in DOMAIN opening : m # n => (Pending(m)' <=> Pending(m))
  BY <1>2 DEF Pending, State
<1>4. ~Pending(n)'
  BY <1>1, <1>2 DEF Pending, State
<1>5. ASSUME NEW m \in DOMAIN opening, NEW l \in DOMAIN opening, m < l, opening[m].user = opening[l].user, Pending(m)'
      PROVE  Pending(l)'
  <2>1. m # n /\ Pending(m)
    BY <1>3, <1>4, <1>5
  <2>2. l # n
    <3>1. l = n => m \in 1..n - 1
      BY <1>1, <1>5, OpeningTypes
    <3> QED
      BY <1>5, <2>1, <3>1 DEF FirstPending
  <2>3. Pending(l)
    BY <1>5, <2>1 DEF DoorInv
  <2> QED
    BY <1>3, <2>2, <2>3
<1> QED
  BY <1>1, <1>2, <1>3, <1>5

\* An opening fails.
LEMMA OpenFailsKeeps ==
  ASSUME IInv, NEW n \in 1..MaxLogins, OpenFails(n)
  PROVE  IInv'
<1>1. TypeOK /\ LruIsSound /\ LineInv /\ DoorInv /\ OrderInv
  BY DEF IInv
<1> DEFINE cs == Range(waiters[n])
<1>2. /\ FirstPending(n) /\ opening' = [opening EXCEPT ![n].state = "failed"] /\ GiveUp(cs) /\ Answered(n)
      /\ UNCHANGED <<lru, version, store, old, held, current, blocked>>
  BY DEF OpenFails
<1>3. /\ n \in DOMAIN opening
      /\ opening' \in Seq(Connections) /\ Len(opening') = Len(opening) /\ DOMAIN opening' = DOMAIN opening
      /\ \A m \in DOMAIN opening : opening'[m].user = opening[m].user
      /\ \A m \in DOMAIN opening : m # n => (Pending(m)' <=> Pending(m))
      /\ \A m, l \in DOMAIN opening' : m < l /\ opening'[m].user = opening'[l].user /\ Pending(m)' => Pending(l)'
  BY <1>1, <1>2, OpeningOver
<1>4. cs \in SUBSET {c \in Calls : Busy(c) /\ calls[c].step \in {"waiting", "queued"}}
  BY <1>1, LinesApart
<1>5. cs \in SUBSET {c \in Calls : Busy(c)}
  BY <1>4
<1>6. /\ waiters' \in [1..MaxLogins -> Seq(Calls)] /\ waiters'[n] = <<>>
      /\ \A m \in 1..MaxLogins : m # n => waiters'[m] = waiters[m] /\ Range(waiters[m]) \cap Range(waiters[n]) = {}
  BY <1>1, <1>2, AnsweredLaws
<1>7. /\ calls' \in [Calls -> CallStates] /\ missed' \subseteq Keys /\ seen' \in [Calls -> SUBSET (Blobs \union {None})]
      /\ last' = last
  BY <1>1, <1>2, <1>5, GiveUpLaws
<1>8. TypeOK'
  BY <1>1, <1>2, <1>3, <1>6, <1>7 DEF TypeOK, lru, store, records, Connections
<1>9. LruIsSound'
  BY <1>1, <1>2 DEF LruIsSound, lru, InMemory
<1>10. DoorInv'
  <2>1. blocked' /\ current' # 0 => waiters'[current'] = <<>>
    <3>1. current # 0 => current \in 1..MaxLogins
      BY <1>1, DoorTypes
    <3> QED
      BY <1>1, <1>2, <1>6, <3>1 DEF DoorInv
  <2> QED
    BY <1>3, <2>1 DEF DoorInv
<1>11. LessToDo
  <2>1. \A u \in Users : queue'[u] = queue[u] /\ Range(queue[u]) \cap cs = {}
    BY <1>1, <1>2, LinesApart DEF store
  <2>2. \A m \in 1..MaxLogins : \/ waiters'[m] = waiters[m] /\ Range(waiters[m]) \cap cs = {} /\ (Pending(m) => Pending(m)')
                                \/ waiters'[m] = <<>> /\ Range(waiters[m]) \subseteq cs
    BY <1>3, <1>6 DEF Pending
  <2>3. \A k \in Keys : disk'[k] \in {disk[k], None}
    BY <1>2 DEF store, records
  <2>4. UNCHANGED <<lru, version, current>> /\ \A m \in DOMAIN opening : m \in DOMAIN opening' /\ opening'[m].user = opening[m].user
    BY <1>2, <1>3
  <2>5. GiveUp(cs)
    BY <1>2
  <2> HIDE DEF cs
  <2> QED
    BY <1>4, <2>1, <2>2, <2>3, <2>4, <2>5, FailedLines
<1> QED
  BY <1>8, <1>9, <1>10, <1>11, LessToDoKeeps

\* An upgrade turns out blocked.
LEMMA MarkBlockedKeeps ==
  ASSUME IInv, MarkBlocked
  PROVE  IInv'
<1>1. TypeOK /\ LruIsSound /\ LineInv /\ DoorInv /\ OrderInv
  BY DEF IInv
<1> DEFINE cs == UNION {Range(waiters[n]) : n \in Heard}
<1>2. /\ blocked' = TRUE /\ GiveUp(cs)
      /\ waiters' = [n \in 1..MaxLogins |-> IF n \in Heard THEN <<>> ELSE waiters[n]]
      /\ UNCHANGED <<lru, version, store, old, held, opening, current, trouble>>
  BY DEF MarkBlocked
<1>3. Heard \subseteq 1..MaxLogins /\ (current # 0 => current \in Heard)
  BY <1>1, DoorTypes DEF Heard
<1>4. cs \in SUBSET {c \in Calls : Busy(c) /\ calls[c].step \in {"waiting", "queued"}}
  BY <1>1, <1>3, LinesApart
<1>5. cs \in SUBSET {c \in Calls : Busy(c)}
  BY <1>4
<1>6. /\ waiters' \in [1..MaxLogins -> Seq(Calls)]
      /\ \A n \in 1..MaxLogins : waiters'[n] = IF n \in Heard THEN <<>> ELSE waiters[n]
  <2>1. <<>> \in Seq(Calls)
    OBVIOUS
  <2> QED
    BY <1>1, <1>2, <2>1 DEF TypeOK
<1>7. /\ calls' \in [Calls -> CallStates] /\ missed' \subseteq Keys /\ seen' \in [Calls -> SUBSET (Blobs \union {None})]
      /\ last' = last
  <2>1. GiveUp(cs)
    BY <1>2
  <2> HIDE DEF cs
  <2> QED
    BY <1>1, <1>5, <2>1, GiveUpLaws
<1>8. TypeOK'
  BY <1>1, <1>2, <1>6, <1>7 DEF TypeOK, lru, store, records
<1>9. LruIsSound'
  BY <1>1, <1>2 DEF LruIsSound, lru, InMemory
<1>10. DoorInv'
  <2>1. blocked' /\ current' # 0 => waiters'[current'] = <<>>
    BY <1>2, <1>3, <1>6
  <2>2. \A m, l \in DOMAIN opening' : m < l /\ opening'[m].user = opening'[l].user /\ Pending(m)' => Pending(l)'
    BY <1>1, <1>2 DEF DoorInv, Pending, State
  <2> QED
    BY <2>1, <2>2 DEF DoorInv
<1>11. LessToDo
  <2>1. \A u \in Users : queue'[u] = queue[u] /\ Range(queue[u]) \cap cs = {}
    BY <1>1, <1>2, <1>3, LinesApart DEF store
  <2>2. \A m \in 1..MaxLogins : \/ waiters'[m] = waiters[m] /\ Range(waiters[m]) \cap cs = {} /\ (Pending(m) => Pending(m)')
                                \/ waiters'[m] = <<>> /\ Range(waiters[m]) \subseteq cs
    <3> TAKE m \in 1..MaxLogins
    <3>1. CASE m \in Heard
      BY <1>6, <3>1
    <3>2. CASE m \notin Heard
      <4>1. Range(waiters[m]) \cap cs = {}
        BY <1>1, <1>3, <3>2, LinesApart
      <4> QED
        BY <1>2, <1>6, <3>2, <4>1 DEF Pending, State
    <3> QED
      BY <3>1, <3>2
  <2>3. \A k \in Keys : disk'[k] \in {disk[k], None}
    BY <1>2 DEF store, records
  <2>4. UNCHANGED <<lru, version, current>> /\ \A m \in DOMAIN opening : m \in DOMAIN opening' /\ opening'[m].user = opening[m].user
    BY <1>2
  <2>5. GiveUp(cs)
    BY <1>2
  <2> HIDE DEF cs
  <2> QED
    BY <1>4, <2>1, <2>2, <2>3, <2>4, <2>5, FailedLines
<1> QED
  BY <1>8, <1>9, <1>10, <1>11, LessToDoKeeps

\* The browser closes the connection.
LEMMA TerminatedKeeps ==
  ASSUME IInv, Terminated
  PROVE  IInv'
<1>1. TypeOK /\ LruIsSound /\ LineInv /\ DoorInv /\ OrderInv
  BY DEF IInv
<1> DEFINE cs == Range(queue[User])
<1>2. /\ DbReady /\ opening' = [opening EXCEPT ![current].state = "closed"]
      /\ queue' = [queue EXCEPT ![User] = <<>>] /\ GiveUp(cs)
      /\ UNCHANGED <<lru, version, records, old, held, current, blocked, waiters>>
  BY DEF Terminated
<1>3. /\ opening' \in Seq(Connections) /\ Len(opening') = Len(opening) /\ DOMAIN opening' = DOMAIN opening
      /\ \A n \in DOMAIN opening : opening'[n].user = opening[n].user
      /\ \A n \in DOMAIN opening : Pending(n)' <=> Pending(n)
      /\ \A n, m \in DOMAIN opening' : n < m /\ opening'[n].user = opening'[m].user /\ Pending(n)' => Pending(m)'
  BY <1>1, <1>2, CloseLaws
<1>4. User \in Users
  BY <1>1, <1>2, DoorTypes
<1>5. cs \in SUBSET {c \in Calls : Busy(c) /\ calls[c].step \in {"waiting", "queued"}}
  BY <1>1, <1>4, LinesApart
<1>6. cs \in SUBSET {c \in Calls : Busy(c)}
  BY <1>5
<1>7. /\ queue' \in [Users -> Seq(Calls)]
      /\ \A u \in Users : queue'[u] = IF u = User THEN <<>> ELSE queue[u]
  <2>1. <<>> \in Seq(Calls)
    OBVIOUS
  <2> QED
    BY <1>1, <1>2, <2>1 DEF TypeOK
<1>8. /\ calls' \in [Calls -> CallStates] /\ missed' \subseteq Keys /\ seen' \in [Calls -> SUBSET (Blobs \union {None})]
      /\ last' = last
  BY <1>1, <1>2, <1>6, GiveUpLaws
<1>9. TypeOK'
  BY <1>1, <1>2, <1>3, <1>7, <1>8 DEF TypeOK, lru, records, Connections
<1>10. LruIsSound'
  BY <1>1, <1>2 DEF LruIsSound, lru, InMemory
<1>11. DoorInv'
  BY <1>1, <1>2, <1>3 DEF DoorInv
<1>12. LessToDo
  <2>1. \A u \in Users : \/ queue'[u] = queue[u] /\ Range(queue[u]) \cap cs = {}
                         \/ queue'[u] = <<>> /\ Range(queue[u]) \subseteq cs
    BY <1>1, <1>4, <1>7, LinesApart
  <2>2. \A m \in 1..MaxLogins : waiters'[m] = waiters[m] /\ Range(waiters[m]) \cap cs = {} /\ (Pending(m) => Pending(m)')
    BY <1>1, <1>2, <1>3, <1>4, LinesApart DEF Pending
  <2>3. \A k \in Keys : disk'[k] \in {disk[k], None}
    BY <1>2 DEF records
  <2>4. UNCHANGED <<lru, version, current>> /\ \A m \in DOMAIN opening : m \in DOMAIN opening' /\ opening'[m].user = opening[m].user
    BY <1>2, <1>3
  <2>5. GiveUp(cs)
    BY <1>2
  <2> HIDE DEF cs
  <2> QED
    BY <1>5, <2>1, <2>2, <2>3, <2>4, <2>5, FailedLines
<1> QED
  BY <1>9, <1>10, <1>11, <1>12, LessToDoKeeps

\* A database opens whose user has left: those who wait find it closed.
LEMMA OpensTooLateKeeps ==
  ASSUME IInv, NEW n \in 1..MaxLogins, n # current, Opens(n)
  PROVE  IInv'
<1>1. TypeOK /\ LruIsSound /\ LineInv /\ DoorInv /\ OrderInv
  BY DEF IInv
<1> DEFINE cs == Range(waiters[n])
           u == opening[n].user
<1>2. /\ FirstPending(n) /\ opening' = [opening EXCEPT ![n].state = "closed"] /\ GiveUp(cs) /\ Answered(n)
      /\ old' = old \ {u} /\ u \notin held
      /\ UNCHANGED <<lru, version, held, current, blocked, queue>>
      /\ \/ UNCHANGED records
         \/ /\ disk' = [k \in Keys |-> IF Owner[k] = u THEN None ELSE disk[k]]
            /\ accessed' = [accessed EXCEPT ![u] = <<>>]
  BY DEF Opens
<1>3. /\ n \in DOMAIN opening
      /\ opening' \in Seq(Connections) /\ Len(opening') = Len(opening) /\ DOMAIN opening' = DOMAIN opening
      /\ \A m \in DOMAIN opening : opening'[m].user = opening[m].user
      /\ \A m \in DOMAIN opening : m # n => (Pending(m)' <=> Pending(m))
      /\ \A m, l \in DOMAIN opening' : m < l /\ opening'[m].user = opening'[l].user /\ Pending(m)' => Pending(l)'
  BY <1>1, <1>2, OpeningOver
<1>4. cs \in SUBSET {c \in Calls : Busy(c) /\ calls[c].step \in {"waiting", "queued"}}
  BY <1>1, LinesApart
<1>5. cs \in SUBSET {c \in Calls : Busy(c)}
  BY <1>4
<1>6. /\ waiters' \in [1..MaxLogins -> Seq(Calls)] /\ waiters'[n] = <<>>
      /\ \A m \in 1..MaxLogins : m # n => waiters'[m] = waiters[m] /\ Range(waiters[m]) \cap Range(waiters[n]) = {}
  BY <1>1, <1>2, AnsweredLaws
<1>7. /\ calls' \in [Calls -> CallStates] /\ missed' \subseteq Keys /\ seen' \in [Calls -> SUBSET (Blobs \union {None})]
      /\ last' = last
  BY <1>1, <1>2, <1>5, GiveUpLaws
<1>8. /\ disk' \in [Keys -> Blobs \union {None}] /\ accessed' \in [Users -> Seq(Keys)]
      /\ \A k \in Keys : disk'[k] \in {disk[k], None}
  <2>1. disk \in [Keys -> Blobs \union {None}] /\ accessed \in [Users -> Seq(Keys)] /\ <<>> \in Seq(Keys)
    BY <1>1 DEF TypeOK
  <2>2. CASE UNCHANGED records
    BY <2>1, <2>2 DEF records
  <2>3. CASE /\ disk' = [k \in Keys |-> IF Owner[k] = u THEN None ELSE disk[k]]
             /\ accessed' = [accessed EXCEPT ![u] = <<>>]
    BY <2>1, <2>3
  <2> QED
    BY <1>2, <2>2, <2>3
<1>9. TypeOK'
  <2>1. old' \subseteq Users /\ held' \subseteq old'
    BY <1>1, <1>2 DEF TypeOK
  <2> QED
    BY <1>1, <1>2, <1>3, <1>6, <1>7, <1>8, <2>1 DEF TypeOK, lru, Connections
<1>10. LruIsSound'
  BY <1>1, <1>2 DEF LruIsSound, lru, InMemory
<1>11. DoorInv'
  <2>1. blocked' /\ current' # 0 => waiters'[current'] = <<>>
    <3>1. current # 0 => current \in 1..MaxLogins
      BY <1>1, DoorTypes
    <3> QED
      BY <1>1, <1>2, <1>6, <3>1 DEF DoorInv
  <2> QED
    BY <1>3, <2>1 DEF DoorInv
<1>12. LessToDo
  <2>1. \A v \in Users : queue'[v] = queue[v] /\ Range(queue[v]) \cap cs = {}
    BY <1>1, <1>2, LinesApart
  <2>2. \A m \in 1..MaxLogins : \/ waiters'[m] = waiters[m] /\ Range(waiters[m]) \cap cs = {} /\ (Pending(m) => Pending(m)')
                                \/ waiters'[m] = <<>> /\ Range(waiters[m]) \subseteq cs
    BY <1>3, <1>6 DEF Pending
  <2>3. UNCHANGED <<lru, version, current>> /\ \A m \in DOMAIN opening : m \in DOMAIN opening' /\ opening'[m].user = opening[m].user
    BY <1>2, <1>3
  <2>4. GiveUp(cs)
    BY <1>2
  <2> HIDE DEF cs
  <2> QED
    BY <1>4, <1>8, <2>1, <2>2, <2>3, <2>4, FailedLines
<1> QED
  BY <1>9, <1>10, <1>11, <1>12, LessToDoKeeps

(***************************************************************************)
(* Who comes first                                                         *)
(***************************************************************************)
\* A write that is still to be made is a call of a page, in a line.
LEMMA UnwrittenIs ==
  ASSUME NEW e \in Calls, NEW k, Unwritten(e, k)
  PROVE  OfPage(e) /\ Busy(e) /\ Writes(calls[e]) /\ calls[e].key = k /\ calls[e].step \in {"waiting", "queued"}
  BY DEF Unwritten, OfPage, Busy, Writes, Steps

\* A read that has been made came before every write that waits for the user's database.
LEMMA ReadIsOld ==
  ASSUME IInv, NEW c \in Calls, calls[c].step = "read", WaitsHere(calls[c].key)
  PROVE  ~NothingCameBetween(c)
<1>1. TypeOK /\ LineInv /\ OrderInv /\ VersionInv /\ CopyInv
  BY DEF IInv
<1> DEFINE k == calls[c].key
<1>2. calls[c].op = "get" /\ OfPage(c)
  BY <1>1 DEF LineInv, OfPage, Busy, Steps
<1>3. calls[c] \in CallsUnderWay
  BY <1>1, <1>2, AnswerIs DEF OfPage
<1>4. k \in Keys /\ calls[c].version \in Nat
  BY <1>3 DEF CallsUnderWay
<1>5. PICK e \in Range(waiters[current]) : Unwritten(e, k) /\ IsLatest(e)
  BY <1>1, <1>4 DEF CopyInv
<1>6. current \in 1..MaxLogins
  BY <1>1, DoorTypes DEF WaitsHere
<1>7. e \in Calls /\ (OfPage(e) => Owner[calls[e].key] = opening[current].user)
  BY <1>1, <1>6, LineCalls
<1>8. OfPage(e) /\ Busy(e) /\ calls[e].key = k
  BY <1>5, <1>7, UnwrittenIs
<1>9. c < e
  BY <1>1, <1>2, <1>6, <1>7, <1>8 DEF OrderInv
<1>10. calls[c].version <= calls[e].version
  BY <1>1, <1>2, <1>7, <1>8, <1>9 DEF VersionInv
<1>11. calls[e].version \in Nat
  <2>1. calls[e] \in CallsUnderWay
    BY <1>1, <1>7, <1>8, AnswerIs
  <2> QED
    BY <2>1 DEF CallsUnderWay
<1>12. version[k] = calls[e].version + 1
  BY <1>5, <1>8 DEF IsLatest
<1> QED
  BY <1>4, <1>10, <1>11, <1>12 DEF NothingCameBetween

\* The transaction that runs comes before every write of its page.
LEMMA HeadIsFirst ==
  ASSUME TypeOK, LineInv, OrderInv, NEW u \in Users, queue[u] # <<>>, OfPage(queue[u][1]),
         NEW e \in Calls, e # queue[u][1], Unwritten(e, calls[queue[u][1]].key)
  PROVE  queue[u][1] < e
<1> DEFINE c == queue[u][1]
<1>1. queue[u] \in Seq(Calls)
  BY DEF TypeOK
<1>2. 1 \in DOMAIN queue[u] /\ c \in Calls /\ c \in Range(queue[u])
  BY <1>1 DEF Range
<1>3. calls[c].step = "queued" /\ Owner[calls[c].key] = u
  BY <1>2 DEF LineInv
<1>4. OfPage(e) /\ calls[e].key = calls[c].key /\ calls[e].step \in {"waiting", "queued"}
  BY UnwrittenIs
<1>5. CASE calls[e].step = "queued"
  <2>1. PICK v \in Users : e \in Range(queue[v])
    BY <1>5 DEF LineInv
  <2>2. v = u
    BY <1>3, <1>4, <2>1, LineCalls
  <2>3. PICK i \in DOMAIN queue[u] : e = queue[u][i]
    BY <2>1, <2>2 DEF Range
  <2>4. 1 < i
    BY <1>1, <2>3
  <2>5. InOrder(queue[u])
    BY DEF OrderInv
  <2> QED
    BY <1>2, <1>4, <2>3, <2>4, <2>5 DEF InOrder
<1>6. CASE calls[e].step = "waiting"
  <2>1. PICK n \in 1..MaxLogins : e \in Range(waiters[n])
    BY <1>6 DEF LineInv
  <2>2. Owner[calls[e].key] = opening[n].user
    BY <1>4, <2>1, LineCalls
  <2> QED
    BY <1>2, <1>3, <1>4, <2>1, <2>2 DEF OrderInv
<1> QED
  BY <1>4, <1>5, <1>6

(***************************************************************************)
(* Lines that grow                                                         *)
(***************************************************************************)
\* Those of a line that are in P come in their order.
Ordered(s, P) == \A i, j \in DOMAIN s : i < j /\ s[i] \in P /\ s[j] \in P => s[i] < s[j]

\* In terms of the calls of pages.
LEMMA OrderedIs ==
  ASSUME NEW s \in Seq(Calls)
  PROVE  InOrder(s) <=> Ordered(s, Pages)
  BY DEF InOrder, Ordered, Pages

\* One line after another.
LEMMA ConcatLaws ==
  ASSUME NEW s \in Seq(Calls), NEW t \in Seq(Calls)
  PROVE  /\ s \o t \in Seq(Calls) /\ Range(s \o t) = Range(s) \union Range(t)
         /\ Once(s) /\ Once(t) /\ Range(s) \cap Range(t) = {} => Once(s \o t)
         /\ \A P : Ordered(s, P) /\ Ordered(t, P) /\ (\A x \in Range(s) \cap P, y \in Range(t) \cap P : x < y) => Ordered(s \o t, P)
<1> DEFINE a == Len(s)
           b == Len(t)
           q == s \o t
<1>1. /\ q \in Seq(Calls) /\ Len(q) = a + b /\ a \in Nat /\ b \in Nat
      /\ DOMAIN s = 1..a /\ DOMAIN t = 1..b /\ DOMAIN q = 1..a + b
  OBVIOUS
<1>2. \A i \in 1..a : i \in 1..a + b /\ q[i] = s[i]
  BY <1>1
<1>3. \A i \in 1..a + b : i \notin 1..a => i - a \in 1..b /\ q[i] = t[i - a]
  BY <1>1
<1>4. \A i \in 1..b : a + i \in 1..a + b /\ q[a + i] = t[i]
  <2> TAKE i \in 1..b
  <2>1. a + i \in 1..a + b /\ a + i \notin 1..a /\ (a + i) - a = i
    BY <1>1
  <2> QED
    BY <1>3, <2>1
<1> HIDE DEF a, b, q
<1>5. \A i \in 1..a + b : /\ i \in 1..a => q[i] \in Range(s)
                          /\ i \notin 1..a => q[i] \in Range(t)
  BY <1>1, <1>2, <1>3 DEF Range
<1>6. Range(q) = Range(s) \union Range(t)
  <2>1. \A i \in DOMAIN q : q[i] \in Range(s) \union Range(t)
    BY <1>1, <1>5
  <2>2. \A i \in DOMAIN s : s[i] \in Range(q)
    BY <1>1, <1>2 DEF Range
  <2>3. \A i \in DOMAIN t : t[i] \in Range(q)
    BY <1>1, <1>4 DEF Range
  <2> QED
    BY <2>1, <2>2, <2>3 DEF Range
<1>7. ASSUME Once(s), Once(t), Range(s) \cap Range(t) = {}, NEW i \in DOMAIN q, NEW j \in DOMAIN q, q[i] = q[j]
      PROVE  i = j
  <2>1. CASE i \in 1..a
    <3>1. j \in 1..a
      BY <1>1, <1>5, <1>7, <2>1
    <3> QED
      BY <1>1, <1>2, <1>7, <2>1, <3>1 DEF Once
  <2>2. CASE i \notin 1..a
    <3>1. j \notin 1..a
      BY <1>1, <1>5, <1>7, <2>2
    <3>2. i - a = j - a
      BY <1>1, <1>3, <1>7, <2>2, <3>1 DEF Once
    <3> QED
      BY <1>1, <3>2
  <2> QED
    BY <2>1, <2>2
<1>8. ASSUME NEW P, Ordered(s, P), Ordered(t, P), \A x \in Range(s) \cap P, y \in Range(t) \cap P : x < y,
             NEW i \in DOMAIN q, NEW j \in DOMAIN q, i < j, q[i] \in P, q[j] \in P
      PROVE  q[i] < q[j]
  <2>1. CASE j \in 1..a
    <3>1. i \in 1..a
      BY <1>1, <1>8, <2>1
    <3> QED
      BY <1>1, <1>2, <1>8, <2>1, <3>1 DEF Ordered
  <2>2. CASE j \notin 1..a /\ i \in 1..a
    BY <1>1, <1>5, <1>8, <2>2
  <2>3. CASE j \notin 1..a /\ i \notin 1..a
    <3>1. i - a \in DOMAIN t /\ j - a \in DOMAIN t /\ i - a < j - a /\ q[i] = t[i - a] /\ q[j] = t[j - a]
      BY <1>1, <1>3, <1>8, <2>3
    <3> QED
      BY <1>8, <3>1 DEF Ordered
  <2> QED
    BY <2>1, <2>2, <2>3
<1> QED
  BY <1>1, <1>6, <1>7, <1>8 DEF Once, Ordered, q

\* One more call.
LEMMA AppendLaws ==
  ASSUME NEW s \in Seq(Calls), NEW c \in Calls
  PROVE  /\ Append(s, c) \in Seq(Calls) /\ Range(Append(s, c)) = Range(s) \union {c}
         /\ Once(s) /\ c \notin Range(s) => Once(Append(s, c))
         /\ \A P : Ordered(s, P) /\ (c \in P => \A x \in Range(s) \cap P : x < c) => Ordered(Append(s, c), P)
<1>1. <<c>> \in Seq(Calls) /\ Append(s, c) = s \o <<c>> /\ DOMAIN <<c>> = {1} /\ <<c>>[1] = c
  OBVIOUS
<1> DEFINE t == <<c>>
<1>2. t \in Seq(Calls) /\ DOMAIN t = {1} /\ t[1] = c
  BY <1>1
<1>3. Append(s, c) = s \o t
  BY <1>1
<1> HIDE DEF t
<1>4. Range(t) = {c} /\ Once(t) /\ \A P : Ordered(t, P)
  BY <1>2 DEF Range, Once, Ordered
<1>5. /\ s \o t \in Seq(Calls) /\ Range(s \o t) = Range(s) \union Range(t)
      /\ Once(s) /\ Once(t) /\ Range(s) \cap Range(t) = {} => Once(s \o t)
      /\ \A P : Ordered(s, P) /\ Ordered(t, P) /\ (\A x \in Range(s) \cap P, y \in Range(t) \cap P : x < y) => Ordered(s \o t, P)
  BY <1>2, ConcatLaws
<1> QED
  BY <1>3, <1>4, <1>5

\* What LineInv says of the calls of a line, without their places.
InLine ==
  /\ \A u \in Users : \A c \in Range(queue[u]) : calls[c].step = "queued" /\ (OfPage(c) => Owner[calls[c].key] = u)
  /\ \A n \in 1..MaxLogins : \A c \in Range(waiters[n]) :
       /\ calls[c].step = "waiting" /\ Pending(n)
       /\ OfPage(c) => Owner[calls[c].key] = opening[n].user
  /\ \A c \in Calls :
       /\ calls[c].step = "queued" => \E u \in Users : c \in Range(queue[u])
       /\ calls[c].step = "waiting" => \E n \in 1..MaxLogins : c \in Range(waiters[n])
       /\ calls[c].step = "stored" => calls[c].op = "set"
       /\ calls[c].step = "read" => calls[c].op = "get"

\* It says the same.
LEMMA InLineIs == InLine <=> LineInv
<1>1. InLine => LineInv
  BY DEF InLine, LineInv, Range
<1>2. LineInv => InLine
  BY DEF InLine, LineInv, Range
<1> QED
  BY <1>1, <1>2

\* The database of the user opens: those who wait make their transactions, after those made already.
LEMMA OpensKeeps ==
  ASSUME IInv, NEW n \in 1..MaxLogins, n = current, Opens(n)
  PROVE  IInv'
<1>1. TypeOK /\ LruIsSound /\ LineInv /\ DoorInv /\ OrderInv /\ VersionInv /\ CopyInv /\ ReadInv /\ AnswersAreCurrent
  BY DEF IInv
<1> DEFINE cs == Range(waiters[n])
           u == opening[n].user
<1>2. /\ FirstPending(n) /\ opening' = [opening EXCEPT ![n].state = "open"] /\ Answered(n)
      /\ old' = old \ {u} /\ u \notin held /\ blocked' = FALSE
      /\ calls' = [c \in Calls |-> IF c \in cs THEN At(c, "queued") ELSE calls[c]]
      /\ queue' = [queue EXCEPT ![u] = @ \o waiters[n]]
      /\ missed' = missed \ {calls[c].key : c \in {d \in cs : Writes(calls[d])}}
      /\ UNCHANGED <<lru, version, held, current, last, seen>>
      /\ \/ UNCHANGED records
         \/ /\ disk' = [k \in Keys |-> IF Owner[k] = u THEN None ELSE disk[k]]
            /\ accessed' = [accessed EXCEPT ![u] = <<>>]
  BY DEF Opens
<1>3. /\ n \in DOMAIN opening
      /\ opening' \in Seq(Connections) /\ Len(opening') = Len(opening) /\ DOMAIN opening' = DOMAIN opening
      /\ \A m \in DOMAIN opening : opening'[m].user = opening[m].user
      /\ \A m \in DOMAIN opening : m # n => (Pending(m)' <=> Pending(m))
      /\ \A m, l \in DOMAIN opening' : m < l /\ opening'[m].user = opening'[l].user /\ Pending(m)' => Pending(l)'
  BY <1>1, <1>2, OpeningOver
<1>4. u \in Users /\ n = Len(opening) /\ DOMAIN opening = 1..n
  <2>1. current # 0
    OBVIOUS
  <2> QED
    BY <1>1, <2>1, DoorTypes
<1>5. /\ waiters' \in [1..MaxLogins -> Seq(Calls)] /\ waiters'[n] = <<>>
      /\ \A m \in 1..MaxLogins : m # n => waiters'[m] = waiters[m] /\ Range(waiters[m]) \cap Range(waiters[n]) = {}
  BY <1>1, <1>2, AnsweredLaws
<1>6. \A c \in cs : c \in Calls /\ Busy(c) /\ calls[c].step = "waiting" /\ (OfPage(c) => Owner[calls[c].key] = u)
  BY <1>1, LineCalls
<1>7. \A c \in cs : /\ calls'[c] \in CallStates /\ calls'[c].step = "queued" /\ calls'[c].op = calls[c].op
                    /\ calls'[c].key = calls[c].key /\ calls'[c].version = calls[c].version
  <2> TAKE c \in cs
  <2>1. calls[c] \in CallsToMake
    BY <1>1, <1>6, AnswerIs, CallKindsOf
  <2>2. "queued" \in Steps
    BY DEF Steps
  <2> DEFINE x == [calls[c] EXCEPT !.step = "queued"]
  <2>3. x = [step |-> "queued", op |-> calls[c].op, key |-> calls[c].key, version |-> calls[c].version, blob |-> calls[c].blob]
    BY <2>1, <2>2, CallGoesOn
  <2>4. x \in CallStates
    BY <2>1, <2>2, CallGoesOn, CallKindsOf
  <2>5. calls'[c] = x
    BY <1>2, <1>6 DEF At
  <2> QED
    BY <2>3, <2>4, <2>5
<1>8. \A c \in Calls \ cs : calls'[c] = calls[c]
  BY <1>2
<1>9. calls' \in [Calls -> CallStates]
  <2>1. \A c \in Calls : calls'[c] \in CallStates
    BY <1>1, <1>7, <1>8 DEF TypeOK
  <2>2. calls' = [c \in Calls |-> calls'[c]]
    BY <1>2
  <2> QED
    BY <2>1, <2>2
<1>10. waiters[n] \in Seq(Calls) /\ \A v \in Users : queue[v] \in Seq(Calls)
  BY <1>1 DEF TypeOK
<1>11. queue' \in [Users -> Seq(Calls)] /\ \A v \in Users : queue'[v] = IF v = u THEN queue[u] \o waiters[n] ELSE queue[v]
  BY <1>1, <1>2, <1>4, <1>10 DEF TypeOK
<1>12. Range(queue'[u]) = Range(queue[u]) \union cs
  <2>1. queue[u] \in Seq(Calls) /\ queue'[u] = queue[u] \o waiters[n]
    BY <1>4, <1>10, <1>11
  <2>2. Range(queue[u] \o waiters[n]) = Range(queue[u]) \union Range(waiters[n])
    BY <1>10, <2>1, ConcatLaws
  <2> QED
    BY <2>1, <2>2
<1>13. /\ disk' \in [Keys -> Blobs \union {None}] /\ accessed' \in [Users -> Seq(Keys)]
       /\ \A k \in Keys : disk'[k] \in {disk[k], None}
  <2>1. disk \in [Keys -> Blobs \union {None}] /\ accessed \in [Users -> Seq(Keys)] /\ <<>> \in Seq(Keys)
    BY <1>1 DEF TypeOK
  <2>2. CASE UNCHANGED records
    BY <2>1, <2>2 DEF records
  <2>3. CASE /\ disk' = [k \in Keys |-> IF Owner[k] = u THEN None ELSE disk[k]]
             /\ accessed' = [accessed EXCEPT ![u] = <<>>]
    BY <2>1, <2>3
  <2> QED
    BY <1>2, <2>2, <2>3
<1>14. TypeOK'
  <2>1. old' \subseteq Users /\ held' \subseteq old' /\ missed' \subseteq Keys /\ blocked' \in BOOLEAN
    BY <1>1, <1>2 DEF TypeOK
  <2> QED
    BY <1>1, <1>2, <1>3, <1>5, <1>9, <1>11, <1>13, <2>1 DEF TypeOK, lru, Connections
<1>15. LruIsSound'
  BY <1>1, <1>2 DEF LruIsSound, lru, InMemory
<1>16. DoorInv'
  BY <1>2, <1>3 DEF DoorInv
<1>17. \A c \in Calls : /\ Busy(c)' <=> Busy(c)
                        /\ calls'[c] = NoCall <=> calls[c] = NoCall
                        /\ Busy(c) => calls'[c].op = calls[c].op /\ calls'[c].key = calls[c].key /\ calls'[c].version = calls[c].version
  <2>1. "queued" \in Steps /\ "waiting" \in Steps /\ NoCall.step \notin Steps
    BY DEF Steps, NoCall
  <2>2. \A c \in cs : Busy(c)' /\ Busy(c)
    BY <1>6, <1>7, <2>1 DEF Busy
  <2>3. \A c \in cs : calls'[c] # NoCall /\ calls[c] # NoCall
    BY <2>1, <2>2 DEF Busy
  <2> QED
    BY <1>7, <1>8, <2>2, <2>3 DEF Busy
<1>18. \A c \in Calls : OfPage(c)' => OfPage(c) /\ calls'[c].op = calls[c].op /\ calls'[c].key = calls[c].key
                                      /\ calls'[c].version = calls[c].version
  BY <1>17 DEF OfPage
<1>19. VersionInv'
  BY <1>1, <1>2, <1>17, <1>18, VersionStays
<1>20. AnswersAreCurrent'
  <2> SUFFICES ASSUME NEW c \in Calls, calls'[c].step = "done"
               PROVE  calls'[c].true
    BY DEF AnswersAreCurrent, Ended
  <2>1. calls'[c] = calls[c]
    BY <1>7, <1>8
  <2> QED
    BY <1>1, <2>1 DEF AnswersAreCurrent, Ended
<1>21. \A c \in Calls : calls'[c].step # "queued" /\ calls'[c].step # "done" => calls'[c] = calls[c] /\ c \notin cs
  BY <1>7, <1>8
<1>22. InLine'
  <2>0. InLine
    BY <1>1, InLineIs
  <2>1. ASSUME NEW v \in Users, NEW c \in Range(queue'[v])
        PROVE  calls'[c].step = "queued" /\ (OfPage(c)' => Owner[calls'[c].key] = v)
    <3>1. CASE c \in Range(queue[v])
      <4>1. c \in Calls /\ Busy(c) /\ calls[c].step = "queued" /\ (OfPage(c) => Owner[calls[c].key] = v)
        BY <1>1, <3>1, LineCalls
      <4>2. c \notin cs
        BY <1>6, <4>1
      <4> QED
        BY <1>8, <1>18, <4>1, <4>2
    <3>2. CASE c \notin Range(queue[v])
      <4>1. v = u /\ c \in cs
        BY <1>11, <1>12, <2>1, <3>2
      <4> QED
        BY <1>6, <1>7, <1>18, <4>1
    <3> QED
      BY <3>1, <3>2
  <2>2. ASSUME NEW m \in 1..MaxLogins, NEW c \in Range(waiters'[m])
        PROVE  /\ calls'[c].step = "waiting" /\ Pending(m)'
               /\ OfPage(c)' => Owner[calls'[c].key] = opening'[m].user
    <3>1. m # n
      BY <1>5, <2>2 DEF Range
    <3>2. c \in Range(waiters[m]) /\ c \notin cs
      BY <1>5, <2>2, <3>1
    <3>3. /\ c \in Calls /\ calls[c].step = "waiting" /\ Pending(m)
          /\ OfPage(c) => Owner[calls[c].key] = opening[m].user
      BY <1>1, <3>2, LineCalls
    <3>4. m \in DOMAIN opening
      BY <3>3 DEF Pending
    <3> QED
      BY <1>3, <1>8, <1>18, <3>1, <3>2, <3>3, <3>4
  <2>3. ASSUME NEW c \in Calls, calls'[c].step = "queued"
        PROVE  \E v \in Users : c \in Range(queue'[v])
    <3>1. CASE c \in cs
      BY <1>4, <1>12, <3>1
    <3>2. CASE c \notin cs
      <4>1. calls[c].step = "queued"
        BY <1>8, <2>3, <3>2
      <4>2. PICK v \in Users : c \in Range(queue[v])
        BY <2>0, <4>1 DEF InLine
      <4> QED
        BY <1>11, <1>12, <4>2
    <3> QED
      BY <3>1, <3>2
  <2>4. ASSUME NEW c \in Calls, calls'[c].step = "waiting"
        PROVE  \E m \in 1..MaxLogins : c \in Range(waiters'[m])
    <3>1. calls[c].step = "waiting" /\ c \notin cs
      BY <1>21, <2>4
    <3>2. PICK m \in 1..MaxLogins : c \in Range(waiters[m])
      BY <2>0, <3>1 DEF InLine
    <3>3. m # n
      BY <3>1, <3>2
    <3> QED
      BY <1>5, <3>2, <3>3
  <2>5. \A c \in Calls : /\ calls'[c].step = "stored" => calls'[c].op = "set"
                         /\ calls'[c].step = "read" => calls'[c].op = "get"
    BY <1>21, <2>0 DEF InLine
  <2> QED
    BY <2>1, <2>2, <2>3, <2>4, <2>5 DEF InLine
<1>23. LineInv'
  BY <1>22 DEF InLine, LineInv, Range
<1>24. Pages' = Pages /\ Pages \subseteq Calls
  BY <1>19, <1>17 DEF Pages, OfPage
<1>25. \A c \in cs, d \in Range(queue[u]) : c \in Pages /\ d \in Pages => d < c
  <2> SUFFICES ASSUME NEW c \in cs, NEW d \in Range(queue[u]), c \in Pages, d \in Pages
               PROVE  d < c
    OBVIOUS
  <2>1. d \in Calls /\ OfPage(d) /\ OfPage(c) /\ calls[d].step = "queued" /\ Owner[calls[d].key] = opening[n].user
    BY <1>1, <1>4, LineCalls DEF Pages
  <2> QED
    BY <1>1, <2>1 DEF OrderInv
<1>26. \A v \in Users : Once(queue'[v]) /\ Ordered(queue'[v], Pages')
  <2>1. \A v \in Users : Once(queue[v]) /\ Ordered(queue[v], Pages)
    BY <1>1, <1>10, OrderedIs DEF OrderInv
  <2>2. Once(waiters[n]) /\ Ordered(waiters[n], Pages)
    BY <1>1, <1>10, OrderedIs DEF OrderInv
  <2>3. Range(queue[u]) \cap Range(waiters[n]) = {}
    BY <1>1, <1>4, LinesApart
  <2>4. \A x \in Range(queue[u]) \cap Pages, y \in Range(waiters[n]) \cap Pages : x < y
    BY <1>25
  <2>5. Once(queue[u] \o waiters[n]) /\ Ordered(queue[u] \o waiters[n], Pages)
    BY <1>4, <1>10, <2>1, <2>2, <2>3, <2>4, ConcatLaws
  <2> QED
    BY <1>11, <1>24, <2>1, <2>5
<1>27. OrderInv'
  <2>1. \A v \in Users : InOrder(queue[v])'
    BY <1>11, <1>16, <1>26 DEF InOrder, Ordered, Pages, TypeOK
  <2>2. \A m \in 1..MaxLogins : Once(waiters'[m]) /\ Ordered(waiters'[m], Pages')
    <3> TAKE m \in 1..MaxLogins
    <3>1. CASE m = n
      <4>1. waiters'[m] = <<>> /\ DOMAIN <<>> = {}
        BY <1>5, <3>1
      <4> QED
        BY <4>1 DEF Once, Ordered
    <3>2. CASE m # n
      <4>1. waiters'[m] = waiters[m] /\ waiters[m] \in Seq(Calls)
        BY <1>1, <1>5, <3>2 DEF TypeOK
      <4>2. Once(waiters[m]) /\ Ordered(waiters[m], Pages)
        BY <1>1, <4>1, OrderedIs DEF OrderInv
      <4> QED
        BY <1>24, <4>1, <4>2
    <3> QED
      BY <3>1, <3>2
  <2>3. \A m \in 1..MaxLogins : InOrder(waiters[m])'
    BY <1>5, <2>2 DEF InOrder, Ordered, Pages
  <2>4. \A v, w \in Users : v # w => Range(queue'[v]) \cap Range(queue'[w]) = {}
    BY <1>1, <1>11, <1>12, LinesApart
  <2>5. \A m, l \in 1..MaxLogins : m # l => Range(waiters'[m]) \cap Range(waiters'[l]) = {}
    <3>1. Range(waiters'[n]) = {}
      BY <1>5 DEF Range
    <3> QED
      BY <1>1, <1>5, <3>1, LinesApart
  <2>6. \A m \in 1..MaxLogins : Range(waiters'[m]) # {} => m # n /\ Range(waiters'[m]) = Range(waiters[m]) /\ Pending(m) /\ m < n
                                                            /\ opening'[m].user = opening[m].user /\ opening[m].user # u
    <3> TAKE m \in 1..MaxLogins
    <3> HAVE Range(waiters'[m]) # {}
    <3>1. m # n
      BY <1>5 DEF Range
    <3>2. waiters'[m] = waiters[m] /\ waiters[m] # <<>>
      BY <1>5, <3>1 DEF Range
    <3>3. Pending(m) /\ m \in DOMAIN opening
      BY <1>1, <3>2, NobodyWaits
    <3>4. m \in 1..n - 1
      BY <1>4, <3>1, <3>3
    <3> QED
      BY <1>2, <1>3, <3>1, <3>2, <3>3, <3>4 DEF FirstPending
  <2>7. ASSUME NEW m \in 1..MaxLogins, NEW d \in Range(waiters'[m]), NEW c \in Calls,
               OfPage(c)', OfPage(d)', calls'[c].step \in {"queued", "read"}, Owner[calls'[c].key] = opening'[m].user
        PROVE  c < d
    <3>1. d \in Range(waiters[m]) /\ opening'[m].user = opening[m].user /\ opening[m].user # u
      BY <2>6, <2>7
    <3>2. d \in Calls /\ OfPage(c) /\ OfPage(d) /\ Owner[calls[c].key] = opening[m].user
      BY <1>1, <1>18, <2>7, <3>1, LineCalls
    <3>3. c \notin cs
      BY <1>6, <3>1, <3>2
    <3>4. calls[c].step \in {"queued", "read"}
      BY <1>8, <2>7, <3>3
    <3> QED
      BY <1>1, <3>1, <3>2, <3>4 DEF OrderInv
  <2>8. ASSUME NEW m \in 1..MaxLogins, NEW l \in 1..MaxLogins, NEW c \in Range(waiters'[m]), NEW d \in Range(waiters'[l]),
               m < l, opening'[m].user = opening'[l].user, OfPage(c)', OfPage(d)'
        PROVE  c < d
    <3>1. c \in Range(waiters[m]) /\ d \in Range(waiters[l]) /\ opening[m].user = opening[l].user
      BY <2>6, <2>8
    <3>2. c \in Calls /\ d \in Calls /\ OfPage(c) /\ OfPage(d)
      BY <1>1, <1>18, <2>8, <3>1, LineCalls
    <3> QED
      BY <1>1, <2>8, <3>1, <3>2 DEF OrderInv
  <2> QED
    BY <1>26, <2>1, <2>2, <2>3, <2>4, <2>5, <2>7, <2>8 DEF OrderInv
<1>28. \A c \in Calls, k \in Keys : (Unwritten(c, k)' <=> Unwritten(c, k)) /\ (Busy(c) => (IsLatest(c)' <=> IsLatest(c)))
  <2> TAKE c \in Calls, k \in Keys
  <2>1. CASE c \in cs
    BY <1>2, <1>6, <1>7, <2>1 DEF Unwritten, Writes, IsLatest
  <2>2. CASE c \notin cs
    BY <1>2, <1>8, <2>2 DEF Unwritten, Writes, IsLatest
  <2> QED
    BY <2>1, <2>2
<1>29. \A k \in Keys : k \in missed /\ k \notin missed' => WaitsHere(k)
  <2> SUFFICES ASSUME NEW k \in Keys, k \in missed, k \notin missed'
               PROVE  WaitsHere(k)
    OBVIOUS
  <2>1. PICK c \in cs : Writes(calls[c]) /\ calls[c].key = k
    BY <1>2
  <2>2. Unwritten(c, k)
    BY <1>6, <2>1 DEF Unwritten
  <2> QED
    BY <2>2 DEF WaitsHere
<1>30. CopyInv'
  <2> SUFFICES ASSUME NEW k \in Keys
               PROVE  /\ ~WaitsHere(k)'
                      /\ k \notin missed' =>
                           \/ \E c \in Calls : Unwritten(c, k)' /\ IsLatest(c)'
                           \/ (\A c \in Calls : ~Unwritten(c, k)') /\ disk'[k] \in {None, last'[k]}
                      /\ k \notin missed' => memory'[k] \in {None, last'[k]}
    BY DEF CopyInv
  <2>1. ~WaitsHere(k)'
    BY <1>2, <1>5 DEF WaitsHere, Range
  <2>2. CASE k \notin missed'
    <3>1. memory[k] \in {None, last[k]}
      BY <1>1, <1>29, <2>2 DEF CopyInv
    <3>2. memory'[k] \in {None, last'[k]}
      BY <1>2, <3>1 DEF lru
    <3>3. CASE \E c \in Calls : Unwritten(c, k) /\ IsLatest(c)
      BY <1>28, <2>1, <2>2, <3>2, <3>3, UnwrittenIs
    <3>4. CASE (\A c \in Calls : ~Unwritten(c, k)) /\ disk[k] \in {None, last[k]}
      BY <1>2, <1>13, <1>28, <2>1, <2>2, <3>2, <3>4
    <3>5. (\E c \in Calls : Unwritten(c, k) /\ IsLatest(c)) \/ ((\A c \in Calls : ~Unwritten(c, k)) /\ disk[k] \in {None, last[k]})
      <4>1. CASE WaitsHere(k)
        <5>1. PICK c \in cs : Unwritten(c, k) /\ IsLatest(c)
          BY <1>1, <4>1 DEF CopyInv
        <5> QED
          BY <1>6, <5>1
      <4>2. CASE ~WaitsHere(k)
        BY <1>1, <1>29, <2>2, <4>2 DEF CopyInv
      <4> QED
        BY <4>1, <4>2
    <3> QED
      BY <2>1, <2>2, <3>2, <3>3, <3>4, <3>5
  <2> QED
    BY <2>1, <2>2
<1>31. ReadInv'
  <2>1. ASSUME NEW c \in Calls, calls'[c].step = "read", calls'[c].key \notin missed', NothingCameBetween(c)'
        PROVE  calls'[c].blob \in {None, last'[calls'[c].key]}
    <3>1. calls'[c] = calls[c]
      BY <1>21, <2>1
    <3>2. calls[c].key \in Keys
      <4>1. Busy(c)
        BY <2>1, <3>1 DEF Busy, Steps
      <4>2. calls[c] \in CallsUnderWay
        BY <1>1, <4>1, AnswerIs
      <4> QED
        BY <4>2 DEF CallsUnderWay
    <3>3. NothingCameBetween(c)
      BY <1>2, <2>1, <3>1 DEF NothingCameBetween
    <3>4. calls[c].key \notin missed
      BY <1>29, <2>1, <3>1, <3>2, <3>3, ReadIsOld
    <3> QED
      BY <1>1, <1>2, <2>1, <3>1, <3>3, <3>4 DEF ReadInv
  <2>2. ASSUME NEW c \in Calls, Busy(c)', calls'[c].op = "get"
        PROVE  Meanings(calls'[c].key, last', missed') \subseteq seen'[c]
    <3>1. Busy(c) /\ calls[c].op = "get" /\ calls'[c].key = calls[c].key
      BY <1>17, <2>2
    <3>2. Meanings(calls[c].key, last, missed) \subseteq seen[c]
      BY <1>1, <3>1 DEF ReadInv
    <3>3. missed' \subseteq missed /\ last' = last /\ seen' = seen
      BY <1>2
    <3> QED
      BY <3>1, <3>2, <3>3 DEF Meanings
  <2> QED
    BY <2>1, <2>2 DEF ReadInv
<1> QED
  BY <1>14, <1>15, <1>16, <1>19, <1>20, <1>23, <1>27, <1>30, <1>31 DEF IInv

(***************************************************************************)
(* Transactions                                                            *)
(***************************************************************************)
\* The first of a line leaves it.
LEMMA TailLaws ==
  ASSUME NEW s \in Seq(Calls), s # <<>>
  PROVE  /\ Tail(s) \in Seq(Calls) /\ Head(s) = s[1] /\ s[1] \in Range(s) /\ s[1] \in Calls /\ Rest(Tail(s), s)
         /\ Once(s) => Range(Tail(s)) = Range(s) \ {s[1]}
<1>1. /\ Len(s) \in Nat /\ DOMAIN s = 1..Len(s) /\ 1 \in DOMAIN s /\ Head(s) = s[1]
      /\ Tail(s) \in Seq(Calls) /\ DOMAIN Tail(s) = 1..Len(s) - 1
  OBVIOUS
<1>2. \A i \in DOMAIN Tail(s) : i + 1 \in DOMAIN s /\ Tail(s)[i] = s[i + 1] /\ i + 1 # 1
  BY <1>1
<1>3. Rest(Tail(s), s)
  BY <1>2 DEF Rest
<1>4. ASSUME Once(s)
      PROVE  Range(Tail(s)) = Range(s) \ {s[1]}
  <2>1. \A i \in DOMAIN Tail(s) : Tail(s)[i] \in Range(s) \ {s[1]}
    BY <1>1, <1>2, <1>4 DEF Once, Range
  <2>2. ASSUME NEW i \in DOMAIN s, s[i] # s[1]
        PROVE  \E j \in DOMAIN Tail(s) : Tail(s)[j] = s[i]
    <3>1. i - 1 \in DOMAIN Tail(s) /\ (i - 1) + 1 = i
      BY <1>1, <2>2
    <3> QED
      BY <1>2, <3>1
  <2> QED
    BY <2>1, <2>2 DEF Range
<1>5. s[1] \in Range(s) /\ s[1] \in Calls
  BY <1>1 DEF Range
<1> QED
  BY <1>1, <1>3, <1>4, <1>5

\* Records are written, deleted and evicted.
LEMMA RecordLaws ==
  ASSUME TypeOK, NEW u \in Users, NEW k \in Keys, NEW blob \in Blobs \union {None}
  PROVE  /\ Put(u, k, blob) => disk' = [disk EXCEPT ![k] = blob] /\ accessed' \in [Users -> Seq(Keys)]
         /\ DeleteRecord(u, k) => disk' = [disk EXCEPT ![k] = None] /\ accessed' \in [Users -> Seq(Keys)]
<1>1. accessed \in [Users -> Seq(Keys)] /\ accessed[u] \in Seq(Keys)
  BY DEF TypeOK
<1>2. TouchAccessOrder(accessed[u], k) \in Seq(Keys) /\ Removed(accessed[u], k) \in Seq(Keys)
  BY <1>1, TouchLaws, RemovedLaws
<1> QED
  BY <1>1, <1>2 DEF Put, DeleteRecord

\* The oldest records go.
LEMMA EvictLaws ==
  ASSUME TypeOK, NEW u \in Users, EvictOldIDB(u)
  PROVE  /\ disk' \in [Keys -> Blobs \union {None}] /\ accessed' \in [Users -> Seq(Keys)]
         /\ \A k \in Keys : disk'[k] \in {disk[k], None}
<1> DEFINE s == accessed[u]
           n == IF Len(s) > MaxIDB THEN Len(s) - MaxIDB ELSE 0
<1>1. accessed \in [Users -> Seq(Keys)] /\ s \in Seq(Keys) /\ disk \in [Keys -> Blobs \union {None}]
  BY DEF TypeOK
<1>2. n \in Nat /\ n <= Len(s) /\ Len(s) \in Nat
  BY <1>1, CacheAssumption
<1>3. /\ disk' = [k \in Keys |-> IF k \in Range(SubSeq(s, 1, n)) THEN None ELSE disk[k]]
      /\ accessed' = [accessed EXCEPT ![u] = SubSeq(s, n + 1, Len(s))]
  BY DEF EvictOldIDB
<1> HIDE DEF n, s
<1>4. SubSeq(s, n + 1, Len(s)) \in Seq(Keys)
  BY <1>1, <1>2
<1> QED
  BY <1>1, <1>3, <1>4

\* What a transaction does to its call and to the database.
LEMMA RunCases ==
  ASSUME TypeOK, LineInv, NEW u \in Users, RunTransaction(u)
  PROVE  LET c == queue[u][1]
             k == calls[c].key
             SameCall == calls'[c].op = calls[c].op /\ calls'[c].key = k /\ calls'[c].version = calls[c].version
         IN  /\ queue[u] # <<>> /\ c \in Calls /\ Busy(c) /\ calls[c].step = "queued" /\ k \in Keys
             /\ calls' \in [Calls -> CallStates] /\ \A d \in Calls : d # c => calls'[d] = calls[d]
             /\ disk' \in [Keys -> Blobs \union {None}] /\ accessed' \in [Users -> Seq(Keys)]
             /\ \/ /\ calls[c].op = "get" /\ calls'[c].step = "read" /\ SameCall /\ calls'[c].blob = disk[k]
                   /\ disk' = disk
                \/ calls[c].op = "set" /\ calls'[c].step = "stored" /\ SameCall /\ disk' = [disk EXCEPT ![k] = c]
                \/ calls[c].op = "delete" /\ calls'[c].step = "done" /\ calls'[c].true /\ disk' = [disk EXCEPT ![k] = None]
                \/ calls[c].op = "evict" /\ calls'[c].step = "done" /\ calls'[c].true
                   /\ \A j \in Keys : disk'[j] \in {disk[j], None}
<1> DEFINE c == queue[u][1]
           k == calls[c].key
<1>1. queue[u] # <<>> /\ queue[u] \in Seq(Calls)
  BY DEF RunTransaction, TypeOK
<1>2. Head(queue[u]) = c /\ c \in Calls /\ c \in Range(queue[u])
  BY <1>1, TailLaws
<1>3. Busy(c) /\ calls[c].step = "queued"
  BY <1>2, LineCalls
<1>4. calls[c] \in CallsUnderWay /\ calls[c] \in CallsToMake
  BY <1>2, <1>3, AnswerIs, CallKindsOf
<1>5. k \in Keys
  BY <1>4 DEF CallsUnderWay
<1>6. calls \in [Calls -> CallStates] /\ disk \in [Keys -> Blobs \union {None}] /\ accessed \in [Users -> Seq(Keys)]
  BY DEF TypeOK
<1>7. \/ /\ calls[c].op = "get"
         /\ IF disk[k] = None THEN UNCHANGED records ELSE Put(u, k, disk[k])
         /\ calls' = [calls EXCEPT ![c] = [At(c, "read") EXCEPT !.blob = disk[k]]]
      \/ calls[c].op = "set" /\ Put(u, k, c) /\ calls' = [calls EXCEPT ![c] = At(c, "stored")]
      \/ calls[c].op = "delete" /\ DeleteRecord(u, k) /\ calls' = [calls EXCEPT ![c] = Answer(c, None)]
      \/ calls[c].op = "evict" /\ EvictOldIDB(u) /\ calls' = [calls EXCEPT ![c] = Answer(c, None)]
  BY <1>2 DEF RunTransaction
<1> HIDE DEF c, k
<1>8. CASE /\ calls[c].op = "get"
           /\ IF disk[k] = None THEN UNCHANGED records ELSE Put(u, k, disk[k])
           /\ calls' = [calls EXCEPT ![c] = [At(c, "read") EXCEPT !.blob = disk[k]]]
  <2>1. disk' = disk /\ accessed' \in [Users -> Seq(Keys)]
    <3>1. CASE disk[k] = None
      BY <1>6, <1>8, <3>1 DEF records
    <3>2. CASE disk[k] # None
      <4>1. disk[k] \in Blobs \union {None}
        BY <1>5, <1>6
      <4>2. disk' = [disk EXCEPT ![k] = disk[k]] /\ accessed' \in [Users -> Seq(Keys)]
        BY <1>5, <1>8, <3>2, <4>1, RecordLaws
      <4> QED
        BY <1>6, <4>2
    <3> QED
      BY <3>1, <3>2
  <2> DEFINE y == At(c, "read")
             x == [y EXCEPT !.blob = disk[k]]
  <2>2. "read" \in Steps /\ disk[k] \in Blobs \union {None}
    BY <1>5, <1>6 DEF Steps
  <2>3. y \in CallsUnderWay /\ y = [step |-> "read", op |-> calls[c].op, key |-> calls[c].key, version |-> calls[c].version, blob |-> calls[c].blob]
    BY <1>4, <2>2, CallGoesOn DEF At
  <2> HIDE DEF y
  <2>4. x \in CallStates /\ x = [step |-> y.step, op |-> y.op, key |-> y.key, version |-> y.version, blob |-> disk[k]]
    BY <2>2, <2>3, CallReads, CallKindsOf
  <2>5. calls' = [calls EXCEPT ![c] = x]
    BY <1>8 DEF y
  <2> HIDE DEF x
  <2>6. calls' \in [Calls -> CallStates] /\ calls'[c] = x /\ \A d \in Calls : d # c => calls'[d] = calls[d]
    BY <1>2, <1>6, <2>4, <2>5
  <2>7. calls'[c].step = "read" /\ calls'[c].op = calls[c].op /\ calls'[c].key = k /\ calls'[c].version = calls[c].version /\ calls'[c].blob = disk[k]
    BY <2>3, <2>4, <2>6 DEF k
  <2> QED
    BY <1>1, <1>2, <1>3, <1>5, <1>6, <1>8, <2>1, <2>6, <2>7 DEF c, k
<1>9. CASE calls[c].op = "set" /\ Put(u, k, c) /\ calls' = [calls EXCEPT ![c] = At(c, "stored")]
  <2>1. c \in Blobs \union {None}
    BY <1>2 DEF Blobs
  <2>2. disk' = [disk EXCEPT ![k] = c] /\ accessed' \in [Users -> Seq(Keys)]
    BY <1>5, <1>9, <2>1, RecordLaws
  <2>3. disk' \in [Keys -> Blobs \union {None}]
    BY <1>6, <2>1, <2>2
  <2> DEFINE x == At(c, "stored")
  <2>4. "stored" \in Steps
    BY DEF Steps
  <2>5. x \in CallStates /\ x = [step |-> "stored", op |-> calls[c].op, key |-> calls[c].key, version |-> calls[c].version, blob |-> calls[c].blob]
    BY <1>4, <2>4, CallGoesOn, CallKindsOf DEF At
  <2> HIDE DEF x
  <2>6. calls' \in [Calls -> CallStates] /\ calls'[c] = x /\ \A d \in Calls : d # c => calls'[d] = calls[d]
    BY <1>2, <1>6, <1>9, <2>5 DEF x
  <2>7. calls'[c].step = "stored" /\ calls'[c].op = calls[c].op /\ calls'[c].key = k /\ calls'[c].version = calls[c].version
    BY <2>5, <2>6 DEF k
  <2> QED
    BY <1>1, <1>2, <1>3, <1>5, <1>9, <2>2, <2>3, <2>6, <2>7 DEF c, k
<1>10. CASE \/ calls[c].op = "delete" /\ DeleteRecord(u, k) /\ calls' = [calls EXCEPT ![c] = Answer(c, None)]
            \/ calls[c].op = "evict" /\ EvictOldIDB(u) /\ calls' = [calls EXCEPT ![c] = Answer(c, None)]
  <2> DEFINE x == Answer(c, None)
  <2>1. x \in CallStates /\ x.step = "done" /\ x.true
    BY <1>2, <1>3, AnswerIs, CallKindsOf
  <2> HIDE DEF x
  <2>2. calls' \in [Calls -> CallStates] /\ calls'[c] = x /\ \A d \in Calls : d # c => calls'[d] = calls[d]
    BY <1>2, <1>6, <1>10, <2>1 DEF x
  <2>3. CASE calls[c].op = "delete" /\ DeleteRecord(u, k)
    <3>1. None \in Blobs \union {None}
      OBVIOUS
    <3>2. disk' = [disk EXCEPT ![k] = None] /\ accessed' \in [Users -> Seq(Keys)]
      BY <1>5, <2>3, <3>1, RecordLaws
    <3>3. disk' \in [Keys -> Blobs \union {None}]
      BY <1>6, <3>2
    <3> QED
      BY <1>1, <1>2, <1>3, <1>5, <2>1, <2>2, <2>3, <3>2, <3>3 DEF c, k
  <2>4. CASE calls[c].op = "evict" /\ EvictOldIDB(u)
    <3>1. /\ disk' \in [Keys -> Blobs \union {None}] /\ accessed' \in [Users -> Seq(Keys)]
          /\ \A j \in Keys : disk'[j] \in {disk[j], None}
      BY <2>4, EvictLaws
    <3> QED
      BY <1>1, <1>2, <1>3, <1>5, <2>1, <2>2, <2>4, <3>1 DEF c, k
  <2> QED
    BY <1>10, <2>3, <2>4
<1> QED
  BY <1>7, <1>8, <1>9, <1>10

\* A transaction runs: what it writes is what was last written, or a later write is still to come.
LEMMA RunKeeps ==
  ASSUME IInv, NEW u \in Users, RunTransaction(u)
  PROVE  IInv'
<1>1. TypeOK /\ LruIsSound /\ LineInv /\ DoorInv /\ OrderInv /\ VersionInv /\ CopyInv /\ ReadInv /\ AnswersAreCurrent
  BY DEF IInv
<1>0. PICK c \in Calls, k \in Keys : c = queue[u][1] /\ k = calls[queue[u][1]].key
  BY <1>1, RunCases
<1> DEFINE SameCall == calls'[c].op = calls[c].op /\ calls'[c].key = k /\ calls'[c].version = calls[c].version
<1>2. /\ queue[u] # <<>> /\ c \in Calls /\ Busy(c) /\ calls[c].step = "queued" /\ k \in Keys
      /\ calls' \in [Calls -> CallStates] /\ \A d \in Calls : d # c => calls'[d] = calls[d]
      /\ disk' \in [Keys -> Blobs \union {None}] /\ accessed' \in [Users -> Seq(Keys)]
      /\ \/ /\ calls[c].op = "get" /\ calls'[c].step = "read" /\ SameCall /\ calls'[c].blob = disk[k]
            /\ disk' = disk
         \/ calls[c].op = "set" /\ calls'[c].step = "stored" /\ SameCall /\ disk' = [disk EXCEPT ![k] = c]
         \/ calls[c].op = "delete" /\ calls'[c].step = "done" /\ calls'[c].true /\ disk' = [disk EXCEPT ![k] = None]
         \/ calls[c].op = "evict" /\ calls'[c].step = "done" /\ calls'[c].true
            /\ \A j \in Keys : disk'[j] \in {disk[j], None}
  BY <1>0, <1>1, RunCases
<1>3. /\ queue' = [queue EXCEPT ![u] = Tail(@)]
      /\ UNCHANGED <<lru, version, door, waiters, history>>
  BY DEF RunTransaction
<1>4. queue \in [Users -> Seq(Calls)] /\ disk \in [Keys -> Blobs \union {None}]
  BY <1>1 DEF TypeOK
<1>5. /\ Tail(queue[u]) \in Seq(Calls) /\ c \in Range(queue[u]) /\ Rest(Tail(queue[u]), queue[u])
      /\ Range(Tail(queue[u])) = Range(queue[u]) \ {c}
  BY <1>0, <1>1, <1>2, <1>4, TailLaws DEF OrderInv
<1>6. queue' \in [Users -> Seq(Calls)] /\ \A v \in Users : queue'[v] = IF v = u THEN Tail(queue[u]) ELSE queue[v]
  BY <1>3, <1>4, <1>5
<1>7. calls[c] \in CallsUnderWay
  BY <1>1, <1>2, AnswerIs
<1>8. k = calls[c].key
  BY <1>0
<1>9. calls[c].version \in Nat /\ calls[c].op \in Ops /\ (Owner[k] = u \/ calls[c].op = "evict")
  BY <1>1, <1>2, <1>5, <1>7, <1>8, LineCalls DEF CallsUnderWay, OfPage
<1> HIDE DEF SameCall
<1>10. TypeOK'
  BY <1>1, <1>2, <1>3, <1>6 DEF TypeOK, lru, door, history
<1>11. LruIsSound'
  BY <1>1, <1>3 DEF LruIsSound, lru, InMemory
<1>12. DoorInv'
  BY <1>1, <1>3 DEF DoorInv, door, Pending, State
<1>13. /\ calls'[c].step \in {"read", "stored", "done"} /\ calls'[c] # NoCall /\ calls[c] # NoCall
       /\ calls'[c].step # "done" => SameCall
       /\ calls[c].op = "evict" => calls'[c].step = "done"
       /\ Busy(c)' <=> calls'[c].step # "done"
  <2>1. calls'[c].step \in {"read", "stored", "done"} /\ (calls'[c].step # "done" => SameCall)
    BY <1>2
  <2>2. calls'[c] # NoCall /\ calls[c] # NoCall
    BY <1>2 DEF NoCall
  <2>3. calls[c].op = "evict" => calls'[c].step = "done"
    BY <1>2
  <2>4. Busy(c)' <=> calls'[c].step # "done"
    BY <2>1 DEF Busy, Steps
  <2> QED
    BY <2>1, <2>2, <2>3, <2>4
<1>14. \A d \in Calls : OfPage(d)' => /\ OfPage(d) /\ calls'[d].op = calls[d].op /\ calls'[d].key = calls[d].key
                                      /\ calls'[d].version = calls[d].version
  <2> TAKE d \in Calls
  <2>1. CASE d = c
    <3>1. OfPage(c)' => SameCall /\ calls[c].op # "evict"
      BY <1>13 DEF OfPage
    <3>2. Busy(c) /\ calls[c].key = k
      BY <1>2, <1>8
    <3> QED
      BY <2>1, <3>1, <3>2 DEF OfPage, SameCall
  <2>2. CASE d # c
    BY <1>2, <2>2 DEF OfPage, Busy
  <2> QED
    BY <2>1, <2>2
<1>15. VersionInv'
  <2>1. \A d \in Calls : calls'[d] = NoCall <=> calls[d] = NoCall
    BY <1>2, <1>13
  <2> QED
    BY <1>1, <1>3, <1>14, <2>1, VersionStays DEF history
<1>16. AnswersAreCurrent'
  BY <1>1, <1>2, <1>13 DEF AnswersAreCurrent, Ended
<1>17. LineInv'
  <2>0. InLine
    BY <1>1, InLineIs
  <2>1. ASSUME NEW v \in Users, NEW d \in Range(queue'[v])
        PROVE  calls'[d].step = "queued" /\ (OfPage(d)' => Owner[calls'[d].key] = v)
    <3>1. d \in Range(queue[v]) /\ d # c
      <4>1. CASE v = u
        BY <1>5, <1>6, <2>1, <4>1
      <4>2. CASE v # u
        BY <1>1, <1>5, <1>6, <2>1, <4>2, LinesApart
      <4> QED
        BY <4>1, <4>2
    <3>2. d \in Calls /\ calls[d].step = "queued" /\ (OfPage(d) => Owner[calls[d].key] = v)
      BY <1>1, <3>1, LineCalls
    <3> QED
      BY <1>2, <1>14, <3>1, <3>2
  <2>2. ASSUME NEW m \in 1..MaxLogins, NEW d \in Range(waiters'[m])
        PROVE  /\ calls'[d].step = "waiting" /\ Pending(m)'
               /\ OfPage(d)' => Owner[calls'[d].key] = opening'[m].user
    <3>1. d \in Range(waiters[m]) /\ opening' = opening
      BY <1>3, <2>2 DEF door
    <3>2. /\ d \in Calls /\ calls[d].step = "waiting" /\ Pending(m)
          /\ OfPage(d) => Owner[calls[d].key] = opening[m].user
      BY <1>1, <3>1, LineCalls
    <3>3. d # c
      BY <1>2, <3>2
    <3> QED
      BY <1>2, <1>14, <3>1, <3>2, <3>3 DEF Pending, State
  <2>3. ASSUME NEW d \in Calls, calls'[d].step = "queued"
        PROVE  \E v \in Users : d \in Range(queue'[v])
    <3>1. d # c /\ calls[d].step = "queued"
      BY <1>2, <1>13, <2>3
    <3>2. PICK v \in Users : d \in Range(queue[v])
      BY <2>0, <3>1 DEF InLine
    <3> QED
      BY <1>5, <1>6, <3>1, <3>2
  <2>4. ASSUME NEW d \in Calls, calls'[d].step = "waiting"
        PROVE  \E m \in 1..MaxLogins : d \in Range(waiters'[m])
    <3>1. calls[d].step = "waiting"
      BY <1>2, <1>13, <2>4
    <3> QED
      BY <1>3, <2>0, <3>1 DEF InLine
  <2>5. \A d \in Calls : /\ calls'[d].step = "stored" => calls'[d].op = "set"
                         /\ calls'[d].step = "read" => calls'[d].op = "get"
    <3> TAKE d \in Calls
    <3>1. CASE d = c
      BY <1>2, <3>1 DEF SameCall
    <3>2. CASE d # c
      BY <1>2, <2>0, <3>2 DEF InLine
    <3> QED
      BY <3>1, <3>2
  <2>6. InLine'
    BY <2>1, <2>2, <2>3, <2>4, <2>5 DEF InLine
  <2> QED
    BY <2>6 DEF InLine, LineInv, Range
<1>18. OrderInv'
  <2>1. \A s \in Seq(Calls) : Rest(s, s)
    BY RestItself
  <2>2. \A v \in Users : Rest(queue'[v], queue[v])
    BY <1>4, <1>5, <1>6, <2>1
  <2>3. \A n \in 1..MaxLogins : Rest(waiters'[n], waiters[n])
    BY <1>1, <1>3, <2>1 DEF TypeOK
  <2>4. \A n \in 1..MaxLogins : Range(waiters'[n]) # {} => opening'[n].user = opening[n].user
    BY <1>3 DEF door
  <2>5. \A d \in Calls : OfPage(d)' => OfPage(d) /\ calls'[d].key = calls[d].key
    BY <1>14
  <2>6. \A d \in Calls : OfPage(d)' /\ calls'[d].step \in {"queued", "read"} => calls[d].step \in {"queued", "read"}
    BY <1>2
  <2> QED
    BY <1>1, <1>10, <2>2, <2>3, <2>4, <2>5, <2>6, OrderStays
<1>19. \A d \in Calls, j \in Keys : Unwritten(d, j)' <=> Unwritten(d, j) /\ d # c
  <2> TAKE d \in Calls, j \in Keys
  <2>1. CASE d = c
    BY <1>13, <2>1 DEF Unwritten
  <2>2. CASE d # c
    BY <1>2, <2>2 DEF Unwritten
  <2> QED
    BY <2>1, <2>2
<1>20. \A d \in Calls : d # c => (IsLatest(d)' <=> IsLatest(d))
  BY <1>2, <1>3 DEF IsLatest
<1>21. \A e \in Calls : e # c /\ Unwritten(e, k) /\ OfPage(c) => c < e
  BY <1>0, <1>1, <1>2, HeadIsFirst
<1>22. version[k] \in Nat
  BY <1>1, <1>2 DEF TypeOK
<1>23. ASSUME NEW e \in Calls, e # c, Unwritten(e, k), OfPage(c)
       PROVE  /\ calls[c].version <= calls[e].version /\ calls[e].version < version[k] /\ calls[e].version \in Nat
              /\ Writes(calls[c]) => calls[c].version < calls[e].version
              /\ IsLatest(e) => version[k] = calls[e].version + 1
  <2>1. c < e /\ OfPage(e) /\ calls[e].key = k /\ calls[c].key = k /\ Writes(calls[e])
    BY <1>21, <1>23, UnwrittenIs, <1>8
  <2>2. calls[e].version \in Nat
    <3>1. calls[e] \in CallsUnderWay
      BY <1>1, <2>1, AnswerIs DEF OfPage
    <3> QED
      BY <3>1 DEF CallsUnderWay
  <2>3. calls[c].version <= calls[e].version /\ (Writes(calls[c]) => calls[c].version < calls[e].version)
    BY <1>1, <1>2, <1>23, <2>1 DEF VersionInv
  <2>4. calls[e].version < version[k]
    BY <1>1, <2>1 DEF VersionInv
  <2>5. IsLatest(e) => version[k] = calls[e].version + 1
    BY <2>1 DEF IsLatest
  <2> QED
    BY <2>2, <2>3, <2>4, <2>5
<1>24. CopyInv'
  <2> SUFFICES ASSUME NEW j \in Keys
               PROVE  /\ WaitsHere(j)' => \E e \in Range(waiters'[current']) : Unwritten(e, j)' /\ IsLatest(e)'
                      /\ j \notin missed' =>
                           \/ \E e \in Calls : Unwritten(e, j)' /\ IsLatest(e)'
                           \/ (\A e \in Calls : ~Unwritten(e, j)') /\ disk'[j] \in {None, last'[j]}
                      /\ j \notin missed' \/ WaitsHere(j)' => memory'[j] \in {None, last'[j]}
    BY DEF CopyInv
  <2>1. current' = current /\ waiters' = waiters /\ memory' = memory /\ last' = last /\ missed' = missed
    BY <1>3 DEF door, history, lru
  <2>2. current # 0 => \A e \in Range(waiters[current]) : e \in Calls /\ e # c
    <3> HAVE current # 0
    <3>1. current \in 1..MaxLogins
      BY <1>1, DoorTypes
    <3>2. \A e \in Range(waiters[current]) : e \in Calls /\ calls[e].step = "waiting"
      BY <1>1, <3>1, LineCalls
    <3> QED
      BY <1>2, <3>2
  <2>3. WaitsHere(j)' <=> WaitsHere(j)
    BY <1>19, <2>1, <2>2 DEF WaitsHere
  <2>4. WaitsHere(j) => \E e \in Range(waiters'[current']) : Unwritten(e, j)' /\ IsLatest(e)'
    <3> HAVE WaitsHere(j)
    <3>1. PICK e \in Range(waiters[current]) : Unwritten(e, j) /\ IsLatest(e)
      BY <1>1 DEF CopyInv
    <3>2. e \in Calls /\ e # c
      BY <2>2 DEF WaitsHere
    <3> QED
      BY <1>19, <1>20, <2>1, <3>1, <3>2
  <2>5. j \notin missed' \/ WaitsHere(j)' => memory'[j] \in {None, last'[j]}
    BY <1>1, <2>1, <2>3 DEF CopyInv
  <2>6. ASSUME j \notin missed
        PROVE  \/ \E e \in Calls : Unwritten(e, j)' /\ IsLatest(e)'
               \/ (\A e \in Calls : ~Unwritten(e, j)') /\ disk'[j] \in {None, last'[j]}
    <3>1. CASE \E e \in Calls : e # c /\ Unwritten(e, j) /\ IsLatest(e)
      BY <1>19, <1>20, <3>1
    <3>2. CASE Unwritten(c, j) /\ IsLatest(c)
      <4>1. OfPage(c) /\ Writes(calls[c]) /\ j = k
        BY <1>2, <3>2, UnwrittenIs, <1>8
      <4>2. version[k] = calls[c].version + 1
        BY <3>2, <1>8 DEF IsLatest
      <4>3. \A e \in Calls : e # c => ~Unwritten(e, k)
        BY <1>9, <1>22, <1>23, <4>1, <4>2
      <4>4. last[k] = IF calls[c].op = "set" THEN c ELSE None
        BY <1>1, <1>2, <3>2, <4>1, <1>8 DEF VersionInv
      <4>5. disk'[k] \in {None, last[k]}
        BY <1>2, <1>4, <4>1, <4>4 DEF Writes
      <4> QED
        BY <1>19, <2>1, <4>1, <4>3, <4>5
    <3>3. CASE (\A e \in Calls : ~Unwritten(e, j)) /\ disk[j] \in {None, last[j]}
      <4>1. Writes(calls[c]) => j # k
        BY <1>2, <3>3, <1>8 DEF Unwritten
      <4>2. disk'[j] \in {disk[j], None}
        BY <1>2, <1>4, <4>1 DEF Writes
      <4> QED
        BY <1>19, <2>1, <3>3, <4>2
    <3> QED
      BY <1>1, <2>6, <3>1, <3>2, <3>3 DEF CopyInv
  <2> QED
    BY <2>1, <2>3, <2>4, <2>5, <2>6
<1>25. ReadInv'
  <2>1. last' = last /\ missed' = missed /\ seen' = seen /\ version' = version
    BY <1>3 DEF history
  <2>2. ASSUME NEW d \in Calls, calls'[d].step = "read", calls'[d].key \notin missed', NothingCameBetween(d)'
        PROVE  calls'[d].blob \in {None, last'[calls'[d].key]}
    <3>1. CASE d # c
      BY <1>1, <1>2, <2>1, <2>2, <3>1 DEF ReadInv, NothingCameBetween
    <3>2. CASE d = c
      <4>1. calls[c].op = "get" /\ SameCall /\ calls'[c].blob = disk[k]
        BY <1>2, <2>2, <3>2
      <4>2. k \notin missed /\ version[k] = calls[c].version
        BY <2>1, <2>2, <3>2, <4>1 DEF SameCall, NothingCameBetween
      <4>3. OfPage(c) /\ ~Writes(calls[c])
        BY <1>2, <4>1 DEF OfPage, Writes
      <4>4. ~\E e \in Calls : Unwritten(e, k) /\ IsLatest(e)
        <5> SUFFICES ASSUME NEW e \in Calls, Unwritten(e, k), IsLatest(e)
                     PROVE  FALSE
          OBVIOUS
        <5>1. e # c
          BY <4>3, UnwrittenIs
        <5>2. calls[c].version <= calls[e].version /\ calls[e].version \in Nat /\ version[k] = calls[e].version + 1
          BY <1>23, <4>3, <5>1
        <5> QED
          BY <1>9, <4>2, <5>2
      <4>5. disk[k] \in {None, last[k]}
        BY <1>1, <1>2, <4>2, <4>4 DEF CopyInv
      <4> QED
        BY <2>1, <3>2, <4>1, <4>5 DEF SameCall
    <3> QED
      BY <3>1, <3>2
  <2>3. ASSUME NEW d \in Calls, Busy(d)', calls'[d].op = "get"
        PROVE  Meanings(calls'[d].key, last', missed') \subseteq seen'[d]
    <3>1. Busy(d) /\ calls[d].op = "get" /\ calls'[d].key = calls[d].key
      <4>1. OfPage(d)'
        BY <2>3 DEF OfPage
      <4> QED
        BY <1>14, <2>3, <4>1 DEF OfPage
    <3> QED
      BY <1>1, <2>1, <3>1 DEF ReadInv
  <2> QED
    BY <2>2, <2>3 DEF ReadInv
<1> QED
  BY <1>10, <1>11, <1>12, <1>15, <1>16, <1>17, <1>18, <1>24, <1>25 DEF IInv

\* A call that nobody serves ends, and the lines stay as they are.
LEMMA EndsApart ==
  ASSUME IInv, TypeOK', NEW c \in Calls, calls[c].step \notin {"waiting", "queued"}, calls'[c].step = "done",
         \A d \in Calls : d # c => calls'[d] = calls[d],
         UNCHANGED <<queue, waiters, door>>
  PROVE  LineInv' /\ OrderInv' /\ DoorInv'
<1>1. TypeOK /\ LineInv /\ DoorInv /\ OrderInv
  BY DEF IInv
<1>2. queue' = queue /\ waiters' = waiters /\ opening' = opening
  BY DEF door
<1>3. \A d \in Calls : OfPage(d)' => d # c /\ OfPage(d) /\ calls'[d] = calls[d]
  BY DEF OfPage, Busy, Steps
<1>4. DoorInv'
  BY <1>1, <1>2 DEF DoorInv, door, Pending, State
<1>5. LineInv'
  <2>0. InLine
    BY <1>1, InLineIs
  <2>2. \A v \in Users : \A d \in Range(queue[v]) : d \in Calls /\ d # c
    BY <1>1, LineCalls
  <2>3. \A n \in 1..MaxLogins : \A d \in Range(waiters[n]) : d \in Calls /\ d # c
    BY <1>1, LineCalls
  <2>4. \A v \in Users : \A d \in Range(queue'[v]) : calls'[d].step = "queued" /\ (OfPage(d)' => Owner[calls'[d].key] = v)
    BY <1>2, <1>3, <2>0, <2>2 DEF InLine
  <2>5. \A n \in 1..MaxLogins : \A d \in Range(waiters'[n]) :
          /\ calls'[d].step = "waiting" /\ Pending(n)'
          /\ OfPage(d)' => Owner[calls'[d].key] = opening'[n].user
    BY <1>2, <1>3, <2>0, <2>3 DEF InLine, Pending, State
  <2>6. \A d \in Calls :
          /\ calls'[d].step = "queued" => \E u \in Users : d \in Range(queue'[u])
          /\ calls'[d].step = "waiting" => \E n \in 1..MaxLogins : d \in Range(waiters'[n])
          /\ calls'[d].step = "stored" => calls'[d].op = "set"
          /\ calls'[d].step = "read" => calls'[d].op = "get"
    BY <1>2, <2>0 DEF InLine
  <2>7. InLine'
    BY <2>4, <2>5, <2>6 DEF InLine
  <2> QED
    BY <2>7 DEF InLine, LineInv, Range
<1>6. OrderInv'
  <2>1. \A v \in Users : Rest(queue'[v], queue[v])
    BY <1>1, <1>2, RestItself DEF TypeOK
  <2>2. \A n \in 1..MaxLogins : Rest(waiters'[n], waiters[n])
    BY <1>1, <1>2, RestItself DEF TypeOK
  <2>3. \A n \in 1..MaxLogins : Range(waiters'[n]) # {} => opening'[n].user = opening[n].user
    BY <1>2
  <2>4. \A d \in Calls : OfPage(d)' => OfPage(d) /\ calls'[d].key = calls[d].key
    BY <1>3
  <2>5. \A d \in Calls : OfPage(d)' /\ calls'[d].step \in {"queued", "read"} => calls[d].step \in {"queued", "read"}
    BY <1>3
  <2> QED
    BY <1>1, <2>1, <2>2, <2>3, <2>4, <2>5, OrderStays
<1> QED
  BY <1>4, <1>5, <1>6

\* While a call that writes nothing goes a step, what is still to be written stays the same.
LEMMA CopiesStay ==
  ASSUME IInv, NEW c \in Calls, calls[c].step \notin {"waiting", "queued"},
         calls'[c].step \in {"waiting", "queued"} => ~Writes(calls'[c]),
         \A d \in Calls : d # c => calls'[d] = calls[d],
         UNCHANGED <<version, disk, last, missed, current>>,
         current # 0 => Range(waiters[current]) \subseteq Range(waiters'[current])
                        /\ Range(waiters'[current]) \subseteq Range(waiters[current]) \union {c},
         \A j \in Keys : j \notin missed \/ WaitsHere(j) => memory'[j] \in {None, last[j]}
  PROVE  CopyInv'
<1>1. TypeOK /\ LineInv /\ CopyInv
  BY DEF IInv
<1>2. \A d \in Calls, j \in Keys : Unwritten(d, j)' <=> Unwritten(d, j)
  <2> TAKE d \in Calls, j \in Keys
  <2>1. CASE d = c
    BY <2>1 DEF Unwritten
  <2>2. CASE d # c
    BY <2>2 DEF Unwritten
  <2> QED
    BY <2>1, <2>2
<1>3. \A d \in Calls : d # c => (IsLatest(d)' <=> IsLatest(d))
  BY DEF IsLatest
<1>4. current # 0 => \A e \in Range(waiters[current]) : e \in Calls /\ e # c
  <2> HAVE current # 0
  <2>1. current \in 1..MaxLogins
    BY <1>1, DoorTypes
  <2> QED
    BY <1>1, <2>1, LineCalls
<1> SUFFICES ASSUME NEW j \in Keys
             PROVE  /\ WaitsHere(j)' => \E e \in Range(waiters'[current']) : Unwritten(e, j)' /\ IsLatest(e)'
                    /\ j \notin missed' =>
                         \/ \E e \in Calls : Unwritten(e, j)' /\ IsLatest(e)'
                         \/ (\A e \in Calls : ~Unwritten(e, j)') /\ disk'[j] \in {None, last'[j]}
                    /\ j \notin missed' \/ WaitsHere(j)' => memory'[j] \in {None, last'[j]}
  BY DEF CopyInv
<1>5. ~Unwritten(c, j)
  BY DEF Unwritten
<1>6. WaitsHere(j)' <=> WaitsHere(j)
  BY <1>2, <1>4, <1>5 DEF WaitsHere
<1>7. WaitsHere(j) => \E e \in Range(waiters'[current']) : Unwritten(e, j)' /\ IsLatest(e)'
  <2> HAVE WaitsHere(j)
  <2>1. PICK e \in Range(waiters[current]) : Unwritten(e, j) /\ IsLatest(e)
    BY <1>1 DEF CopyInv
  <2>2. current # 0 /\ e \in Calls /\ e # c
    BY <1>4, <2>1 DEF WaitsHere
  <2> QED
    BY <1>2, <1>3, <2>1, <2>2
<1>8. ASSUME j \notin missed
      PROVE  \/ \E e \in Calls : Unwritten(e, j)' /\ IsLatest(e)'
             \/ (\A e \in Calls : ~Unwritten(e, j)') /\ disk'[j] \in {None, last'[j]}
  <2>1. CASE \E e \in Calls : Unwritten(e, j) /\ IsLatest(e)
    BY <1>2, <1>3, <1>5, <2>1
  <2>2. CASE (\A e \in Calls : ~Unwritten(e, j)) /\ disk[j] \in {None, last[j]}
    BY <1>2, <2>2
  <2> QED
    BY <1>1, <1>8, <2>1, <2>2 DEF CopyInv
<1> QED
  BY <1>6, <1>7, <1>8

\* A read goes on: it puts into memory what was last written, and answers what its page stood for.
LEMMA FinishGetKeeps ==
  ASSUME IInv, NEW c \in Calls, FinishGet(c)
  PROVE  IInv'
<1>1. TypeOK /\ LruIsSound /\ LineInv /\ DoorInv /\ OrderInv /\ VersionInv /\ CopyInv /\ ReadInv /\ AnswersAreCurrent
  BY DEF IInv
<1>2. calls[c].step = "read" /\ Busy(c) /\ calls[c].op = "get" /\ OfPage(c)
  BY <1>1 DEF FinishGet, Busy, Steps, LineInv, OfPage
<1>3. calls[c] \in CallsUnderWay
  BY <1>1, <1>2, AnswerIs
<1>4. PICK k \in Keys : k = calls[c].key
  BY <1>3 DEF CallsUnderWay
<1>5. calls[c].blob \in Blobs \union {None}
  BY <1>3 DEF CallsUnderWay
<1>6. /\ seen' = [seen EXCEPT ![c] = {}]
      /\ UNCHANGED <<version, store, door, waiters, last, missed>>
      /\ \/ calls[c].blob = None /\ calls' = [calls EXCEPT ![c] = Answer(c, None)] /\ UNCHANGED lru
         \/ /\ calls[c].blob # None /\ NothingCameBetween(c)
            /\ calls' = [calls EXCEPT ![c] = Answer(c, calls[c].blob)] /\ SetToMemory(k, calls[c].blob)
         \/ calls' = [calls EXCEPT ![c] = Answer(c, memory[k])] /\ GetFromMemory(k)
  BY <1>4 DEF FinishGet
<1>7. Meanings(k, last, missed) \subseteq seen[c] /\ last[k] \in Blobs \union {None} /\ memory[k] \in Blobs \union {None}
  BY <1>1, <1>2, <1>4 DEF ReadInv, TypeOK
<1>8. last[k] \in seen[c] /\ (k \in missed => Blobs \union {None} \subseteq seen[c])
  BY <1>7, MeaningTypes
<1>9. NothingCameBetween(c) => calls[c].blob \in seen[c] \union {None}
  BY <1>1, <1>2, <1>4, <1>5, <1>8 DEF ReadInv
<1>10. memory[k] \in seen[c] \union {None}
  BY <1>1, <1>7, <1>8 DEF CopyInv
<1>11. \E x \in CallStates : calls' = [calls EXCEPT ![c] = x] /\ x.step = "done" /\ x.true
  <2>1. \A b : b \in seen[c] \union {None} => Answer(c, b) \in CallStates /\ Answer(c, b).step = "done" /\ Answer(c, b).true
    BY <1>1, <1>2, AnswerIs, CallKindsOf
  <2> QED
    BY <1>6, <1>9, <1>10, <2>1
<1>12. /\ calls' \in [Calls -> CallStates] /\ calls'[c].step = "done" /\ calls'[c].true
       /\ \A d \in Calls : d # c => calls'[d] = calls[d]
  BY <1>1, <1>11 DEF TypeOK
<1>13. /\ LruIsSound' /\ memory' \in [Keys -> Blobs \union {None}] /\ order' \in Seq(Keys)
       /\ \A j \in Keys : memory'[j] \in {memory[j], None} \/ (j = k /\ NothingCameBetween(c) /\ memory'[j] \in {calls[c].blob, None})
  <2>1. memory \in [Keys -> Blobs \union {None}] /\ order \in Seq(Keys)
    BY <1>1 DEF TypeOK
  <2>2. CASE UNCHANGED lru
    BY <1>1, <2>1, <2>2 DEF LruIsSound, InMemory, lru
  <2>3. CASE calls[c].blob # None /\ NothingCameBetween(c) /\ SetToMemory(k, calls[c].blob)
    <3>1. calls[c].blob \in Blobs
      BY <1>5, <2>3
    <3>2. /\ LruIsSound' /\ memory' \in [Keys -> Blobs \union {None}] /\ order' \in Seq(Keys)
          /\ \A j \in Keys : memory'[j] \in {IF j = k THEN calls[c].blob ELSE memory[j], None}
      BY <1>1, <2>3, <3>1, MemorySet
    <3> QED
      BY <2>3, <3>2
  <2>4. CASE GetFromMemory(k)
    BY <1>1, <2>1, <2>4, MemoryRead
  <2> QED
    BY <1>6, <2>2, <2>3, <2>4
<1>14. TypeOK'
  <2>1. seen' \in [Calls -> SUBSET (Blobs \union {None})]
    BY <1>1, <1>6 DEF TypeOK
  <2> QED
    BY <1>1, <1>6, <1>12, <1>13, <2>1 DEF TypeOK, store, records, door
<1>15. LineInv' /\ OrderInv' /\ DoorInv'
  BY <1>2, <1>6, <1>12, <1>14, EndsApart DEF store
<1>16. \A d \in Calls : Busy(d)' => d # c /\ calls'[d] = calls[d] /\ Busy(d)
  BY <1>12 DEF Busy, Steps
<1>17. \A d \in Calls : OfPage(d)' => d # c /\ OfPage(d) /\ calls'[d] = calls[d]
  BY <1>16 DEF OfPage
<1>18. VersionInv'
  <2>1. \A d \in Calls : calls'[d] = NoCall <=> calls[d] = NoCall
    BY <1>2, <1>12 DEF NoCall
  <2> QED
    BY <1>1, <1>6, <1>17, <2>1, VersionStays
<1>19. AnswersAreCurrent'
  BY <1>1, <1>12 DEF AnswersAreCurrent, Ended
<1>20. CopyInv'
  <2>1. UNCHANGED <<version, disk, last, missed, current>> /\ waiters' = waiters
    BY <1>6 DEF door, store, records
  <2>2. ASSUME NEW j \in Keys, j \notin missed \/ WaitsHere(j)
        PROVE  memory'[j] \in {None, last[j]}
    <3>1. memory[j] \in {None, last[j]}
      BY <1>1, <2>2 DEF CopyInv
    <3>2. ASSUME j = k, NothingCameBetween(c)
          PROVE  calls[c].blob \in {None, last[j]}
      <4>1. ~WaitsHere(k)
        BY <1>2, <1>4, <3>2, ReadIsOld
      <4> QED
        BY <1>1, <1>2, <1>4, <2>2, <3>2, <4>1 DEF ReadInv
    <3> QED
      BY <1>13, <3>1, <3>2
  <2> QED
    BY <1>2, <1>12, <2>1, <2>2, CopiesStay
<1>21. ReadInv'
  <2>1. last' = last /\ missed' = missed /\ version' = version
    BY <1>6
  <2>2. ASSUME NEW d \in Calls, calls'[d].step = "read", calls'[d].key \notin missed', NothingCameBetween(d)'
        PROVE  calls'[d].blob \in {None, last'[calls'[d].key]}
    <3>1. calls'[d] = calls[d]
      BY <1>12, <2>2
    <3> QED
      BY <1>1, <2>1, <2>2, <3>1 DEF ReadInv, NothingCameBetween
  <2>3. ASSUME NEW d \in Calls, Busy(d)', calls'[d].op = "get"
        PROVE  Meanings(calls'[d].key, last', missed') \subseteq seen'[d]
    <3>1. d # c /\ Busy(d) /\ calls'[d] = calls[d]
      BY <1>16, <2>3
    <3>2. seen'[d] = seen[d]
      BY <1>1, <1>6, <3>1 DEF TypeOK
    <3> QED
      BY <1>1, <2>1, <2>3, <3>1, <3>2 DEF ReadInv
  <2> QED
    BY <2>2, <2>3 DEF ReadInv
<1> QED
  BY <1>13, <1>14, <1>15, <1>18, <1>19, <1>20, <1>21 DEF IInv

(***************************************************************************)
(* Calls that ask for the database                                         *)
(***************************************************************************)
\* Who waits for the current opening waits for one that is still opening, and nobody waits for
\* an earlier one of a user whose database is open.
LEMMA WaitsAtDoor ==
  ASSUME TypeOK, LineInv, DoorInv
  PROVE  /\ current # 0 /\ waiters[current] # <<>> => StillOpening
         /\ \A n \in 1..MaxLogins : waiters[n] # <<>> =>
              /\ n \in DOMAIN opening /\ (current # 0 => n <= current)
              /\ DbReady => opening[n].user # User
<1>1. DOMAIN opening = 1..Len(opening) /\ Len(opening) \in Nat
  BY DoorTypes
<1>2. current # 0 => current \in 1..MaxLogins /\ current \in DOMAIN opening /\ current = Len(opening) /\ User = opening[current].user
  BY DoorTypes
<1>3. ASSUME current # 0, waiters[current] # <<>>
      PROVE  StillOpening
  <2>1. Pending(current)
    BY <1>2, <1>3, NobodyWaits
  <2>2. ~blocked
    BY <1>3 DEF DoorInv
  <2> QED
    BY <1>3, <2>1, <2>2 DEF StillOpening, Pending
<1>4. ASSUME NEW n \in 1..MaxLogins, waiters[n] # <<>>
      PROVE  n \in DOMAIN opening /\ Pending(n) /\ (current # 0 => n <= current)
  <2>1. n \in DOMAIN opening /\ Pending(n)
    BY <1>4, NobodyWaits
  <2> QED
    BY <1>1, <1>2, <2>1
<1>5. ASSUME NEW n \in 1..MaxLogins, waiters[n] # <<>>, DbReady
      PROVE  opening[n].user # User
  <2>1. current # 0 /\ State(current) = "open"
    BY <1>5 DEF DbReady
  <2>2. ~Pending(current)
    BY <2>1 DEF Pending
  <2>3. n < current
    BY <1>1, <1>2, <1>4, <1>5, <2>1, <2>2
  <2> QED
    BY <1>2, <1>4, <1>5, <2>1, <2>2, <2>3 DEF DoorInv
<1> QED
  BY <1>3, <1>4, <1>5

\* A call that asks for the database is last of all: of the line it joins, and of those of its user.
LEMMA JoinLines ==
  ASSUME IInv, TypeOK', NEW c \in Calls, NEW call \in CallsToMake, AskForDB(c, call), UNCHANGED door,
         calls[c].step \notin {"waiting", "queued"},
         call.op # "evict" => Owner[call.key] = User /\ \A d \in Calls : OfPage(d) /\ d # c => d < c
  PROVE  LineInv' /\ OrderInv' /\ DoorInv'
<1>1. TypeOK /\ LineInv /\ DoorInv /\ OrderInv
  BY DEF IInv
<1>2. PICK x \in CallStates :
           /\ calls' = [calls EXCEPT ![c] = x]
           /\ x.step \in Steps => x.op = call.op /\ x.key = call.key /\ x.version = call.version
           /\ \/ /\ DbReady /\ x.step = "queued"
                 /\ queue' = [queue EXCEPT ![User] = Append(@, c)] /\ waiters' = waiters
              \/ /\ StillOpening /\ x.step = "waiting"
                 /\ waiters' = [waiters EXCEPT ![current] = Append(@, c)] /\ queue' = queue
              \/ /\ ~DbReady /\ ~StillOpening /\ x.step = "done"
                 /\ queue' = queue /\ waiters' = waiters
  BY <1>1, AskCases
<1>3. calls'[c] = x /\ \A d \in Calls : d # c => calls'[d] = calls[d]
  BY <1>1, <1>2 DEF TypeOK
<1>4. queue \in [Users -> Seq(Calls)] /\ waiters \in [1..MaxLogins -> Seq(Calls)]
  BY <1>1 DEF TypeOK
<1>5. opening' = opening /\ current' = current /\ blocked' = blocked
  BY DEF door
<1>6. /\ \A v \in Users : \A d \in Range(queue[v]) : d \in Calls /\ d # c
      /\ \A n \in 1..MaxLogins : \A d \in Range(waiters[n]) : d \in Calls /\ d # c
  BY <1>1, LineCalls
<1>7. \A d \in Calls : d # c => (OfPage(d)' <=> OfPage(d))
  BY <1>3 DEF OfPage, Busy
<1>8. OfPage(c)' => /\ x.key = call.key /\ Owner[call.key] = User
                    /\ \A d \in Calls : OfPage(d) /\ d # c => d < c
  BY <1>2, <1>3 DEF OfPage, Busy
<1>9. Pages' \ {c} = Pages \ {c} /\ Pages' \subseteq Calls /\ (c \in Pages' => \A d \in Pages' : d # c => d < c)
  BY <1>7, <1>8 DEF Pages
<1>10. \A s \in Seq(Calls) : c \notin Range(s) /\ InOrder(s) => Ordered(s, Pages')
  <2> TAKE s \in Seq(Calls)
  <2> HAVE c \notin Range(s) /\ InOrder(s)
  <2>1. Ordered(s, Pages)
    BY OrderedIs
  <2>2. \A i \in DOMAIN s : s[i] # c
    BY DEF Range
  <2> QED
    BY <1>9, <2>1, <2>2 DEF Ordered
<1>11. \A s \in Seq(Calls) : Once(s) /\ InOrder(s) /\ (\A d \in Range(s) : d \in Calls /\ d # c) =>
         /\ Once(s) /\ Ordered(s, Pages')
         /\ Append(s, c) \in Seq(Calls) /\ Once(Append(s, c)) /\ Ordered(Append(s, c), Pages')
         /\ Range(Append(s, c)) = Range(s) \union {c}
  <2> TAKE s \in Seq(Calls)
  <2> HAVE Once(s) /\ InOrder(s) /\ (\A d \in Range(s) : d \in Calls /\ d # c)
  <2>1. c \notin Range(s) /\ Ordered(s, Pages')
    BY <1>10
  <2>2. c \in Pages' => \A y \in Range(s) \cap Pages' : y < c
    BY <1>9, <2>1
  <2> QED
    BY <2>1, <2>2, AppendLaws
<1>12. /\ \A v \in Users : /\ Once(queue'[v]) /\ Ordered(queue'[v], Pages')
                           /\ Range(queue'[v]) = Range(queue[v]) \union (IF DbReady /\ v = User THEN {c} ELSE {})
       /\ \A n \in 1..MaxLogins : /\ Once(waiters'[n]) /\ Ordered(waiters'[n], Pages')
                                  /\ Range(waiters'[n]) = Range(waiters[n]) \union (IF StillOpening /\ n = current THEN {c} ELSE {})
  <2>1. \A v \in Users : /\ queue[v] \in Seq(Calls) /\ Once(queue[v]) /\ InOrder(queue[v])
                         /\ \A d \in Range(queue[v]) : d \in Calls /\ d # c
    BY <1>1, <1>4, <1>6 DEF OrderInv
  <2>2. \A n \in 1..MaxLogins : /\ waiters[n] \in Seq(Calls) /\ Once(waiters[n]) /\ InOrder(waiters[n])
                                /\ \A d \in Range(waiters[n]) : d \in Calls /\ d # c
    BY <1>1, <1>4, <1>6 DEF OrderInv
  <2>3. ~(DbReady /\ StillOpening)
    BY DEF DbReady, StillOpening
  <2>4. ASSUME NEW v \in Users
        PROVE  /\ Once(queue'[v]) /\ Ordered(queue'[v], Pages')
               /\ Range(queue'[v]) = Range(queue[v]) \union (IF DbReady /\ v = User THEN {c} ELSE {})
    <3>1. CASE DbReady /\ v = User
      <4>1. queue'[v] = Append(queue[v], c)
        BY <1>2, <1>4, <2>3, <3>1
      <4> QED
        BY <1>11, <2>1, <3>1, <4>1
    <3>2. CASE ~(DbReady /\ v = User)
      <4>1. queue'[v] = queue[v]
        BY <1>2, <1>4, <3>2
      <4> QED
        BY <1>11, <2>1, <3>2, <4>1
    <3> QED
      BY <3>1, <3>2
  <2>5. ASSUME NEW n \in 1..MaxLogins
        PROVE  /\ Once(waiters'[n]) /\ Ordered(waiters'[n], Pages')
               /\ Range(waiters'[n]) = Range(waiters[n]) \union (IF StillOpening /\ n = current THEN {c} ELSE {})
    <3>1. CASE StillOpening /\ n = current
      <4>1. waiters'[n] = Append(waiters[n], c)
        BY <1>2, <1>4, <2>3, <3>1
      <4> QED
        BY <1>11, <2>2, <3>1, <4>1
    <3>2. CASE ~(StillOpening /\ n = current)
      <4>1. waiters'[n] = waiters[n]
        BY <1>2, <1>4, <3>2
      <4> QED
        BY <1>11, <2>2, <3>2, <4>1
    <3> QED
      BY <3>1, <3>2
  <2> QED
    BY <2>4, <2>5
<1>13. \A v \in Users : \A d \in Range(queue'[v]) : d # c => d \in Range(queue[v]) /\ d \in Calls
  BY <1>6, <1>12
<1>14. \A n \in 1..MaxLogins : \A d \in Range(waiters'[n]) : d # c => d \in Range(waiters[n]) /\ d \in Calls
  BY <1>6, <1>12
<1>15. \A v \in Users : c \in Range(queue'[v]) => DbReady /\ v = User /\ x.step = "queued"
  BY <1>2, <1>6, <1>12 DEF DbReady, StillOpening
<1>16. \A n \in 1..MaxLogins : c \in Range(waiters'[n]) => StillOpening /\ n = current /\ x.step = "waiting"
  BY <1>2, <1>6, <1>12 DEF DbReady, StillOpening
<1>17. current # 0 => current \in 1..MaxLogins /\ current \in DOMAIN opening /\ User = opening[current].user /\ User \in Users
  BY <1>1, DoorTypes
<1>18. LineInv'
  <2>0. InLine
    BY <1>1, InLineIs
  <2>1. ASSUME NEW v \in Users, NEW d \in Range(queue'[v])
        PROVE  calls'[d].step = "queued" /\ (OfPage(d)' => Owner[calls'[d].key] = v)
    <3>1. CASE d = c
      BY <1>3, <1>8, <1>15, <2>1, <3>1
    <3>2. CASE d # c
      BY <1>3, <1>7, <1>13, <2>0, <2>1, <3>2 DEF InLine
    <3> QED
      BY <3>1, <3>2
  <2>2. ASSUME NEW n \in 1..MaxLogins, NEW d \in Range(waiters'[n])
        PROVE  /\ calls'[d].step = "waiting" /\ Pending(n)'
               /\ OfPage(d)' => Owner[calls'[d].key] = opening'[n].user
    <3>1. CASE d = c
      <4>1. StillOpening /\ n = current /\ x.step = "waiting"
        BY <1>16, <2>2, <3>1
      <4>2. current # 0
        BY <4>1 DEF StillOpening
      <4>3. Pending(n)
        BY <1>17, <4>1, <4>2 DEF StillOpening, Pending
      <4> QED
        BY <1>3, <1>5, <1>8, <1>17, <3>1, <4>1, <4>2, <4>3 DEF Pending, State
    <3>2. CASE d # c
      BY <1>3, <1>5, <1>7, <1>14, <2>0, <2>2, <3>2 DEF InLine, Pending, State
    <3> QED
      BY <3>1, <3>2
  <2>3. ASSUME NEW d \in Calls, calls'[d].step = "queued"
        PROVE  \E v \in Users : d \in Range(queue'[v])
    <3>1. CASE d = c
      <4>1. DbReady
        BY <1>2, <1>3, <2>3, <3>1
      <4>2. User \in Users
        BY <1>17, <4>1 DEF DbReady
      <4> QED
        BY <1>12, <3>1, <4>1, <4>2
    <3>2. CASE d # c
      BY <1>3, <1>12, <2>0, <2>3, <3>2 DEF InLine
    <3> QED
      BY <3>1, <3>2
  <2>4. ASSUME NEW d \in Calls, calls'[d].step = "waiting"
        PROVE  \E n \in 1..MaxLogins : d \in Range(waiters'[n])
    <3>1. CASE d = c
      <4>1. StillOpening
        BY <1>2, <1>3, <2>4, <3>1
      <4>2. current \in 1..MaxLogins
        BY <1>17, <4>1 DEF StillOpening
      <4> QED
        BY <1>12, <3>1, <4>1, <4>2
    <3>2. CASE d # c
      BY <1>3, <1>12, <2>0, <2>4, <3>2 DEF InLine
    <3> QED
      BY <3>1, <3>2
  <2>5. \A d \in Calls : /\ calls'[d].step = "stored" => calls'[d].op = "set"
                         /\ calls'[d].step = "read" => calls'[d].op = "get"
    BY <1>2, <1>3, <2>0 DEF InLine
  <2>6. InLine'
    BY <2>1, <2>2, <2>3, <2>4, <2>5 DEF InLine
  <2> QED
    BY <2>6 DEF InLine, LineInv, Range
<1>19. DoorInv'
  <2>1. \A n, m \in DOMAIN opening' : n < m /\ opening'[n].user = opening'[m].user /\ Pending(n)' => Pending(m)'
    BY <1>1, <1>5 DEF DoorInv, Pending, State
  <2>2. blocked' /\ current' # 0 => waiters'[current'] = <<>>
    <3> HAVE blocked' /\ current' # 0
    <3>1. ~StillOpening /\ waiters[current] = <<>>
      BY <1>1, <1>5 DEF StillOpening, DoorInv
    <3> QED
      BY <1>2, <1>5, <3>1
  <2> QED
    BY <2>1, <2>2 DEF DoorInv
<1>20. OrderInv'
  <2>1. \A v \in Users : Once(queue[v])' /\ InOrder(queue[v])'
    <3>1. \A v \in Users : queue'[v] \in Seq(Calls)
      BY DEF TypeOK
    <3> QED
      BY <1>12, <3>1 DEF InOrder, Ordered, Pages, Once
  <2>2. \A n \in 1..MaxLogins : Once(waiters[n])' /\ InOrder(waiters[n])'
    <3>1. \A n \in 1..MaxLogins : waiters'[n] \in Seq(Calls)
      BY DEF TypeOK
    <3> QED
      BY <1>12, <3>1 DEF InOrder, Ordered, Pages, Once
  <2>3. \A v, w \in Users : v # w => Range(queue'[v]) \cap Range(queue'[w]) = {}
    BY <1>1, <1>13, <1>15, LinesApart
  <2>4. \A n, m \in 1..MaxLogins : n # m => Range(waiters'[n]) \cap Range(waiters'[m]) = {}
    BY <1>1, <1>14, <1>16, LinesApart
  <2>5. ASSUME NEW n \in 1..MaxLogins, NEW d \in Range(waiters'[n]), NEW e \in Calls,
               OfPage(e)', OfPage(d)', calls'[e].step \in {"queued", "read"}, Owner[calls'[e].key] = opening'[n].user
        PROVE  e < d
    <3>1. CASE d = c
      <4>1. x.step = "waiting"
        BY <1>16, <2>5, <3>1
      <4>2. e # c
        BY <1>3, <2>5, <4>1
      <4> QED
        BY <1>7, <1>8, <2>5, <3>1, <4>2
    <3>2. CASE d # c /\ e = c
      <4>1. DbReady
        BY <1>2, <1>3, <2>5, <3>2
      <4>2. opening[n].user = User
        BY <1>3, <1>5, <1>8, <2>5, <3>2
      <4>3. waiters[n] # <<>>
        BY <1>14, <2>5, <3>2 DEF Range
      <4> QED
        BY <1>1, <4>1, <4>2, <4>3, WaitsAtDoor
    <3>3. CASE d # c /\ e # c
      <4>1. d \in Range(waiters[n]) /\ d \in Calls
        BY <1>14, <2>5, <3>3
      <4> QED
        BY <1>1, <1>3, <1>5, <1>7, <2>5, <3>3, <4>1 DEF OrderInv
    <3> QED
      BY <3>1, <3>2, <3>3
  <2>6. ASSUME NEW n \in 1..MaxLogins, NEW m \in 1..MaxLogins, NEW e \in Range(waiters'[n]), NEW d \in Range(waiters'[m]),
               n < m, opening'[n].user = opening'[m].user, OfPage(e)', OfPage(d)'
        PROVE  e < d
    <3>0. n \in Int /\ m \in Int
      OBVIOUS
    <3>1. CASE d = c
      <4>1. e # c
        <5>1. e = c => n = current
          BY <1>16, <2>6
        <5>2. m = current
          BY <1>16, <2>6, <3>1
        <5> QED
          BY <2>6, <3>0, <5>1, <5>2
      <4>2. e \in Calls
        BY <1>14, <2>6, <4>1
      <4> QED
        BY <1>7, <1>8, <2>6, <3>1, <4>1, <4>2
    <3>2. CASE d # c /\ e = c
      <4>1. n = current /\ StillOpening
        BY <1>16, <2>6, <3>2
      <4>2. waiters[m] # <<>>
        BY <1>14, <2>6, <3>2 DEF Range
      <4>3. m <= current
        BY <1>1, <4>1, <4>2, WaitsAtDoor DEF StillOpening
      <4> QED
        BY <2>6, <3>0, <4>1, <4>3
    <3>3. CASE d # c /\ e # c
      <4>1. d \in Range(waiters[m]) /\ d \in Calls /\ e \in Range(waiters[n]) /\ e \in Calls
        BY <1>14, <2>6, <3>3
      <4> QED
        BY <1>1, <1>5, <1>7, <2>6, <3>3, <4>1 DEF OrderInv
    <3> QED
      BY <3>1, <3>2, <3>3
  <2> QED
    BY <2>1, <2>2, <2>3, <2>4, <2>5, <2>6 DEF OrderInv
<1> QED
  BY <1>18, <1>19, <1>20

\* A call that is made comes after all the others.
LEMMA MadeLast ==
  ASSUME IInv, NEW c \in Calls, NEW k \in Keys, MayCall(c, k)
  PROVE  /\ calls[c] = NoCall /\ calls[c].step = "none" /\ ~OfPage(c)
         /\ \A d \in Calls : calls[d] # NoCall => d # c /\ d < c
         /\ \A d \in Calls : OfPage(d) => d # c /\ d < c
<1>1. calls[c] = NoCall /\ calls[c].step = "none"
  BY DEF MayCall, NoCall
<1>2. ~OfPage(c)
  BY <1>1 DEF OfPage, Busy, Steps
<1>3. ASSUME NEW d \in Calls, calls[d] # NoCall
      PROVE  d # c /\ d < c
  <2>1. d # c /\ ~(c < d)
    BY <1>1, <1>3 DEF IInv, VersionInv
  <2>2. c \in Nat /\ d \in Nat
    BY CacheAssumption
  <2> QED
    BY <2>1, <2>2
<1>4. \A d \in Calls : OfPage(d) => calls[d] # NoCall
  BY DEF OfPage, Busy, NoCall, Steps
<1> QED
  BY <1>1, <1>2, <1>3, <1>4

\* What a call that is made leaves in the version and in what was last written.
MadeVersion(op, c, k) ==
  \/ op = "get" /\ UNCHANGED <<version, last>>
  \/ /\ op \in {"set", "delete"}
     /\ version' = BumpVersion(k) /\ last' = [last EXCEPT ![k] = IF op = "set" THEN c ELSE None]

\* A call that is made has the version of its key, and every write a version of its own.
LEMMA MadeVersions ==
  ASSUME IInv, NEW c \in Calls, NEW k \in Keys, MayCall(c, k), NEW op \in {"get", "set", "delete"},
         NEW x \in CallStates, x # NoCall, calls' = [calls EXCEPT ![c] = x],
         x.step \in Steps => x.op = op /\ x.key = k /\ x.version = version[k],
         MadeVersion(op, c, k)
  PROVE  VersionInv'
<1>1. TypeOK /\ VersionInv
  BY DEF IInv
<1>2. calls'[c] = x /\ \A d \in Calls : d # c => calls'[d] = calls[d]
  BY <1>1 DEF TypeOK
<1>3. \A d \in Calls : calls[d] # NoCall => d # c /\ d < c
  BY MadeLast
<1>4. version \in [Keys -> Nat] /\ last \in [Keys -> Blobs \union {None}]
  BY <1>1 DEF TypeOK
<1>5. \A j \in Keys : /\ version[j] \in Nat /\ version'[j] \in Nat /\ version[j] <= version'[j]
                      /\ j # k \/ op = "get" => version'[j] = version[j] /\ last'[j] = last[j]
  BY <1>4 DEF MadeVersion, BumpVersion
<1>6. op # "get" => /\ version'[k] = version[k] + 1
                    /\ last'[k] = IF op = "set" THEN c ELSE None
  BY <1>4 DEF MadeVersion, BumpVersion
<1>7. \A d \in Calls : d # c => (OfPage(d)' <=> OfPage(d))
  BY <1>2 DEF OfPage, Busy
<1>8. OfPage(c)' => x.op = op /\ x.key = k /\ x.version = version[k]
  BY <1>2 DEF OfPage, Busy
<1>9. \A d \in Calls : OfPage(d) => calls[d].key \in Keys /\ calls[d].version \in Nat /\ calls[d] # NoCall
  <2> TAKE d \in Calls
  <2> HAVE OfPage(d)
  <2>1. calls[d] \in CallsUnderWay
    BY <1>1, AnswerIs DEF OfPage
  <2> QED
    BY <2>1 DEF CallsUnderWay, NoCall, OfPage, Busy, Steps
<1>10. Calls \subseteq Nat
  BY CacheAssumption
<1>11. \A a, d \in Calls : a < d /\ calls'[d] # NoCall => calls'[a] # NoCall
  <2> TAKE a, d \in Calls
  <2> HAVE a < d /\ calls'[d] # NoCall
  <2>1. CASE a = c
    BY <1>2, <2>1
  <2>2. CASE a # c /\ d = c
    BY <1>2, <2>2 DEF MayCall
  <2>3. CASE a # c /\ d # c
    BY <1>1, <1>2, <2>3 DEF VersionInv
  <2> QED
    BY <2>1, <2>2, <2>3
<1>12. ASSUME NEW a \in Calls, OfPage(a)'
       PROVE  /\ calls'[a].version <= version'[calls'[a].key]
              /\ Writes(calls'[a]) =>
                   /\ calls'[a].version < version'[calls'[a].key]
                   /\ calls'[a].version + 1 = version'[calls'[a].key]
                      => last'[calls'[a].key] = IF calls'[a].op = "set" THEN a ELSE None
  <2>1. CASE a = c
    <3>1. x.op = op /\ x.key = k /\ x.version = version[k] /\ calls'[a] = x
      BY <1>2, <1>8, <1>12, <2>1
    <3>2. Writes(x) => op # "get"
      BY <3>1 DEF Writes
    <3> QED
      BY <1>5, <1>6, <2>1, <3>1, <3>2
  <2>2. CASE a # c
    <3>1. OfPage(a) /\ calls'[a] = calls[a] /\ calls[a].key \in Keys /\ calls[a].version \in Nat
      BY <1>2, <1>7, <1>9, <1>12, <2>2
    <3>2. calls[a].version <= version[calls[a].key]
      BY <1>1, <3>1 DEF VersionInv
    <3>3. calls[a].version <= version'[calls[a].key]
      BY <1>5, <3>1, <3>2
    <3>4. ASSUME Writes(calls[a])
          PROVE  /\ calls[a].version < version'[calls[a].key]
                 /\ calls[a].version + 1 = version'[calls[a].key]
                    => last'[calls[a].key] = IF calls[a].op = "set" THEN a ELSE None
      <4>1. /\ calls[a].version < version[calls[a].key]
            /\ calls[a].version + 1 = version[calls[a].key]
               => last[calls[a].key] = IF calls[a].op = "set" THEN a ELSE None
        BY <1>1, <3>1, <3>4 DEF VersionInv, IsLatest
      <4>2. CASE calls[a].key # k \/ op = "get"
        BY <1>5, <3>1, <4>1, <4>2
      <4>3. CASE calls[a].key = k /\ op # "get"
        BY <1>5, <1>6, <3>1, <4>1, <4>3
      <4> QED
        BY <4>2, <4>3
    <3> QED
      BY <3>1, <3>3, <3>4
  <2> QED
    BY <2>1, <2>2
<1>13. ASSUME NEW a \in Calls, NEW d \in Calls, a < d, OfPage(a)', OfPage(d)', calls'[a].key = calls'[d].key
       PROVE  /\ calls'[a].version <= calls'[d].version
              /\ Writes(calls'[a]) => calls'[a].version < calls'[d].version
  <2>1. a # c
    <3> SUFFICES ASSUME a = c PROVE FALSE
      OBVIOUS
    <3>1. d # c
      BY <1>10, <1>13
    <3>2. OfPage(d)
      BY <1>7, <1>13, <3>1
    <3>3. d < c
      BY <1>3, <1>9, <3>2
    <3> QED
      BY <1>10, <1>13, <3>3
  <2>2. OfPage(a) /\ calls'[a] = calls[a]
    BY <1>2, <1>7, <1>13, <2>1
  <2>3. CASE d = c
    <3>1. calls'[d].version = version[k] /\ calls[a].key = k
      BY <1>2, <1>8, <1>13, <2>2, <2>3
    <3> QED
      BY <1>1, <2>2, <3>1 DEF VersionInv
  <2>4. CASE d # c
    <3>1. OfPage(d) /\ calls'[d] = calls[d]
      BY <1>2, <1>7, <1>13, <2>4
    <3> QED
      BY <1>1, <1>13, <2>2, <3>1 DEF VersionInv
  <2> QED
    BY <2>3, <2>4
<1> QED
  BY <1>11, <1>12, <1>13 DEF VersionInv, IsLatest

\* A write that is made is the latest of its key: memory has what it leaves, and the disk will.
LEMMA MadeCopies ==
  ASSUME IInv, NEW c \in Calls, NEW k \in Keys, MayCall(c, k), NEW op \in {"set", "delete"},
         AskForDB(c, NewCall(op, c, k)), UNCHANGED <<disk, door>>, MadeVersion(op, c, k),
         \A j \in Keys : memory'[j] \in {IF j = k THEN last'[k] ELSE memory[j], None}
  PROVE  CopyInv'
<1>1. TypeOK /\ LineInv /\ DoorInv /\ CopyInv
  BY DEF IInv
<1>2. /\ calls[c] = NoCall /\ calls[c].step = "none"
      /\ \A d \in Calls : OfPage(d) => d # c /\ d < c
  BY MadeLast
<1>3. /\ NewCall(op, c, k) \in CallsToMake
      /\ NewCall(op, c, k).op = op /\ NewCall(op, c, k).key = k /\ NewCall(op, c, k).version = version[k]
  BY <1>1, NewCallIs DEF Ops
<1>4. Writes(NewCall(op, c, k))
  BY <1>3 DEF Writes
<1>5. PICK x \in CallStates :
           /\ calls' = [calls EXCEPT ![c] = x]
           /\ x.step \in Steps => x.op = op /\ x.key = k /\ x.version = version[k]
           /\ \/ /\ DbReady /\ x.step = "queued" /\ waiters' = waiters /\ missed' = missed \ {k}
              \/ /\ StillOpening /\ x.step = "waiting"
                 /\ waiters' = [waiters EXCEPT ![current] = Append(@, c)] /\ missed' = missed
              \/ /\ ~DbReady /\ ~StillOpening /\ x.step = "done" /\ waiters' = waiters
                 /\ missed' = missed \union {k}
  BY <1>1, <1>3, <1>4, AskCases
<1>6. calls'[c] = x /\ \A d \in Calls : d # c => calls'[d] = calls[d]
  BY <1>1, <1>5 DEF TypeOK
<1>7. /\ version \in [Keys -> Nat] /\ version' = [version EXCEPT ![k] = @ + 1]
      /\ \A j \in Keys : j # k => version'[j] = version[j] /\ last'[j] = last[j]
      /\ version'[k] = version[k] + 1
  BY <1>1 DEF TypeOK, MadeVersion, BumpVersion
<1>8. current' = current /\ disk' = disk
  BY DEF door
<1>9. \A d \in Calls, j \in Keys : j # k => (Unwritten(d, j)' <=> Unwritten(d, j))
  <2> TAKE d \in Calls, j \in Keys
  <2> HAVE j # k
  <2>1. CASE d = c
    BY <1>2, <1>5, <1>6, <2>1 DEF Unwritten, Steps
  <2>2. CASE d # c
    BY <1>6, <2>2 DEF Unwritten
  <2> QED
    BY <2>1, <2>2
<1>10. \A d \in Calls, j \in Keys : j # k /\ Unwritten(d, j) => d # c /\ (IsLatest(d)' <=> IsLatest(d))
  <2> TAKE d \in Calls, j \in Keys
  <2> HAVE j # k /\ Unwritten(d, j)
  <2>1. d # c /\ calls[d].key = j
    BY <1>2 DEF Unwritten
  <2> QED
    BY <1>6, <1>7, <2>1 DEF IsLatest
<1>11. current # 0 => \A e \in Range(waiters[current]) : e \in Calls /\ e # c
  <2> HAVE current # 0
  <2>1. current \in 1..MaxLogins
    BY <1>1, DoorTypes
  <2> QED
    BY <1>1, <1>2, <2>1, LineCalls
<1>12. current # 0 => Range(waiters'[current]) = Range(waiters[current]) \union (IF StillOpening THEN {c} ELSE {})
  <2> HAVE current # 0
  <2>1. current \in 1..MaxLogins
    BY <1>1, DoorTypes
  <2>2. waiters \in [1..MaxLogins -> Seq(Calls)]
    BY <1>1 DEF TypeOK
  <2>3. CASE StillOpening
    <3>1. waiters'[current] = Append(waiters[current], c)
      BY <1>5, <2>1, <2>2, <2>3 DEF DbReady, StillOpening
    <3> QED
      BY <2>1, <2>2, <2>3, <3>1, AppendLaws
  <2>4. CASE ~StillOpening
    BY <1>5, <2>4
  <2> QED
    BY <2>3, <2>4
<1> SUFFICES ASSUME NEW j \in Keys
             PROVE  /\ WaitsHere(j)' => \E e \in Range(waiters'[current']) : Unwritten(e, j)' /\ IsLatest(e)'
                    /\ j \notin missed' =>
                         \/ \E e \in Calls : Unwritten(e, j)' /\ IsLatest(e)'
                         \/ (\A e \in Calls : ~Unwritten(e, j)') /\ disk'[j] \in {None, last'[j]}
                    /\ j \notin missed' \/ WaitsHere(j)' => memory'[j] \in {None, last'[j]}
  BY DEF CopyInv
<1>13. CASE j # k
  <2>1. WaitsHere(j)' => WaitsHere(j)
    <3> HAVE WaitsHere(j)'
    <3>1. PICK e \in Range(waiters'[current]) : current # 0 /\ Unwritten(e, j)'
      BY <1>8 DEF WaitsHere
    <3>2. e # c
      BY <1>5, <1>6, <1>13, <3>1 DEF Unwritten, Steps
    <3>3. e \in Range(waiters[current]) /\ e \in Calls
      BY <1>11, <1>12, <3>1, <3>2
    <3> QED
      BY <1>9, <1>13, <3>1, <3>3 DEF WaitsHere
  <2>2. WaitsHere(j) => \E e \in Range(waiters'[current']) : Unwritten(e, j)' /\ IsLatest(e)'
    <3> HAVE WaitsHere(j)
    <3>1. PICK e \in Range(waiters[current]) : Unwritten(e, j) /\ IsLatest(e)
      BY <1>1 DEF CopyInv
    <3>2. current # 0 /\ e \in Calls
      BY <1>11 DEF WaitsHere
    <3>3. e \in Range(waiters'[current'])
      BY <1>8, <1>12, <3>1, <3>2
    <3>4. Unwritten(e, j)' /\ IsLatest(e)'
      BY <1>9, <1>10, <1>13, <3>1, <3>2
    <3> QED
      BY <3>3, <3>4
  <2>3. j \in missed' <=> j \in missed
    BY <1>5, <1>13
  <2>4. ASSUME j \notin missed
        PROVE  \/ \E e \in Calls : Unwritten(e, j)' /\ IsLatest(e)'
               \/ (\A e \in Calls : ~Unwritten(e, j)') /\ disk'[j] \in {None, last'[j]}
    <3>1. CASE \E e \in Calls : Unwritten(e, j) /\ IsLatest(e)
      BY <1>9, <1>10, <1>13, <3>1
    <3>2. CASE (\A e \in Calls : ~Unwritten(e, j)) /\ disk[j] \in {None, last[j]}
      BY <1>7, <1>8, <1>9, <1>13, <3>2
    <3> QED
      BY <1>1, <2>4, <3>1, <3>2 DEF CopyInv
  <2>5. j \notin missed \/ WaitsHere(j) => memory'[j] \in {None, last'[j]}
    BY <1>1, <1>7, <1>13 DEF CopyInv
  <2> QED
    BY <2>1, <2>2, <2>3, <2>4, <2>5
<1>14. CASE j = k
  <2>1. x.step \in {"queued", "waiting"} => Unwritten(c, k)' /\ IsLatest(c)'
    <3> HAVE x.step \in {"queued", "waiting"}
    <3>1. x.op = op /\ x.key = k /\ x.version = version[k]
      BY <1>5 DEF Steps
    <3> QED
      BY <1>6, <1>7, <3>1 DEF Unwritten, IsLatest, Writes
  <2>2. memory'[k] \in {None, last'[k]}
    OBVIOUS
  <2>3. ~StillOpening => ~WaitsHere(k)'
    <3> HAVE ~StillOpening
    <3>1. current # 0 => waiters[current] = <<>>
      BY <1>1, WaitsAtDoor
    <3>2. current # 0 => Range(waiters'[current]) = {}
      BY <1>12, <3>1 DEF Range
    <3> QED
      BY <1>8, <3>2 DEF WaitsHere
  <2>4. CASE x.step = "queued"
    BY <1>5, <1>14, <2>1, <2>2, <2>3, <2>4 DEF DbReady, StillOpening
  <2>5. CASE x.step = "waiting"
    <3>1. c \in Range(waiters'[current'])
      BY <1>5, <1>8, <1>12, <2>5 DEF StillOpening
    <3> QED
      BY <1>14, <2>1, <2>2, <2>5, <3>1
  <2>6. CASE x.step = "done"
    <3>1. k \in missed' /\ ~WaitsHere(k)'
      BY <1>5, <2>3, <2>6
    <3> QED
      BY <1>14, <3>1
  <2> QED
    BY <1>5, <2>4, <2>5, <2>6
<1> QED
  BY <1>13, <1>14

\* A call that is made leaves no read that has taken what it makes stale, and every read has in
\* what it has seen what its key stands for.
LEMMA MadeReads ==
  ASSUME IInv, NEW c \in Calls, NEW k \in Keys, MayCall(c, k), NEW op \in {"get", "set", "delete"}, NEW x \in CallStates,
         calls' = [calls EXCEPT ![c] = x],
         x.step \in {"queued", "waiting", "done"},
         x.step \in Steps => x.op = op /\ x.key = k,
         MadeVersion(op, c, k), Remember(c, NewCall(op, c, k)),
         op = "get" => missed' = missed,
         \A j \in Keys : j # k => (j \in missed' <=> j \in missed)
  PROVE  ReadInv'
<1>1. TypeOK /\ VersionInv /\ LineInv /\ ReadInv
  BY DEF IInv
<1>2. calls'[c] = x /\ \A d \in Calls : d # c => calls'[d] = calls[d]
  BY <1>1 DEF TypeOK
<1>3. NewCall(op, c, k).key = k
  BY <1>1, NewCallIs DEF Ops
<1>4. /\ version \in [Keys -> Nat]
      /\ \A j \in Keys : j # k \/ op = "get" => version'[j] = version[j] /\ last'[j] = last[j]
      /\ op # "get" => version'[k] = version[k] + 1
  BY <1>1 DEF TypeOK, MadeVersion, BumpVersion
<1>5. seen' = [d \in Calls |->
         IF calls'[d].step \notin Steps \/ calls'[d].op # "get" THEN {}
         ELSE IF d = c THEN Meanings(k, last, missed)
         ELSE seen[d] \union Meanings(calls[d].key, last', missed')]
  BY <1>3 DEF Remember
<1>6. ASSUME NEW d \in Calls, calls'[d].step = "read", calls'[d].key \notin missed', NothingCameBetween(d)'
      PROVE  calls'[d].blob \in {None, last'[calls'[d].key]}
  <2>1. d # c /\ calls'[d] = calls[d] /\ calls[d].step = "read"
    BY <1>2, <1>6
  <2>2. Busy(d) /\ calls[d].op = "get" /\ OfPage(d)
    BY <1>1, <2>1 DEF LineInv, OfPage, Busy, Steps
  <2>3. calls[d].key \in Keys /\ calls[d].version \in Nat
    <3>1. calls[d] \in CallsUnderWay
      BY <1>1, <2>2, AnswerIs
    <3> QED
      BY <3>1 DEF CallsUnderWay
  <2>4. calls[d].version <= version[calls[d].key]
    BY <1>1, <2>2 DEF VersionInv
  <2>5. version'[calls[d].key] = calls[d].version
    BY <1>6, <2>1 DEF NothingCameBetween
  <2>6. calls[d].key # k \/ op = "get"
    BY <1>4, <2>3, <2>4, <2>5
  <2>7. NothingCameBetween(d) /\ last'[calls[d].key] = last[calls[d].key]
    BY <1>4, <2>3, <2>5, <2>6 DEF NothingCameBetween
  <2>8. calls[d].key \notin missed
    BY <1>6, <2>1, <2>3, <2>6
  <2> QED
    BY <1>1, <2>1, <2>7, <2>8 DEF ReadInv
<1>7. ASSUME NEW d \in Calls, Busy(d)', calls'[d].op = "get"
      PROVE  Meanings(calls'[d].key, last', missed') \subseteq seen'[d]
  <2>1. calls'[d].step \in Steps
    BY <1>7 DEF Busy
  <2>2. CASE d = c
    <3>1. op = "get" /\ calls'[d].key = k
      BY <1>2, <1>7, <2>1, <2>2
    <3>2. last'[k] = last[k] /\ missed' = missed
      BY <1>4, <3>1
    <3>3. Meanings(k, last', missed') = Meanings(k, last, missed)
      BY <3>2 DEF Meanings
    <3> QED
      BY <1>5, <1>7, <2>1, <2>2, <3>1, <3>3
  <2>3. CASE d # c
    BY <1>2, <1>5, <1>7, <2>1, <2>3
  <2> QED
    BY <2>2, <2>3
<1> QED
  BY <1>6, <1>7 DEF ReadInv

\* What is remembered of the calls.
LEMMA MadeTypes ==
  ASSUME TypeOK, last' \in [Keys -> Blobs \union {None}], calls' \in [Calls -> CallStates],
         NEW c \in Calls, NEW k \in Keys, NEW op \in {"get", "set", "delete"}, Remember(c, NewCall(op, c, k)),
         \A d \in Calls : d # c => calls'[d] = calls[d]
  PROVE  seen' \in [Calls -> SUBSET (Blobs \union {None})]
<1>1. NewCall(op, c, k).key = k
  BY NewCallIs DEF Ops
<1>2. seen' = [d \in Calls |->
         IF calls'[d].step \notin Steps \/ calls'[d].op # "get" THEN {}
         ELSE IF d = c THEN Meanings(k, last, missed)
         ELSE seen[d] \union Meanings(calls[d].key, last', missed')]
  BY <1>1 DEF Remember
<1>3. Meanings(k, last, missed) \subseteq Blobs \union {None}
  <2>1. last[k] \in Blobs \union {None}
    BY DEF TypeOK
  <2> QED
    BY <2>1, MeaningTypes
<1>4. ASSUME NEW d \in Calls, calls'[d].step \in Steps, d # c
      PROVE  seen[d] \union Meanings(calls[d].key, last', missed') \subseteq Blobs \union {None}
  <2>1. calls[d] \in CallsUnderWay
    BY <1>4, AnswerIs DEF Busy
  <2>2. last'[calls[d].key] \in Blobs \union {None}
    BY <2>1 DEF CallsUnderWay
  <2>3. Meanings(calls[d].key, last', missed') \subseteq Blobs \union {None}
    BY <2>2, MeaningTypes
  <2> QED
    BY <2>3 DEF TypeOK
<1> QED
  BY <1>2, <1>3, <1>4

\* A call that is made and asks for the database.
LEMMA MadeKeeps ==
  ASSUME IInv, NEW c \in Calls, NEW k \in Keys, MayCall(c, k), NEW op \in {"get", "set", "delete"},
         AskForDB(c, NewCall(op, c, k)), MadeVersion(op, c, k), Remember(c, NewCall(op, c, k)),
         UNCHANGED <<records, door>>,
         LruIsSound', memory' \in [Keys -> Blobs \union {None}], order' \in Seq(Keys),
         op = "get" => UNCHANGED memory,
         op # "get" => \A j \in Keys : memory'[j] \in {IF j = k THEN last'[k] ELSE memory[j], None}
  PROVE  IInv'
<1>1. TypeOK /\ VersionInv /\ LineInv /\ CopyInv /\ AnswersAreCurrent
  BY DEF IInv
<1>2. /\ calls[c] = NoCall /\ calls[c].step = "none"
      /\ \A d \in Calls : OfPage(d) => d # c /\ d < c
  BY MadeLast
<1>3. /\ NewCall(op, c, k) \in CallsToMake
      /\ NewCall(op, c, k).op = op /\ NewCall(op, c, k).key = k /\ NewCall(op, c, k).version = version[k]
  BY <1>1, NewCallIs DEF Ops
<1>4. PICK x \in CallStates :
           /\ calls' = [calls EXCEPT ![c] = x]
           /\ x.step \in Steps => x.op = op /\ x.key = k /\ x.version = version[k]
           /\ \/ /\ DbReady /\ x.step = "queued"
                 /\ queue' = [queue EXCEPT ![User] = Append(@, c)] /\ waiters' = waiters
                 /\ missed' = IF Writes(NewCall(op, c, k)) THEN missed \ {k} ELSE missed
              \/ /\ StillOpening /\ x.step = "waiting"
                 /\ waiters' = [waiters EXCEPT ![current] = Append(@, c)] /\ queue' = queue
                 /\ missed' = missed
              \/ /\ ~DbReady /\ ~StillOpening /\ x.step = "done" /\ x.true
                 /\ queue' = queue /\ waiters' = waiters
                 /\ missed' = IF Writes(NewCall(op, c, k)) THEN missed \union {k} ELSE missed
  BY <1>1, <1>3, AskCases
<1>5. calls'[c] = x /\ \A d \in Calls : d # c => calls'[d] = calls[d]
  BY <1>1, <1>4 DEF TypeOK
<1>6. Writes(NewCall(op, c, k)) <=> op # "get"
  BY <1>3 DEF Writes
<1>7. last' \in [Keys -> Blobs \union {None}] /\ version' \in [Keys -> Nat]
  <2>1. last \in [Keys -> Blobs \union {None}] /\ version \in [Keys -> Nat] /\ c \in Blobs
    BY <1>1 DEF TypeOK, Blobs
  <2>2. CASE UNCHANGED <<version, last>>
    BY <2>1, <2>2
  <2>3. CASE version' = BumpVersion(k) /\ last' = [last EXCEPT ![k] = IF op = "set" THEN c ELSE None]
    <3>1. version[k] \in Nat /\ version[k] + 1 \in Nat
      BY <2>1
    <3> QED
      BY <2>1, <2>3, <3>1 DEF BumpVersion
  <2> QED
    BY <2>2, <2>3 DEF MadeVersion
<1>8. /\ calls' \in [Calls -> CallStates] /\ queue' \in [Users -> Seq(Calls)]
      /\ waiters' \in [1..MaxLogins -> Seq(Calls)] /\ missed' \subseteq Keys
  BY <1>1, <1>3, AskTypes
<1>9. seen' \in [Calls -> SUBSET (Blobs \union {None})]
  BY <1>1, <1>5, <1>7, <1>8, MadeTypes
<1>10. TypeOK'
  BY <1>1, <1>7, <1>8, <1>9 DEF TypeOK, records, door
<1>11. LineInv' /\ OrderInv' /\ DoorInv'
  <2>1. Owner[k] = User
    BY DEF MayCall
  <2> QED
    BY <1>2, <1>3, <1>10, <2>1, JoinLines
<1>12. VersionInv'
  <2>1. x # NoCall
    BY <1>4 DEF NoCall
  <2> QED
    BY <1>4, <2>1, MadeVersions
<1>13. AnswersAreCurrent'
  BY <1>1, <1>4, <1>5 DEF AnswersAreCurrent, Ended
<1>14. ReadInv'
  <2>1. x.step \in {"queued", "waiting", "done"} /\ (op = "get" => missed' = missed)
    BY <1>4, <1>6
  <2>2. \A j \in Keys : j # k => (j \in missed' <=> j \in missed)
    BY <1>4
  <2> QED
    BY <1>4, <2>1, <2>2, MadeReads
<1>15. CopyInv'
  <2>1. CASE op = "get"
    <3>1. UNCHANGED <<version, disk, last, missed, memory>>
      BY <1>4, <1>6, <2>1 DEF MadeVersion, records
    <3>2. UNCHANGED current
      BY DEF door
    <3>3. calls'[c].step \in {"waiting", "queued"} => ~Writes(calls'[c])
      BY <1>4, <1>5, <2>1 DEF Writes, Steps
    <3>4. current # 0 => Range(waiters[current]) \subseteq Range(waiters'[current])
                         /\ Range(waiters'[current]) \subseteq Range(waiters[current]) \union {c}
      <4> HAVE current # 0
      <4>1. current \in 1..MaxLogins
        BY <1>1, DoorTypes
      <4>2. waiters \in [1..MaxLogins -> Seq(Calls)]
        BY <1>1 DEF TypeOK
      <4>3. waiters'[current] \in {waiters[current], Append(waiters[current], c)}
        BY <1>4, <4>1, <4>2
      <4>4. Range(Append(waiters[current], c)) = Range(waiters[current]) \union {c}
        BY <4>1, <4>2, AppendLaws
      <4> QED
        BY <4>3, <4>4
    <3>5. \A j \in Keys : j \notin missed \/ WaitsHere(j) => memory'[j] \in {None, last[j]}
      BY <1>1, <3>1 DEF CopyInv
    <3>6. calls[c].step \notin {"waiting", "queued"}
      BY <1>2
    <3> QED
      BY <1>5, <3>1, <3>2, <3>3, <3>4, <3>5, <3>6, CopiesStay
  <2>2. CASE op # "get"
    <3>1. op \in {"set", "delete"} /\ UNCHANGED <<disk, door>>
      BY <2>2 DEF records
    <3> QED
      BY <2>2, <3>1, MadeCopies
  <2> QED
    BY <2>1, <2>2
<1> QED
  BY <1>10, <1>11, <1>12, <1>13, <1>14, <1>15 DEF IInv

\* get.
LEMMA GetKeeps ==
  ASSUME IInv, NEW c \in Calls, NEW k \in Keys, Get(c, k)
  PROVE  IInv'
<1>1. TypeOK /\ LruIsSound /\ CopyInv /\ AnswersAreCurrent
  BY DEF IInv
<1>2. /\ MayCall(c, k) /\ GetFromMemory(k)
      /\ UNCHANGED <<version, records, door, last>> /\ Remember(c, NewCall("get", c, k))
  BY DEF Get
<1>3. /\ LruIsSound' /\ UNCHANGED memory /\ order' \in Seq(Keys) /\ memory' \in [Keys -> Blobs \union {None}]
  <2>1. LruIsSound' /\ UNCHANGED memory /\ order' \in Seq(Keys)
    BY <1>1, <1>2, MemoryRead
  <2> QED
    BY <1>1, <2>1 DEF TypeOK
<1>4. MadeVersion("get", c, k)
  BY <1>2 DEF MadeVersion
<1>5. CASE memory[k] = None
  <2>1. AskForDB(c, NewCall("get", c, k))
    BY <1>5 DEF Get
  <2> QED
    BY <1>2, <1>3, <1>4, <2>1, MadeKeeps
<1>6. CASE memory[k] # None
  <2> DEFINE x == Done(NewCall("get", c, k), memory[k] \in Meanings(k, last, missed))
  <2>1. calls' = [calls EXCEPT ![c] = x] /\ UNCHANGED <<queue, waiters, missed>>
    BY <1>6 DEF Get
  <2>2. memory[k] \in Meanings(k, last, missed)
    <3>1. k \in Keys /\ last[k] \in Blobs \union {None} /\ memory[k] \in Blobs \union {None}
      BY <1>1 DEF TypeOK
    <3>2. k \notin missed => memory[k] \in {None, last[k]}
      BY <1>1 DEF CopyInv
    <3> QED
      BY <1>6, <3>1, <3>2, MeaningTypes
  <2>3. x \in CallStates /\ x.step = "done" /\ x.true
    <3>1. NewCall("get", c, k) \in CallsToMake
      BY <1>1, NewCallIs DEF Ops
    <3> QED
      BY <2>2, <3>1, CallEnds, CallKindsOf
  <2> HIDE DEF x
  <2>4. calls'[c] = x /\ (\A d \in Calls : d # c => calls'[d] = calls[d]) /\ calls' \in [Calls -> CallStates]
    BY <1>1, <2>1, <2>3 DEF TypeOK
  <2>5. calls[c].step \notin {"waiting", "queued"}
    BY <1>2, MadeLast
  <2>6. seen' \in [Calls -> SUBSET (Blobs \union {None})]
    <3>1. last' \in [Keys -> Blobs \union {None}]
      BY <1>1, <1>2 DEF TypeOK
    <3> QED
      BY <1>1, <1>2, <2>4, <3>1, MadeTypes
  <2>7. TypeOK'
    BY <1>1, <1>2, <1>3, <2>1, <2>4, <2>6 DEF TypeOK, records, door
  <2>8. LineInv' /\ OrderInv' /\ DoorInv'
    BY <1>2, <2>1, <2>3, <2>4, <2>5, <2>7, EndsApart
  <2>9. VersionInv'
    <3>1. x # NoCall /\ x.step \notin Steps
      BY <2>3 DEF NoCall, Steps
    <3> QED
      BY <1>2, <1>4, <2>1, <2>3, <3>1, MadeVersions
  <2>10. AnswersAreCurrent'
    BY <1>1, <2>3, <2>4 DEF AnswersAreCurrent, Ended
  <2>11. CopyInv'
    <3>1. UNCHANGED <<version, disk, last, missed, current>> /\ waiters' = waiters
      BY <1>2, <2>1 DEF records, door
    <3>2. \A j \in Keys : j \notin missed \/ WaitsHere(j) => memory'[j] \in {None, last[j]}
      BY <1>1, <1>3 DEF CopyInv
    <3> QED
      BY <2>3, <2>4, <2>5, <3>1, <3>2, CopiesStay
  <2>12. ReadInv'
    <3>1. x.step \in {"queued", "waiting", "done"} /\ x.step \notin Steps
      BY <2>3 DEF Steps
    <3> QED
      BY <1>2, <1>4, <2>1, <2>3, <3>1, MadeReads
  <2> QED
    BY <1>3, <2>7, <2>8, <2>9, <2>10, <2>11, <2>12 DEF IInv
<1> QED
  BY <1>5, <1>6

\* set.
LEMMA SetKeeps ==
  ASSUME IInv, NEW c \in Calls, NEW k \in Keys, Set(c, k)
  PROVE  IInv'
<1>1. TypeOK /\ LruIsSound
  BY DEF IInv
<1>2. /\ MayCall(c, k) /\ SetToMemory(k, c) /\ AskForDB(c, NewCall("set", c, k))
      /\ UNCHANGED <<records, door>> /\ Remember(c, NewCall("set", c, k))
      /\ last' = [last EXCEPT ![k] = c]
  BY DEF Set
<1>3. MadeVersion("set", c, k)
  BY DEF Set, MadeVersion
<1>4. c \in Blobs
  BY DEF Blobs
<1>5. /\ LruIsSound' /\ memory' \in [Keys -> Blobs \union {None}] /\ order' \in Seq(Keys)
      /\ \A j \in Keys : memory'[j] \in {IF j = k THEN c ELSE memory[j], None}
  BY <1>1, <1>2, <1>4, MemorySet
<1>6. last'[k] = c
  BY <1>1, <1>2 DEF TypeOK
<1> QED
  BY <1>2, <1>3, <1>5, <1>6, MadeKeeps

\* delete.
LEMMA DeleteKeeps ==
  ASSUME IInv, NEW c \in Calls, NEW k \in Keys, Delete(c, k)
  PROVE  IInv'
<1>1. TypeOK /\ LruIsSound
  BY DEF IInv
<1>2. /\ MayCall(c, k) /\ DropFromMemory(k) /\ AskForDB(c, NewCall("delete", c, k))
      /\ UNCHANGED <<records, door>> /\ Remember(c, NewCall("delete", c, k))
      /\ last' = [last EXCEPT ![k] = None]
  BY DEF Delete
<1>3. MadeVersion("delete", c, k)
  BY DEF Delete, MadeVersion
<1>4. /\ LruIsSound' /\ memory' = [memory EXCEPT ![k] = None]
      /\ memory' \in [Keys -> Blobs \union {None}] /\ order' \in Seq(Keys)
  BY <1>1, <1>2, MemoryDrop
<1>5. \A j \in Keys : memory'[j] \in {IF j = k THEN last'[k] ELSE memory[j], None}
  BY <1>1, <1>2, <1>4 DEF TypeOK
<1> QED
  BY <1>2, <1>3, <1>4, <1>5, MadeKeeps

\* evictOldIDB of a set asks for the database again.
LEMMA FinishPutKeeps ==
  ASSUME IInv, NEW c \in Calls, FinishPut(c)
  PROVE  IInv'
<1>1. TypeOK /\ LruIsSound /\ VersionInv /\ LineInv /\ CopyInv /\ ReadInv /\ AnswersAreCurrent
  BY DEF IInv
<1> DEFINE call == [calls[c] EXCEPT !.op = "evict"]
<1>2. /\ calls[c].step = "stored" /\ AskForDB(c, call)
      /\ UNCHANGED <<lru, version, records, door, last, seen>>
  BY DEF FinishPut
<1>3. Busy(c) /\ calls[c] \in CallsUnderWay
  BY <1>1, <1>2, AnswerIs DEF Busy, Steps
<1>4. call \in CallsToMake /\ call.op = "evict"
  <2>1. call = [step |-> calls[c].step, op |-> "evict", key |-> calls[c].key, version |-> calls[c].version, blob |-> calls[c].blob]
        /\ call \in CallsUnderWay
    BY <1>3, CallTurns DEF Ops
  <2> HIDE DEF call
  <2> QED
    BY <2>1, CallKindsOf
<1> HIDE DEF call
<1>5. ~Writes(call)
  BY <1>4 DEF Writes
<1>6. PICK x \in CallStates :
           /\ calls' = [calls EXCEPT ![c] = x]
           /\ x.step \in Steps => x.op = "evict"
           /\ \/ x.step = "queued" /\ waiters' = waiters
              \/ x.step = "waiting" /\ waiters' = [waiters EXCEPT ![current] = Append(@, c)]
              \/ x.step = "done" /\ x.true /\ waiters' = waiters
           /\ missed' = missed
  BY <1>1, <1>2, <1>4, <1>5, AskCases
<1>7. calls'[c] = x /\ \A d \in Calls : d # c => calls'[d] = calls[d]
  BY <1>1, <1>6 DEF TypeOK
<1>8. /\ calls' \in [Calls -> CallStates] /\ queue' \in [Users -> Seq(Calls)]
      /\ waiters' \in [1..MaxLogins -> Seq(Calls)] /\ missed' \subseteq Keys
  BY <1>1, <1>2, <1>4, AskTypes
<1>9. TypeOK'
  BY <1>1, <1>2, <1>8 DEF TypeOK, lru, records, door
<1>10. LineInv' /\ OrderInv' /\ DoorInv'
  BY <1>2, <1>4, <1>9, JoinLines
<1>11. \A d \in Calls : OfPage(d)' => d # c /\ OfPage(d) /\ calls'[d] = calls[d]
  <2> TAKE d \in Calls
  <2> HAVE OfPage(d)'
  <2>1. d # c
    BY <1>6, <1>7 DEF OfPage, Busy
  <2> QED
    BY <1>7, <2>1 DEF OfPage, Busy
<1>12. VersionInv'
  <2>1. calls[c] # NoCall /\ x # NoCall
    BY <1>2, <1>6 DEF NoCall
  <2>2. \A d \in Calls : calls'[d] = NoCall <=> calls[d] = NoCall
    BY <1>7, <2>1
  <2> QED
    BY <1>1, <1>2, <1>11, <2>2, VersionStays
<1>13. AnswersAreCurrent'
  BY <1>1, <1>6, <1>7 DEF AnswersAreCurrent, Ended
<1>14. LruIsSound'
  BY <1>1, <1>2 DEF LruIsSound, InMemory, lru
<1>15. CopyInv'
  <2>1. UNCHANGED <<version, disk, last, missed, current>> /\ UNCHANGED memory
    BY <1>2, <1>6 DEF records, door, lru
  <2>2. calls'[c].step \in {"waiting", "queued"} => ~Writes(calls'[c])
    BY <1>6, <1>7 DEF Writes, Steps
  <2>3. current # 0 => Range(waiters[current]) \subseteq Range(waiters'[current])
                       /\ Range(waiters'[current]) \subseteq Range(waiters[current]) \union {c}
    <3> HAVE current # 0
    <3>1. current \in 1..MaxLogins
      BY <1>1, DoorTypes
    <3>2. waiters \in [1..MaxLogins -> Seq(Calls)]
      BY <1>1 DEF TypeOK
    <3>3. waiters'[current] \in {waiters[current], Append(waiters[current], c)}
      BY <1>6, <3>1, <3>2
    <3>4. Range(Append(waiters[current], c)) = Range(waiters[current]) \union {c}
      BY <3>1, <3>2, AppendLaws
    <3> QED
      BY <3>3, <3>4
  <2>4. \A j \in Keys : j \notin missed \/ WaitsHere(j) => memory'[j] \in {None, last[j]}
    BY <1>1, <2>1 DEF CopyInv
  <2>5. calls[c].step \notin {"waiting", "queued"}
    BY <1>2
  <2> QED
    BY <1>7, <2>1, <2>2, <2>3, <2>4, <2>5, CopiesStay
<1>16. ReadInv'
  <2>1. last' = last /\ missed' = missed /\ version' = version /\ seen' = seen
    BY <1>2, <1>6
  <2>2. \A d \in Calls : calls'[d].step = "read" \/ (Busy(d)' /\ calls'[d].op = "get") => calls'[d] = calls[d]
    BY <1>6, <1>7 DEF Busy
  <2>3. ASSUME NEW d \in Calls, calls'[d].step = "read", calls'[d].key \notin missed', NothingCameBetween(d)'
        PROVE  calls'[d].blob \in {None, last'[calls'[d].key]}
    BY <1>1, <2>1, <2>2, <2>3 DEF ReadInv, NothingCameBetween
  <2>4. ASSUME NEW d \in Calls, Busy(d)', calls'[d].op = "get"
        PROVE  Meanings(calls'[d].key, last', missed') \subseteq seen'[d]
    <3>1. calls'[d] = calls[d] /\ Busy(d)
      BY <2>2, <2>4 DEF Busy
    <3> QED
      BY <1>1, <2>1, <2>4, <3>1 DEF ReadInv
  <2> QED
    BY <2>3, <2>4 DEF ReadInv
<1> QED
  BY <1>9, <1>10, <1>12, <1>13, <1>14, <1>15, <1>16 DEF IInv

(***************************************************************************)
(* The theorems                                                            *)
(***************************************************************************)
\* The keys of a finite set in some order.
LEMMA SomeOrder ==
  ASSUME NEW S \in SUBSET Keys, IsFiniteSet(S)
  PROVE  SetToSeq(S) \in Seq(Keys)
<1>1. Cardinality(S) \in Nat /\ \E f \in [1..Cardinality(S) -> S] : IsInjective(f)
  BY FS_CardinalityType DEF ExistsBijection, Bijection, Injection
<1>2. SetToSeq(S) \in [1..Cardinality(S) -> S]
  BY <1>1 DEF SetToSeq
<1>3. SetToSeq(S) \in [1..Cardinality(S) -> Keys]
  BY <1>2
<1> QED
  BY <1>1, <1>3

\* The invariant holds at first.
LEMMA InitHolds == Init => IInv
<1> SUFFICES ASSUME Init PROVE IInv
  OBVIOUS
<1>0. <<>> \in Seq(Keys) /\ <<>> \in Seq(Calls) /\ <<>> \in Seq(Connections) /\ DOMAIN <<>> = {} /\ Len(<<>>) = 0
  OBVIOUS
<1>1. \A c \in Calls : calls[c] = NoCall /\ calls[c].step = "none"
  BY DEF Init, NoCall
<1>2. \A c \in Calls : ~Busy(c) /\ ~OfPage(c) /\ ~Ended(c) /\ calls[c].step \notin Steps \union {"done"}
  BY <1>1 DEF Busy, OfPage, Ended, Steps
<1>3. \A u \in Users : queue[u] = <<>>
  BY DEF Init
<1>4. \A n \in 1..MaxLogins : waiters[n] = <<>>
  BY DEF Init
<1>5. opening = <<>> /\ DOMAIN opening = {} /\ Len(opening) = 0 /\ current = 0 /\ blocked = FALSE
  BY <1>0 DEF Init
<1>6. disk \in [Keys -> Blobs \union {None}] /\ last = disk /\ missed = {}
  BY DEF Init, Blobs
<1>7. \A k \in Keys : memory[k] = None
  BY DEF Init
<1>8. TypeOK
  <2>1. accessed \in [Users -> Seq(Keys)]
    <3>1. ASSUME NEW u \in Users
          PROVE  SetToSeq({k \in Kept : Owner[k] = u}) \in Seq(Keys)
      <4>1. {k \in Kept : Owner[k] = u} \in SUBSET Keys /\ IsFiniteSet({k \in Kept : Owner[k] = u})
        BY CacheAssumption, FS_Subset
      <4> QED
        BY <4>1, SomeOrder
    <3> QED
      BY <3>1 DEF Init
  <2>2. memory \in [Keys -> Blobs \union {None}] /\ order \in Seq(Keys) /\ version \in [Keys -> Nat]
    <3>1. \A k \in Keys : 0 \in Nat /\ None \in Blobs \union {None}
      OBVIOUS
    <3> QED
      BY <1>0, <3>1 DEF Init
  <2>3. calls \in [Calls -> CallStates]
    BY CallKindsOf DEF Init
  <2>4. waiters \in [1..MaxLogins -> Seq(Calls)] /\ queue \in [Users -> Seq(Calls)]
    BY <1>0 DEF Init
  <2>5. seen \in [Calls -> SUBSET (Blobs \union {None})]
    BY DEF Init
  <2>6. opening \in Seq([user : Users, state : {"pending", "open", "closed", "failed"}]) /\ Len(opening) <= MaxLogins
    BY <1>5, CacheAssumption
  <2>7. old \subseteq Users /\ held \subseteq old /\ current \in {0, Len(opening)} /\ blocked \in BOOLEAN
    BY <1>5 DEF Init
  <2> QED
    BY <1>6, <2>1, <2>2, <2>3, <2>4, <2>5, <2>6, <2>7 DEF TypeOK
<1>9. LruIsSound
  <2>1. order = <<>> /\ DOMAIN order = {} /\ Len(order) = 0
    BY <1>0 DEF Init
  <2> QED
    BY <1>7, <2>1, CacheAssumption DEF LruIsSound, InMemory, Range
<1>10. AnswersAreCurrent /\ VersionInv
  BY <1>1, <1>2 DEF AnswersAreCurrent, VersionInv
<1>11. LineInv
  BY <1>2, <1>3, <1>4 DEF LineInv, Steps
<1>12. OrderInv
  BY <1>3, <1>4 DEF OrderInv, Once, InOrder, Range
<1>13. DoorInv
  BY <1>5 DEF DoorInv
<1>14. CopyInv
  <2>1. \A k \in Keys : ~WaitsHere(k)
    BY <1>5 DEF WaitsHere
  <2>2. \A k \in Keys, c \in Calls : ~Unwritten(c, k)
    BY <1>2 DEF Unwritten, Steps
  <2> QED
    BY <1>6, <1>7, <2>1, <2>2 DEF CopyInv
<1>15. ReadInv
  BY <1>2 DEF ReadInv, Steps
<1> QED
  BY <1>8, <1>9, <1>10, <1>11, <1>12, <1>13, <1>14, <1>15 DEF IInv

\* A step of the cache keeps the invariant.
LEMMA StepKeeps == IInv /\ [Next]_vars => IInv'
<1> SUFFICES ASSUME IInv, [Next]_vars PROVE IInv'
  OBVIOUS
<1>1. ASSUME NEW c \in Calls, FinishGet(c) \/ FinishPut(c) \/ \E k \in Keys : Get(c, k) \/ Set(c, k) \/ Delete(c, k)
      PROVE  IInv'
  BY <1>1, FinishGetKeeps, FinishPutKeeps, GetKeeps, SetKeeps, DeleteKeeps
<1>2. ASSUME NEW u \in Users, RunTransaction(u) \/ LogIn(u) \/ OldTabCloses(u)
      PROVE  IInv'
  BY <1>2, RunKeeps, LogInKeeps, OldTabKeeps
<1>3. ASSUME NEW n \in 1..MaxLogins, Opens(n) \/ OpenFails(n) \/ BlockedEvent(n)
      PROVE  IInv'
  <2>1. CASE Opens(n)
    BY <2>1, OpensKeeps, OpensTooLateKeeps
  <2>2. CASE OpenFails(n)
    BY <2>2, OpenFailsKeeps
  <2>3. CASE BlockedEvent(n)
    BY <2>3, MarkBlockedKeeps DEF BlockedEvent
  <2> QED
    BY <1>3, <2>1, <2>2, <2>3
<1>4. CASE LogOut \/ OpenTimeout \/ StepAside \/ Terminated
  BY <1>4, LogOutKeeps, MarkBlockedKeeps, StepAsideKeeps, TerminatedKeeps DEF OpenTimeout
<1>5. CASE UNCHANGED vars
  <2>1. /\ UNCHANGED <<memory, order, version, disk, accessed, old, held, opening, current, blocked, trouble>>
        /\ UNCHANGED <<calls, waiters, queue, last, missed, seen>>
    BY <1>5 DEF vars, lru, store, records, door, history
  <2>2. TypeOK' /\ LruIsSound' /\ AnswersAreCurrent'
    BY <2>1 DEF IInv, TypeOK, LruIsSound, InMemory, AnswersAreCurrent, Ended
  <2>3. DoorInv'
    BY <2>1 DEF IInv, DoorInv, Pending, State
  <2>4. LessToDo
    <3>1. UNCHANGED <<version, calls, waiters, queue, history>>
      BY <2>1 DEF history
    <3>2. \A n \in DOMAIN opening : n \in DOMAIN opening' /\ opening'[n].user = opening[n].user
                                    /\ (opening[n].state = "pending" => opening'[n].state = "pending")
      BY <2>1
    <3> QED
      BY <2>1, <3>1, <3>2, Undisturbed
  <2> QED
    BY <2>2, <2>3, <2>4, LessToDoKeeps
<1> QED
  BY <1>1, <1>2, <1>3, <1>4, <1>5 DEF Next

\* Types, versions, lines and copies are right at every time: the inductive invariant the
\* theorems below follow from.
THEOREM CacheInvariant == Spec => []IInv
<1> QED
  BY InitHolds, StepKeeps, PTL DEF Spec

\* The loop of setToMemory ends and evicts what was used first (blob-cache.ts:37-40): the
\* access order names what memory holds, each once, and no more than fits.
THEOREM EvictionSound == Spec => []LruIsSound
<1>1. IInv => LruIsSound
  BY DEF IInv
<1> QED
  BY <1>1, CacheInvariant, PTL

\* No read of the database brings back what was overwritten meanwhile (blob-cache.ts:69-73).
THEOREM MemoryCurrent == Spec => []MemoryIsCurrent
<1>1. IInv => MemoryIsCurrent
  BY DEF IInv, CopyInv, MemoryIsCurrent
<1> QED
  BY <1>1, CacheInvariant, PTL

\* A get that finds something finds what its key stood for while it ran.
THEOREM AnswersTrue == Spec => []AnswersAreCurrent
<1>1. IInv => AnswersAreCurrent
  BY DEF IInv
<1> QED
  BY <1>1, CacheInvariant, PTL

\* When no call is under way, the database has the last write or nothing (blob-cache.ts:104-105).
THEOREM DiskCurrent == Spec => []DiskIsCurrent
<1>1. IInv => DiskIsCurrent
  <2> SUFFICES ASSUME IInv, \A c \in Calls : ~Busy(c), NEW k \in Keys \ missed
               PROVE  disk[k] \in {None, last[k]}
    BY DEF DiskIsCurrent
  <2>1. \A c \in Calls : ~Unwritten(c, k)
    BY DEF Unwritten, Busy, Steps
  <2> QED
    BY <2>1 DEF IInv, CopyInv
<1> QED
  BY <1>1, CacheInvariant, PTL
=============================================================================
