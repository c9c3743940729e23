--------------------------- MODULE EventBusProofs ---------------------------
(***************************************************************************)
(* Proofs about EventBus for any keys, kinds, capacity and numbers of      *)
(* events: its containers agree, no key goes back in time, every event is  *)
(* accounted for, and the bus implements EventMailbox.                     *)
(***************************************************************************)
EXTENDS EventBus, SequenceTheorems, FiniteSetTheorems, WellFoundedInduction, TLAPS

-----------------------------------------------------------------------------
(* Least and greatest elements, sequences.                                 *)

Below == OpToRel(<, Nat)
LEMMA BelowDef == \A x, y \in Nat : <<x, y>> \in Below <=> x < y
BY DEF Below, OpToRel

\* A nonempty set of naturals has a least element, and a greatest one if it is bounded.
LEMMA LeastExists ==
    ASSUME NEW T \in SUBSET Nat, T # {}
    PROVE  \E x \in T : \A y \in T : x <= y
<1>1. IsWellFoundedOn(Below, Nat)
    BY NatLessThanWellFounded DEF Below
<1>2. PICK x \in T : \A y \in T : ~ (<<y, x>> \in Below)
    BY <1>1, WFMin
<1>3. ASSUME NEW y \in T PROVE x <= y
  <2>1. x \in Nat /\ y \in Nat
    OBVIOUS
  <2>2. ~ (y < x)
    BY <1>2, <2>1, BelowDef
  <2>. QED BY <2>1, <2>2
<1>. QED BY <1>3

LEMMA GreatestExists ==
    ASSUME NEW T \in SUBSET Nat, T # {}, NEW b \in Nat, \A x \in T : x <= b
    PROVE  \E x \in T : \A y \in T : y <= x
<1> DEFINE U == {b - x : x \in T}
<1>1. U \in SUBSET Nat /\ U # {}
  <2>1. ASSUME NEW x \in T PROVE b - x \in Nat
    OBVIOUS
  <2>. QED BY <2>1
<1>2. PICK u \in U : \A v \in U : u <= v
    BY <1>1, LeastExists
<1>3. PICK x \in T : u = b - x
    BY <1>2
<1>4. ASSUME NEW y \in T PROVE y <= x
    BY <1>2, <1>3, b - y \in U
<1>. QED BY <1>4

\* del queue[i]
LEMMA RemoveAtIndex ==
    ASSUME NEW S, NEW q \in Seq(S), NEW i \in 1 .. Len(q)
    PROVE  /\ RemoveAt(q, i) \in Seq(S)
           /\ Len(RemoveAt(q, i)) = Len(q) - 1
           /\ \A j \in 1 .. Len(q) - 1 :
                RemoveAt(q, i)[j] = IF j < i THEN q[j] ELSE q[j + 1]
<1> DEFINE a == SubSeq(q, 1, i - 1)
           b == SubSeq(q, i + 1, Len(q))
<1>1. /\ a \in Seq(S) /\ Len(a) = i - 1
      /\ \A j \in 1 .. i - 1 : a[j] = q[j]
    BY SubSeqProperties
<1>2. /\ b \in Seq(S) /\ Len(b) = Len(q) - i
      /\ \A j \in 1 .. Len(q) - i : b[j] = q[i + j]
    BY SubSeqProperties
<1>3. RemoveAt(q, i) = a \o b
    BY DEF RemoveAt
<1> HIDE DEF a, b
<1>4. /\ a \o b \in Seq(S) /\ Len(a \o b) = Len(a) + Len(b)
      /\ \A j \in 1 .. Len(a) + Len(b) :
           (a \o b)[j] = IF j <= Len(a) THEN a[j] ELSE b[j - Len(a)]
    BY <1>1, <1>2, ConcatProperties
<1>5. ASSUME NEW j \in 1 .. Len(q) - 1
      PROVE  (a \o b)[j] = IF j < i THEN q[j] ELSE q[j + 1]
  <2>1. CASE j < i
    BY <1>1, <1>2, <1>4, <2>1, SMTT(30)
  <2>2. CASE ~ (j < i)
    <3>1. j - (i - 1) \in 1 .. Len(q) - i
      BY <2>2
    <3>2. b[j - (i - 1)] = q[i + (j - (i - 1))]
      BY <1>2, <3>1
    <3>. QED BY <1>1, <1>2, <1>4, <2>2, <3>2
  <2>. QED BY <2>1, <2>2
<1>. QED BY <1>1, <1>2, <1>3, <1>4, <1>5

\* What is left of a queue without repetitions.
LEMMA RemoveAtRange ==
    ASSUME NEW S, NEW q \in Seq(S), NEW i \in 1 .. Len(q), IsInjective(q)
    PROVE  LET r == RemoveAt(q, i) IN
           /\ r \in Seq(S) /\ Len(r) = Len(q) - 1
           /\ Range(r) = Range(q) \ {q[i]}
           /\ IsInjective(r)
           /\ \A j, k \in DOMAIN r : j < k =>
                \E m, n \in DOMAIN q : m < n /\ q[m] = r[j] /\ q[n] = r[k]
<1> DEFINE r == RemoveAt(q, i)
           pos(j) == IF j < i THEN j ELSE j + 1
<1>1. /\ r \in Seq(S) /\ Len(r) = Len(q) - 1
      /\ \A j \in 1 .. Len(q) - 1 : r[j] = IF j < i THEN q[j] ELSE q[j + 1]
    BY RemoveAtIndex
<1> HIDE DEF r
<1>2. DOMAIN r = 1 .. Len(q) - 1 /\ DOMAIN q = 1 .. Len(q)
    BY <1>1
<1>3. ASSUME NEW j \in DOMAIN r
      PROVE  pos(j) \in DOMAIN q \ {i} /\ r[j] = q[pos(j)]
    BY <1>1, <1>2
<1>4. \A j, k \in DOMAIN r : j < k => pos(j) < pos(k)
    BY <1>2
<1>5. \A m \in DOMAIN q \ {i} : \E j \in DOMAIN r : m = pos(j)
  <2> SUFFICES ASSUME NEW m \in DOMAIN q \ {i} PROVE \E j \in DOMAIN r : m = pos(j)
    OBVIOUS
  <2>1. CASE m < i
    BY <1>2, <2>1, m \in DOMAIN r
  <2>2. CASE m > i
    BY <1>2, <2>2, m - 1 \in DOMAIN r
  <2>. QED BY <1>2, <2>1, <2>2
<1>6. IsInjective(r)
  <2> SUFFICES ASSUME NEW j \in DOMAIN r, NEW k \in DOMAIN r, r[j] = r[k] PROVE j = k
    BY DEF IsInjective
  <2>1. pos(j) = pos(k)
    BY <1>3 DEF IsInjective
  <2>. QED BY <1>2, <2>1
<1>7. Range(r) = Range(q) \ {q[i]}
  <2>1. ASSUME NEW j \in DOMAIN r PROVE r[j] \in Range(q) \ {q[i]}
    BY <1>2, <1>3 DEF Range, IsInjective
  <2>2. ASSUME NEW m \in DOMAIN q, q[m] # q[i] PROVE q[m] \in Range(r)
    <3>1. PICK j \in DOMAIN r : m = pos(j)
      BY <1>5, <2>2
    <3>. QED BY <1>3, <3>1 DEF Range
  <2>. QED BY <2>1, <2>2 DEF Range
<1> HIDE DEF pos
<1>8. ASSUME NEW j \in DOMAIN r, NEW k \in DOMAIN r, j < k
      PROVE  \E m, n \in DOMAIN q : m < n /\ q[m] = r[j] /\ q[n] = r[k]
    BY <1>3, <1>4, <1>8
<1>. QED BY <1>1, <1>6, <1>7, <1>8 DEF r

\* queue.append(t)
LEMMA AppendRange ==
    ASSUME NEW S, NEW q \in Seq(S), NEW t \in S, IsInjective(q), t \notin Range(q)
    PROVE  LET r == Append(q, t) IN
           /\ r \in Seq(S) /\ Len(r) = Len(q) + 1
           /\ DOMAIN r = 1 .. Len(q) + 1
           /\ \A j \in 1 .. Len(q) : r[j] = q[j]
           /\ r[Len(q) + 1] = t
           /\ Range(r) = Range(q) \union {t}
           /\ IsInjective(r)
<1> DEFINE r == Append(q, t)
<1>1. /\ r \in Seq(S) /\ Len(r) = Len(q) + 1
      /\ \A j \in 1 .. Len(q) : r[j] = q[j]
      /\ r[Len(q) + 1] = t
    BY AppendProperties
<1> HIDE DEF r
<1>2. DOMAIN r = 1 .. Len(q) + 1 /\ DOMAIN q = 1 .. Len(q)
    BY <1>1
<1>3. Range(r) = Range(q) \union {t}
  <2>1. ASSUME NEW j \in DOMAIN r PROVE r[j] \in Range(q) \union {t}
    BY <1>1, <1>2 DEF Range
  <2>2. ASSUME NEW j \in DOMAIN q PROVE q[j] \in Range(r)
    <3>1. j \in DOMAIN r /\ r[j] = q[j]
      BY <1>1, <1>2
    <3>. QED BY <3>1 DEF Range
  <2>3. t \in Range(r)
    <3>1. Len(q) + 1 \in DOMAIN r
      BY <1>2
    <3>. QED BY <1>1, <3>1 DEF Range
  <2>. QED BY <2>1, <2>2, <2>3 DEF Range
<1>4. IsInjective(r)
  <2> SUFFICES ASSUME NEW j \in DOMAIN r, NEW k \in DOMAIN r, r[j] = r[k] PROVE j = k
    BY DEF IsInjective
  <2>1. ASSUME NEW m \in 1 .. Len(q) PROVE q[m] # t
    BY <1>2 DEF Range
  <2>2. CASE j \in 1 .. Len(q) /\ k \in 1 .. Len(q)
    BY <1>1, <1>2, <2>2 DEF IsInjective
  <2>3. CASE j \in 1 .. Len(q) /\ k = Len(q) + 1
    BY <1>1, <2>1, <2>3
  <2>4. CASE k \in 1 .. Len(q) /\ j = Len(q) + 1
    BY <1>1, <2>1, <2>4
  <2>. QED BY <1>2, <2>2, <2>3, <2>4
<1>. QED BY <1>1, <1>2, <1>3, <1>4 DEF r

-----------------------------------------------------------------------------
(* The containers of the bus and the order of the events.                  *)

Containers ==
    /\ queue \in Seq(Token) /\ sequence \in Nat
    /\ pending \in [DOMAIN pending -> Event] /\ DOMAIN pending \subseteq Token
    /\ Len(queue) <= MaxSize
    /\ Range(queue) = DOMAIN pending
    /\ IsInjective(queue)
    /\ coalescing = {t \in DOMAIN pending : Coalesces(pending[t])}
    /\ \A t \in DOMAIN pending :
         IF Coalesces(pending[t]) THEN t = pending[t].key ELSE t \in 0 .. sequence - 1

\* Events of a key are popped in the order of publication.
PopOrder ==
    \A i, j \in DOMAIN queue :
      i < j /\ pending[queue[i]].key = pending[queue[j]].key
        => pending[queue[i]].ver < pending[queue[j]].ver

\* What waits is newer than what was delivered and not newer than what was published,
\* and `e` is newer than all of its key.
Between == \A t \in DOMAIN pending :
    /\ delivered[pending[t].key] < pending[t].ver
    /\ pending[t].ver <= published[pending[t].key]
NewerThanBus(e) ==
    /\ delivered[e.key] < e.ver /\ e.ver <= published[e.key]
    /\ \A t \in DOMAIN pending : pending[t].key = e.key => pending[t].ver < e.ver

Scheduled ==
    /\ calls \in Seq(Event)
    /\ \A i \in DOMAIN calls : NewerThanBus(calls[i])
    /\ \A i, j \in DOMAIN calls :
         i < j /\ calls[i].key = calls[j].key => calls[i].ver < calls[j].ver

Rest ==
    /\ ready \in BOOLEAN /\ loop \in Loop
    /\ coalesced \in Nat /\ dropped \in Nat /\ dispatched \in Nat
    /\ handlers \subseteq Event
    /\ published \in [Keys -> Version] /\ delivered \in [Keys -> Version]
    /\ \A k \in Keys : delivered[k] <= published[k]

BusInv == Containers /\ PopOrder /\ Between /\ Scheduled /\ Rest

LEMMA VersionNat == Version \subseteq Nat /\ \A k \in Keys : 0 .. MaxVersion[k] \subseteq Version
BY ConstantsAssumption DEF Version

\* Two tokens never stand for the same event.
LEMMA DistinctEvents ==
    ASSUME Containers, PopOrder
    PROVE  \A t, u \in DOMAIN pending : pending[t] = pending[u] => t = u
<1> SUFFICES ASSUME NEW t \in DOMAIN pending, NEW u \in DOMAIN pending,
                    pending[t] = pending[u], t # u
             PROVE  FALSE
    OBVIOUS
<1>1. PICK i \in DOMAIN queue, j \in DOMAIN queue : queue[i] = t /\ queue[j] = u
    BY DEF Containers, Range
<1>2. pending[t].ver \in Nat
    BY VersionNat DEF Containers, Event
<1>3. DOMAIN queue = 1 .. Len(queue) /\ Len(queue) \in Nat
    BY DEF Containers
<1>4. i < j \/ j < i
    BY <1>1, <1>3
<1>5. ~ (pending[t].ver < pending[u].ver) /\ ~ (pending[u].ver < pending[t].ver)
    BY <1>2
<1>. QED BY <1>1, <1>4, <1>5 DEF PopOrder

-----------------------------------------------------------------------------
(* publish_nowait.                                                         *)

LEMMA PublishKeeps ==
    ASSUME BusInv, NEW k \in Keys, Publish(k)
    PROVE  BusInv'
<1> DEFINE e == [key |-> k, ver |-> published[k] + 1]
<1>1. published[k] \in Nat /\ MaxVersion[k] \in Nat
    BY VersionNat, ConstantsAssumption DEF BusInv, Rest
<1>2. published[k] + 1 \in Version
    BY <1>1, VersionNat, published[k] + 1 \in 0 .. MaxVersion[k] DEF Publish
<1>3. e \in Event /\ e.key = k /\ e.ver = published[k] + 1
    BY <1>2 DEF Event
<1> HIDE DEF e
<1>4. published' \in [Keys -> Version] /\ published'[k] = published[k] + 1
      /\ \A j \in Keys : published[j] <= published'[j]
  <2>1. published' = [published EXCEPT ![k] = published[k] + 1]
    BY DEF Publish
  <2>2. published \in [Keys -> Version]
    BY DEF BusInv, Rest
  <2>3. published' \in [Keys -> Version] /\ published'[k] = published[k] + 1
        /\ \A j \in Keys \ {k} : published'[j] = published[j]
    BY <1>2, <2>1, <2>2
  <2>4. \A j \in Keys : published[j] \in Nat
    BY <2>2, VersionNat
  <2>. QED BY <1>1, <2>3, <2>4
<1>5. UNCHANGED <<queue, pending, coalescing, ready, loop, sequence, handlers,
                  counters, delivered, dispatched>> /\ calls' = Append(calls, e)
    BY DEF Publish, e
<1>6. Containers' /\ PopOrder'
    BY <1>5 DEF BusInv, Containers, PopOrder
<1>7. Between'
  <2> SUFFICES ASSUME NEW t \in DOMAIN pending
               PROVE  /\ delivered[pending[t].key] < pending[t].ver
                      /\ pending[t].ver <= published'[pending[t].key]
    BY <1>5 DEF Between
  <2>1. /\ pending[t].key \in Keys /\ pending[t].ver \in Nat
        /\ published[pending[t].key] \in Nat /\ published'[pending[t].key] \in Nat
    BY <1>4, VersionNat DEF BusInv, Containers, Event, Rest
  <2>. QED BY <1>4, <2>1 DEF BusInv, Between
<1>8. Rest'
  <2> SUFFICES ASSUME NEW j \in Keys PROVE delivered[j] <= published'[j]
    BY <1>4, <1>5 DEF BusInv, Rest, counters
  <2>1. delivered[j] \in Nat /\ published[j] \in Nat /\ published'[j] \in Nat
    BY <1>4, VersionNat DEF BusInv, Rest
  <2>. QED BY <1>4, <2>1 DEF BusInv, Rest
<1>9. Scheduled'
  <2>1. /\ calls' \in Seq(Event) /\ Len(calls') = Len(calls) + 1
        /\ \A i \in 1 .. Len(calls) : calls'[i] = calls[i]
        /\ calls'[Len(calls) + 1] = e
    BY <1>3, <1>5, AppendProperties DEF BusInv, Scheduled
  <2>2. DOMAIN calls = 1 .. Len(calls) /\ DOMAIN calls' = 1 .. Len(calls) + 1
        /\ Len(calls) \in Nat
    BY <2>1 DEF BusInv, Scheduled
  <2>3. ASSUME NEW d \in Event, NewerThanBus(d)
        PROVE  /\ delivered'[d.key] < d.ver /\ d.ver <= published'[d.key]
               /\ \A t \in DOMAIN pending' : pending'[t].key = d.key => pending'[t].ver < d.ver
               /\ d.key = k => d.ver < e.ver
    <3>1. d.key \in Keys /\ d.ver \in Nat /\ published[d.key] \in Nat
          /\ published'[d.key] \in Nat
      BY <1>4, VersionNat DEF Event, BusInv, Rest
    <3>. QED BY <1>1, <1>3, <1>4, <1>5, <2>3, <3>1 DEF NewerThanBus
  <2>4. /\ delivered'[e.key] < e.ver /\ e.ver <= published'[e.key]
        /\ \A t \in DOMAIN pending' : pending'[t].key = e.key => pending'[t].ver < e.ver
    <3>1. delivered[k] < published[k] + 1
      <4>1. delivered[k] \in Nat /\ delivered[k] <= published[k]
        BY VersionNat DEF BusInv, Rest
      <4>. QED BY <1>1, <4>1
    <3>2. ASSUME NEW t \in DOMAIN pending, pending[t].key = k
          PROVE  pending[t].ver < published[k] + 1
      <4>1. pending[t].ver \in Nat /\ pending[t].ver <= published[k]
        BY <3>2, VersionNat DEF BusInv, Containers, Between, Event
      <4>. QED BY <1>1, <4>1
    <3>. QED BY <1>1, <1>3, <1>4, <1>5, <3>1, <3>2
  <2>5. ASSUME NEW i \in DOMAIN calls' PROVE NewerThanBus(calls[i])' 
    <3>1. CASE i \in DOMAIN calls
      <4>1. calls'[i] = calls[i] /\ calls[i] \in Event /\ NewerThanBus(calls[i])
        BY <2>1, <2>2, <3>1 DEF BusInv, Scheduled
      <4>. QED BY <2>3, <4>1 DEF NewerThanBus
    <3>2. CASE i = Len(calls) + 1
      BY <2>1, <2>4, <3>2 DEF NewerThanBus
    <3>. QED BY <2>2, <3>1, <3>2
  <2>6. ASSUME NEW i \in DOMAIN calls', NEW j \in DOMAIN calls', i < j,
               calls'[i].key = calls'[j].key
        PROVE  calls'[i].ver < calls'[j].ver
    <3>1. i \in DOMAIN calls /\ calls'[i] = calls[i]
      BY <2>1, <2>2, <2>6
    <3>2. CASE j \in DOMAIN calls
      BY <2>1, <2>2, <2>6, <3>1, <3>2 DEF BusInv, Scheduled
    <3>3. CASE j = Len(calls) + 1
      <4>1. calls[i] \in Event /\ NewerThanBus(calls[i])
        BY <3>1 DEF BusInv, Scheduled
      <4>. QED BY <1>3, <2>1, <2>3, <2>6, <3>1, <3>3, <4>1
    <3>. QED BY <2>2, <3>2, <3>3
  <2>. QED BY <2>1, <2>5, <2>6 DEF Scheduled
<1>. QED BY <1>6, <1>7, <1>8, <1>9 DEF BusInv

-----------------------------------------------------------------------------
(* _enqueue_event.                                                         *)

\* The event that is taken up.
LEMMA Taken ==
    ASSUME BusInv, calls # <<>>
    PROVE  /\ Head(calls) \in Event /\ NewerThanBus(Head(calls))
           /\ Tail(calls) \in Seq(Event) /\ Len(Tail(calls)) = Len(calls) - 1
           /\ \A i \in DOMAIN Tail(calls) :
                /\ NewerThanBus(Tail(calls)[i])
                /\ Tail(calls)[i].key = Head(calls).key => Head(calls).ver < Tail(calls)[i].ver
           /\ \A i, j \in DOMAIN Tail(calls) :
                i < j /\ Tail(calls)[i].key = Tail(calls)[j].key
                  => Tail(calls)[i].ver < Tail(calls)[j].ver
<1>1. /\ calls \in Seq(Event) /\ Len(calls) \in Nat /\ Len(calls) >= 1
      /\ DOMAIN calls = 1 .. Len(calls)
    BY EmptySeq, LenProperties DEF BusInv, Scheduled
<1>2. /\ Head(calls) = calls[1] /\ Tail(calls) \in Seq(Event)
      /\ Len(Tail(calls)) = Len(calls) - 1
      /\ \A i \in 1 .. Len(Tail(calls)) : Tail(calls)[i] = calls[i + 1]
    BY <1>1, HeadTailProperties DEF BusInv, Scheduled
<1>3. DOMAIN Tail(calls) = 1 .. Len(calls) - 1
    BY <1>2
<1>4. \A i \in DOMAIN Tail(calls) :
        Tail(calls)[i] = calls[i + 1] /\ i + 1 \in DOMAIN calls /\ 1 < i + 1
    BY <1>1, <1>2, <1>3
<1>5. 1 \in DOMAIN calls
    BY <1>1
<1>6. \A i, j \in DOMAIN Tail(calls) : i < j => i + 1 < j + 1
    BY <1>3
<1>. QED BY <1>1, <1>2, <1>4, <1>5, <1>6 DEF BusInv, Scheduled

\* Whatever the event does to the containers, once it is taken up what waits is the
\* event and events that waited before.
LEMMA TakenKeeps ==
    ASSUME BusInv, calls # <<>>, Containers', PopOrder',
           calls' = Tail(calls), UNCHANGED <<loop, handlers, published, delivered, dispatched>>,
           \A t \in DOMAIN pending' :
              \/ pending'[t] = Head(calls)
              \/ t \in DOMAIN pending /\ pending'[t] = pending[t],
           ready' \in BOOLEAN, coalesced' \in Nat, dropped' \in Nat
    PROVE  BusInv'
<1> DEFINE e == Head(calls)
<1>1. e \in Event /\ NewerThanBus(e)
    BY Taken
<1>2. Between'
    BY <1>1 DEF BusInv, Between, NewerThanBus
<1>3. ASSUME NEW i \in DOMAIN calls'
      PROVE  NewerThanBus(calls[i])'
    BY Taken DEF NewerThanBus
<1>4. Scheduled'
    BY <1>3, Taken DEF Scheduled
<1>5. Rest'
    BY DEF BusInv, Rest
<1>. QED BY <1>2, <1>4, <1>5 DEF BusInv

LEMMA SupersedeContainers ==
    ASSUME Containers, PopOrder, NEW e \in Event, NewerThanBus(e), Supersede(e)
    PROVE  /\ Containers' /\ PopOrder' /\ DOMAIN pending' = DOMAIN pending
           /\ \A t \in DOMAIN pending :
                pending'[t] = IF t = e.key THEN e ELSE pending[t]
<1>1. /\ pending' = [pending EXCEPT ![e.key] = e] /\ e.key \in DOMAIN pending
      /\ Coalesces(e) /\ UNCHANGED <<queue, coalescing, sequence>>
    BY DEF Supersede
<1>2. /\ pending' \in [DOMAIN pending -> Event] /\ DOMAIN pending' = DOMAIN pending
      /\ \A t \in DOMAIN pending : pending'[t] = IF t = e.key THEN e ELSE pending[t]
    BY <1>1 DEF Containers
<1>3. e.key \in Keys /\ pending[e.key].key \in Keys
    BY <1>1 DEF Containers, Event
<1>4. Coalesces(pending[e.key]) /\ pending[e.key].key = e.key
    BY <1>1, <1>3, ConstantsAssumption DEF Containers
<1>5. \A t \in DOMAIN pending : Coalesces(pending'[t]) <=> Coalesces(pending[t])
    BY <1>1, <1>2, <1>4
<1>6. coalescing' = {t \in DOMAIN pending : Coalesces(pending'[t])}
    BY <1>1, <1>5 DEF Containers
<1>7. Containers'
    BY <1>1, <1>2, <1>5, <1>6 DEF Containers, Coalesces, Kind
<1>8. PopOrder'
  <2> SUFFICES ASSUME NEW i \in DOMAIN queue, NEW j \in DOMAIN queue, i < j,
                      pending'[queue[i]].key = pending'[queue[j]].key
               PROVE  pending'[queue[i]].ver < pending'[queue[j]].ver
    BY <1>1 DEF PopOrder
  <2>1. queue[i] \in DOMAIN pending /\ queue[j] \in DOMAIN pending
    BY DEF Containers, Range
  <2>2. \A t \in DOMAIN pending : pending'[t].key = pending[t].key
    BY <1>2, <1>4
  <2>3. \A t \in DOMAIN pending : pending[t].key = e.key => t = e.key
    BY <1>1 DEF Containers, Coalesces, Kind
  <2>4. i # j /\ (queue[i] = e.key /\ queue[j] = e.key => i = j)
    BY DEF Containers, IsInjective
  <2>5. pending[queue[i]].key = pending[queue[j]].key
    BY <2>1, <2>2
  <2>6. queue[i] # e.key /\ queue[j] # e.key
    BY <1>4, <2>1, <2>3, <2>4, <2>5
  <2>7. pending'[queue[i]] = pending[queue[i]] /\ pending'[queue[j]] = pending[queue[j]]
    BY <1>2, <2>1, <2>6
  <2>8. pending[queue[i]].ver < pending[queue[j]].ver
    BY <2>5 DEF PopOrder
  <2>. QED BY <2>7, <2>8
<1>. QED BY <1>2, <1>7, <1>8

\* `r` keeps the order of the queue.
InOrder(r) ==
    \A j, k \in DOMAIN r : j < k =>
      \E m, n \in DOMAIN queue : m < n /\ queue[m] = r[j] /\ queue[n] = r[k]

\* `rest` is the queue without the tokens `gone`, and has room.
LEMMA StoreContainers ==
    ASSUME Containers, PopOrder, NEW e \in Event, NewerThanBus(e), IsNew(e),
           NEW rest \in Seq(Token), NEW gone \in SUBSET DOMAIN pending,
           Len(rest) < MaxSize, Range(rest) = DOMAIN pending \ gone, IsInjective(rest),
           InOrder(rest),
           Store(e, rest, gone)
    PROVE  /\ Containers' /\ PopOrder' /\ ready' = TRUE
           /\ Len(queue') = Len(rest) + 1
           /\ \E token : /\ token \notin DOMAIN pending
                         /\ DOMAIN pending' = (DOMAIN pending \ gone) \union {token}
                         /\ pending'[token] = e
                         /\ \A t \in DOMAIN pending \ gone : pending'[t] = pending[t]
<1> DEFINE token == IF Coalesces(e) THEN e.key ELSE sequence
           kept == DOMAIN pending \ gone
<1>1. /\ queue' = Append(rest, token)
      /\ pending' = [t \in kept \union {token} |-> IF t = token THEN e ELSE pending[t]]
      /\ coalescing' = (coalescing \ gone) \union (IF Coalesces(e) THEN {token} ELSE {})
      /\ sequence' = IF Coalesces(e) THEN sequence ELSE sequence + 1
      /\ ready' = TRUE
    BY DEF Store
<1>2. e.key \in Keys /\ sequence \in Nat
    BY DEF Event, Containers
<1>3. token \in Token
    BY <1>2 DEF Token
<1>4. token \notin DOMAIN pending
  <2>1. CASE Coalesces(e)
    BY <2>1 DEF IsNew
  <2>2. CASE ~Coalesces(e) /\ sequence \in DOMAIN pending
    <3>1. pending[sequence].key \in Keys
      BY <2>2 DEF Containers, Event
    <3>2. sequence \in 0 .. sequence - 1 \/ sequence \in Keys
      BY <2>2, <3>1 DEF Containers
    <3>. QED BY <1>2, <3>2, ConstantsAssumption
  <2>. QED BY <2>1, <2>2
<1>5. /\ token \in Keys <=> Coalesces(e)
      /\ Coalesces(e) => token = e.key
      /\ ~Coalesces(e) => token \in 0 .. sequence' - 1
    BY <1>1, <1>2, ConstantsAssumption
<1> HIDE DEF token
<1>6. /\ queue' \in Seq(Token) /\ Len(queue') = Len(rest) + 1
      /\ DOMAIN queue' = 1 .. Len(rest) + 1
      /\ \A j \in 1 .. Len(rest) : queue'[j] = rest[j]
      /\ queue'[Len(rest) + 1] = token
      /\ Range(queue') = kept \union {token}
      /\ IsInjective(queue')
    BY <1>1, <1>3, <1>4, AppendRange
<1>7. /\ DOMAIN pending' = kept \union {token} /\ pending'[token] = e
      /\ \A t \in kept : pending'[t] = pending[t]
      /\ pending' \in [DOMAIN pending' -> Event]
    BY <1>1, <1>4 DEF Containers
<1>8. coalescing' = {t \in DOMAIN pending' : Coalesces(pending'[t])}
    BY <1>1, <1>4, <1>7 DEF Containers, Coalesces, Kind
<1>9. \A t \in DOMAIN pending' :
        IF Coalesces(pending'[t]) THEN t = pending'[t].key ELSE t \in 0 .. sequence' - 1
  <2>1. sequence' \in Nat /\ sequence <= sequence'
    BY <1>1, <1>2
  <2>2. ASSUME NEW t \in kept
        PROVE  IF Coalesces(pending[t]) THEN t = pending[t].key ELSE t \in 0 .. sequence' - 1
    <3>1. CASE Coalesces(pending[t])
      BY <3>1 DEF Containers
    <3>2. CASE ~Coalesces(pending[t])
      <4>1. t \in 0 .. sequence - 1
        BY <3>2 DEF Containers
      <4>. QED BY <1>2, <2>1, <3>2, <4>1
    <3>. QED BY <3>1, <3>2
  <2>. QED BY <1>5, <1>7, <2>2
<1>10. Containers'
  <2>1. Len(rest) + 1 <= MaxSize /\ sequence' \in Nat /\ DOMAIN pending' \subseteq Token
    BY <1>1, <1>2, <1>3, <1>7, ConstantsAssumption DEF Containers
  <2>. QED BY <1>6, <1>7, <1>8, <1>9, <2>1 DEF Containers, Coalesces, Kind
<1>11. PopOrder'
  <2> SUFFICES ASSUME NEW i \in DOMAIN queue', NEW j \in DOMAIN queue', i < j,
                      pending'[queue'[i]].key = pending'[queue'[j]].key
               PROVE  pending'[queue'[i]].ver < pending'[queue'[j]].ver
    BY DEF PopOrder
  <2>1. DOMAIN rest = 1 .. Len(rest) /\ Len(rest) \in Nat
    OBVIOUS
  <2>2. i \in DOMAIN rest /\ queue'[i] = rest[i]
    BY <1>6, <2>1
  <2>3. rest[i] \in kept /\ pending'[rest[i]] = pending[rest[i]]
    BY <1>7, <2>2 DEF Range
  <2>4. CASE j = Len(rest) + 1
    <3>1. queue'[j] = token /\ pending'[queue'[j]] = e
      BY <1>6, <1>7, <2>4
    <3>. QED BY <2>2, <2>3, <3>1 DEF NewerThanBus
  <2>5. CASE j \in DOMAIN rest
    <3>1. queue'[j] = rest[j] /\ rest[j] \in kept /\ pending'[rest[j]] = pending[rest[j]]
      BY <1>6, <1>7, <2>1, <2>5 DEF Range
    <3>2. PICK m \in DOMAIN queue, n \in DOMAIN queue :
             m < n /\ queue[m] = rest[i] /\ queue[n] = rest[j]
      BY <2>2, <2>5 DEF InOrder
    <3>. QED BY <2>2, <2>3, <3>1, <3>2 DEF PopOrder
  <2>. QED BY <1>6, <2>1, <2>4, <2>5
<1>. QED BY <1>1, <1>4, <1>6, <1>7, <1>10, <1>11

\* The first token of a set of queued tokens has a place in the queue.
LEMMA OldestExists ==
    ASSUME queue \in Seq(Token), NEW T \in SUBSET Range(queue), T # {}
    PROVE  OldestOf(T) \in 1 .. Len(queue) /\ queue[OldestOf(T)] \in T
<1> DEFINE P == {i \in DOMAIN queue : queue[i] \in T}
<1>1. DOMAIN queue = 1 .. Len(queue) /\ Len(queue) \in Nat
    OBVIOUS
<1>2. P \in SUBSET Nat /\ P # {}
    BY <1>1 DEF Range
<1>3. PICK i \in P : \A j \in P : i <= j
    BY <1>2, LeastExists
<1>4. \A j \in 1 .. (i - 1) : queue[j] \notin T
    BY <1>1, <1>3
<1>5. \E k \in DOMAIN queue : queue[k] \in T /\ \A j \in 1 .. (k - 1) : queue[j] \notin T
    BY <1>3, <1>4
<1>. QED BY <1>1, <1>5 DEF OldestOf

LEMMA DisplaceableQueued ==
    ASSUME Containers, NEW e
    PROVE  Displaceable(e) \subseteq Range(queue)
BY DEF Containers, Displaceable, FirstChoice, Fallback, QueuedOf

\* How an event that is taken up gets into the containers: `token` is new or stands for
\* what the event replaces, and at most one token is gone.
Stored(e, gone, token) ==
    /\ gone \subseteq DOMAIN pending
    /\ gone = {} \/ \E v : gone = {v}
    /\ token \in DOMAIN pending => token \in gone
    /\ DOMAIN pending' = (DOMAIN pending \ gone) \union {token}
    /\ pending'[token] = e
    /\ \A t \in DOMAIN pending \ gone : pending'[t] = pending[t]

LEMMA TakeUp ==
    ASSUME BusInv, NEW e \in Event, NewerThanBus(e),
           Supersede(e) \/ Admit(e) \/ Displace(e) \/ Reject(e)
    PROVE  /\ Containers' /\ PopOrder'
           /\ ready' \in BOOLEAN /\ coalesced' \in Nat /\ dropped' \in Nat
           /\ Len(queue') + coalesced' + dropped' = Len(queue) + coalesced + dropped + 1
           /\ \/ pending' = pending
              \/ \E gone, token : Stored(e, gone, token)
<1>1. /\ Containers /\ PopOrder /\ queue \in Seq(Token) /\ Len(queue) \in Nat
      /\ coalesced \in Nat /\ dropped \in Nat /\ ready \in BOOLEAN
    BY DEF BusInv, Containers, Rest
<1>2. CASE Supersede(e)
  <2>1. /\ Containers' /\ PopOrder' /\ DOMAIN pending' = DOMAIN pending
        /\ \A t \in DOMAIN pending :
             pending'[t] = IF t = e.key THEN e ELSE pending[t]
    BY <1>1, <1>2, SupersedeContainers
  <2>2. /\ queue' = queue /\ coalesced' = coalesced + 1 /\ dropped' = dropped
        /\ ready' = TRUE /\ e.key \in DOMAIN pending
    BY <1>2 DEF Supersede
  <2>3. Stored(e, {e.key}, e.key)
    BY <2>1, <2>2 DEF Stored
  <2>. QED BY <1>1, <2>1, <2>2, <2>3
<1>3. CASE Admit(e)
  <2> DEFINE none == {}
             rest == queue
  <2>1. IsNew(e) /\ Len(rest) < MaxSize /\ Store(e, rest, none) /\ UNCHANGED counters
    BY <1>3 DEF Admit
  <2>2. /\ rest \in Seq(Token) /\ Len(rest) = Len(queue)
        /\ Range(rest) = DOMAIN pending \ none /\ IsInjective(rest)
        /\ none \in SUBSET DOMAIN pending
    BY <1>1 DEF Containers
  <2>3. InOrder(rest)
    BY DEF InOrder
  <2> HIDE DEF none, rest
  <2>4. /\ Containers' /\ PopOrder' /\ ready' = TRUE
        /\ Len(queue') = Len(rest) + 1
        /\ \E token : /\ token \notin DOMAIN pending
                      /\ DOMAIN pending' = (DOMAIN pending \ none) \union {token}
                      /\ pending'[token] = e
                      /\ \A t \in DOMAIN pending \ none : pending'[t] = pending[t]
    BY <1>1, <2>1, <2>2, <2>3, StoreContainers
  <2>5. \E token : Stored(e, none, token)
    BY <2>2, <2>4 DEF Stored, none
  <2>6. Len(queue') + coalesced' + dropped' = Len(queue) + coalesced + dropped + 1
    BY <1>1, <2>1, <2>2, <2>4 DEF counters
  <2>7. coalesced' \in Nat /\ dropped' \in Nat
    BY <1>1, <2>1 DEF counters
  <2>. QED BY <2>4, <2>5, <2>6, <2>7
<1>4. CASE Displace(e)
  <2> DEFINE index == OldestOf(Displaceable(e))
             victim == queue[index]
             rest == RemoveAt(queue, index)
  <2>1. /\ IsNew(e) /\ Len(queue) >= MaxSize /\ Displaceable(e) # {}
        /\ Store(e, rest, {victim})
        /\ \/ coalesced' = coalesced + 1 /\ dropped' = dropped
           \/ coalesced' = coalesced /\ dropped' = dropped + 1
    BY <1>4 DEF Displace
  <2>2. index \in 1 .. Len(queue)
    BY <1>1, <2>1, DisplaceableQueued, OldestExists
  <2> HIDE DEF index
  <2>3. victim \in DOMAIN pending
    BY <1>1, <2>2 DEF Containers, Range
  <2>4. IsInjective(queue) /\ Range(queue) = DOMAIN pending /\ Len(queue) <= MaxSize
    BY <1>1 DEF Containers
  <2>5. /\ rest \in Seq(Token) /\ Len(rest) = Len(queue) - 1
        /\ Range(rest) = Range(queue) \ {victim}
        /\ IsInjective(rest)
        /\ InOrder(rest)
    BY <1>1, <2>2, <2>4, RemoveAtRange DEF InOrder
  <2> HIDE DEF victim, rest
  <2>6. Len(rest) < MaxSize /\ Range(rest) = DOMAIN pending \ {victim}
        /\ {victim} \in SUBSET DOMAIN pending
    BY <1>1, <2>3, <2>4, <2>5, ConstantsAssumption
  <2>7. /\ Containers' /\ PopOrder' /\ ready' = TRUE
        /\ Len(queue') = Len(rest) + 1
        /\ \E token : /\ token \notin DOMAIN pending
                      /\ DOMAIN pending' = (DOMAIN pending \ {victim}) \union {token}
                      /\ pending'[token] = e
                      /\ \A t \in DOMAIN pending \ {victim} : pending'[t] = pending[t]
    BY <1>1, <2>1, <2>5, <2>6, StoreContainers
  <2>8. \E token : Stored(e, {victim}, token)
    BY <2>3, <2>7 DEF Stored
  <2>9. Len(queue') = Len(queue)
    BY <1>1, <2>5, <2>7
  <2>10. /\ coalesced' \in Nat /\ dropped' \in Nat
         /\ Len(queue') + coalesced' + dropped' = Len(queue) + coalesced + dropped + 1
    BY <1>1, <2>1, <2>9
  <2>. QED BY <2>7, <2>8, <2>10
<1>5. CASE Reject(e)
  <2>1. /\ dropped' = dropped + 1
        /\ UNCHANGED <<queue, pending, coalescing, ready, sequence, coalesced>>
    BY <1>5 DEF Reject
  <2>2. Containers' /\ PopOrder'
    BY <1>1, <2>1 DEF Containers, PopOrder
  <2>. QED BY <1>1, <2>1, <2>2
<1>. QED BY <1>2, <1>3, <1>4, <1>5

LEMMA EnqueueKeeps ==
    ASSUME BusInv, Enqueue
    PROVE  /\ BusInv' /\ Total' = Total
           /\ \/ pending' = pending
              \/ \E gone, token : Stored(Head(calls), gone, token)
<1> DEFINE e == Head(calls)
<1>1. /\ calls # <<>> /\ calls' = Tail(calls)
      /\ UNCHANGED <<loop, handlers, published, delivered, dispatched>>
      /\ Supersede(e) \/ Admit(e) \/ Displace(e) \/ Reject(e)
    BY DEF Enqueue
<1>2. e \in Event /\ NewerThanBus(e) /\ Len(calls') = Len(calls) - 1
    BY <1>1, Taken
<1> HIDE DEF e
<1>3. /\ Containers' /\ PopOrder'
      /\ ready' \in BOOLEAN /\ coalesced' \in Nat /\ dropped' \in Nat
      /\ Len(queue') + coalesced' + dropped' = Len(queue) + coalesced + dropped + 1
      /\ \/ pending' = pending
         \/ \E gone, token : Stored(e, gone, token)
    BY <1>1, <1>2, TakeUp
<1>4. ASSUME NEW t \in DOMAIN pending'
      PROVE  pending'[t] = e \/ (t \in DOMAIN pending /\ pending'[t] = pending[t])
    BY <1>3 DEF Stored
<1>5. BusInv'
    BY <1>1, <1>3, <1>4, TakenKeeps DEF e
<1>6. Total' = Total
  <2>1. /\ Len(calls) \in Nat /\ Len(queue) \in Nat /\ Len(queue') \in Nat
        /\ coalesced \in Nat /\ dropped \in Nat /\ dispatched \in Nat
    BY <1>3, LenProperties DEF BusInv, Containers, Scheduled, Rest
  <2>2. dispatched' = dispatched /\ Len(calls') = Len(calls) - 1
    BY <1>1, <1>2
  <2>3. /\ coalesced' \in Nat /\ dropped' \in Nat
        /\ Len(queue') + coalesced' + dropped' = Len(queue) + coalesced + dropped + 1
    BY <1>3
  <2>4. /\ Total = Len(calls) + dispatched + (Len(queue) + coalesced + dropped)
        /\ Total' = Len(calls') + dispatched' + (Len(queue') + coalesced' + dropped')
    BY <2>1, <2>2, <2>3, SMTT(30) DEF Total
  <2>. QED BY <2>1, <2>2, <2>3, <2>4
<1>. QED BY <1>3, <1>5, <1>6 DEF e

-----------------------------------------------------------------------------
(* run.                                                                    *)

\* What a batch makes of the newest delivered version of a key.
Served(k) == {delivered[k]} \union {e.ver : e \in {f \in Range(Batch) : f.key = k}}

LEMMA BatchRange ==
    ASSUME Containers
    PROVE  Range(Batch) = {pending[t] : t \in DOMAIN pending}
<1>1. Range(Batch) = {pending[queue[i]] : i \in DOMAIN queue}
    BY DEF Range, Batch
<1>2. DOMAIN pending = {queue[i] : i \in DOMAIN queue}
    BY DEF Containers, Range
<1>. QED BY <1>1, <1>2

LEMMA ServedMax ==
    ASSUME BusInv, NEW k \in Keys
    PROVE  /\ Max(Served(k)) \in Served(k)
           /\ \A v \in Served(k) : v <= Max(Served(k))
           /\ Served(k) \subseteq Version
           /\ \A v \in Served(k) : v <= published[k]
<1>1. delivered[k] \in Version /\ published[k] \in Nat /\ delivered[k] <= published[k]
    BY VersionNat DEF BusInv, Rest
<1>2. ASSUME NEW f \in Range(Batch), f.key = k
      PROVE  f.ver \in Version /\ f.ver <= published[k]
  <2>1. PICK t \in DOMAIN pending : f = pending[t]
    BY <1>2, BatchRange DEF BusInv
  <2>. QED BY <1>2, <2>1 DEF BusInv, Containers, Between, Event
<1>3. Served(k) \subseteq Version /\ \A v \in Served(k) : v <= published[k]
    BY <1>1, <1>2 DEF Served
<1>4. Served(k) # {} /\ Served(k) \in SUBSET Nat
    BY <1>3, VersionNat DEF Served
<1>5. PICK m \in Served(k) : \A v \in Served(k) : v <= m
    BY <1>1, <1>3, <1>4, GreatestExists
<1>6. \A v \in Served(k) : m >= v
    BY <1>4, <1>5
<1>7. \E x \in Served(k) : \A v \in Served(k) : x >= v
    BY <1>6
<1>8. Max(Served(k)) \in Served(k) /\ \A v \in Served(k) : Max(Served(k)) >= v
    BY <1>7 DEF Max
<1>9. \A v \in Served(k) : v <= Max(Served(k))
    BY <1>4, <1>8
<1>. QED BY <1>3, <1>8, <1>9

LEMMA DispatchKeeps ==
    ASSUME BusInv, Dispatch
    PROVE  BusInv' /\ Total' = Total /\ delivered' = [k \in Keys |-> Max(Served(k))]
<1>1. /\ loop' = "waiting" /\ handlers' = handlers \union Range(Batch)
      /\ dispatched' = dispatched + Len(queue) /\ queue' = <<>> /\ coalescing' = {}
      /\ pending' = NoEvents /\ ready' = FALSE
      /\ UNCHANGED <<calls, sequence, counters, published>>
    BY DEF Dispatch
<1>2. delivered' = [k \in Keys |-> Max(Served(k))]
    BY DEF Dispatch, Served
<1>3. DOMAIN pending' = {} /\ pending' \in [{} -> Event] /\ DOMAIN queue' = {}
      /\ queue' \in Seq(Token) /\ Len(queue') = 0
    BY <1>1, EmptySeq DEF NoEvents
<1>4. Containers' /\ PopOrder' /\ Between'
  <2>1. Range(queue') = {} /\ IsInjective(queue')
    BY <1>3 DEF Range, IsInjective
  <2>. QED BY <1>1, <1>3, <2>1, ConstantsAssumption
           DEF BusInv, Containers, PopOrder, Between
<1>5. ASSUME NEW k \in Keys
      PROVE  delivered'[k] \in Version /\ delivered'[k] <= published[k]
    BY <1>2, ServedMax
<1>6. Rest'
  <2>1. Range(Batch) \subseteq Event
    BY BatchRange DEF BusInv, Containers
  <2>2. delivered' \in [Keys -> Version]
    BY <1>2, <1>5
  <2>3. dispatched' \in Nat
    BY <1>1 DEF BusInv, Rest, Containers
  <2>. QED BY <1>1, <1>5, <2>1, <2>2, <2>3 DEF BusInv, Rest, Loop, counters
<1>7. ASSUME NEW e \in Event, NewerThanBus(e)
      PROVE  NewerThanBus(e)'
  <2>1. e.key \in Keys /\ e.ver \in Nat
    BY VersionNat DEF Event
  <2>2. \A f \in Range(Batch) : f.key = e.key => f.ver < e.ver
    BY <1>7, BatchRange DEF BusInv, NewerThanBus
  <2>3. \A v \in Served(e.key) : v < e.ver
    BY <1>7, <2>2 DEF Served, NewerThanBus
  <2>4. delivered'[e.key] = Max(Served(e.key))
    BY <1>2, <2>1
  <2>5. delivered'[e.key] < e.ver
    BY <2>1, <2>3, <2>4, ServedMax
  <2>. QED BY <1>1, <1>3, <1>7, <2>5 DEF NewerThanBus
<1>8. Scheduled'
  <2>1. \A i \in DOMAIN calls : calls[i] \in Event
    BY DEF BusInv, Scheduled
  <2>2. \A i \in DOMAIN calls' : calls[i]' = calls[i]
    BY <1>1
  <2>3. ASSUME NEW i \in DOMAIN calls' PROVE NewerThanBus(calls[i])'
    BY <1>1, <1>7, <2>1, <2>3 DEF BusInv, Scheduled, NewerThanBus
  <2>. QED BY <1>1, <2>3 DEF BusInv, Scheduled
<1>9. Total' = Total
  <2>1. /\ Len(calls) \in Nat /\ Len(queue) \in Nat
        /\ coalesced \in Nat /\ dropped \in Nat /\ dispatched \in Nat
    BY LenProperties DEF BusInv, Containers, Scheduled, Rest
  <2>2. Len(calls') = Len(calls) /\ coalesced' = coalesced /\ dropped' = dropped
    BY <1>1 DEF counters
  <2>. QED BY <1>1, <1>3, <2>1, <2>2 DEF Total
<1>. QED BY <1>2, <1>4, <1>6, <1>8, <1>9 DEF BusInv

\* The end of a handler and the shutdown touch no event.
LEMMA OthersKeep ==
    ASSUME BusInv,
           (\E e \in handlers : HandlerEnds(e)) \/ Stop \/ Stopped \/ UNCHANGED vars
    PROVE  /\ BusInv' /\ Total' = Total
           /\ UNCHANGED <<pending, delivered, published>>
<1>1. /\ UNCHANGED <<calls, queue, pending, coalescing, ready, sequence, counters,
                     published, delivered, dispatched>>
      /\ loop' \in {loop, "stopping", "stopped"} /\ handlers' \subseteq handlers
    BY DEF HandlerEnds, Stop, Stopped, vars, counters
<1>2. Containers' /\ PopOrder' /\ Between'
    BY <1>1 DEF BusInv, Containers, PopOrder, Between
<1>3. Scheduled'
    BY <1>1 DEF BusInv, Scheduled, NewerThanBus
<1>4. Rest'
    BY <1>1 DEF BusInv, Rest, Loop, counters
<1>. QED BY <1>1, <1>2, <1>3, <1>4 DEF BusInv, Total, counters

LEMMA BusInit == Init => BusInv
<1> SUFFICES ASSUME Init PROVE BusInv
    OBVIOUS
<1>1. DOMAIN pending = {} /\ pending \in [{} -> Event] /\ DOMAIN queue = {} /\ DOMAIN calls = {}
      /\ queue \in Seq(Token) /\ Len(queue) = 0 /\ calls \in Seq(Event)
    BY EmptySeq DEF Init, NoEvents
<1>2. Range(queue) = {} /\ IsInjective(queue)
    BY <1>1 DEF Range, IsInjective
<1>3. 0 \in Version
    BY DEF Version
<1>4. Containers /\ PopOrder /\ Between
    BY <1>1, <1>2, ConstantsAssumption DEF Init, Containers, PopOrder, Between
<1>5. Scheduled
    BY <1>1 DEF Scheduled
<1>6. Rest
  <2>1. /\ published \in [Keys -> Version] /\ delivered \in [Keys -> Version]
        /\ \A k \in Keys : delivered[k] = 0 /\ published[k] = 0
    BY <1>3 DEF Init
  <2>2. \A k \in Keys : delivered[k] <= published[k]
    BY <2>1
  <2>. QED BY <2>1, <2>2 DEF Init, Rest, Loop
<1>. QED BY <1>4, <1>5, <1>6 DEF BusInv

LEMMA BusNext == BusInv /\ [Next]_vars => BusInv'
<1> SUFFICES ASSUME BusInv, [Next]_vars PROVE BusInv'
    OBVIOUS
<1>1. CASE \E k \in Keys : Publish(k)
    BY <1>1, PublishKeeps
<1>2. CASE Enqueue
    BY <1>2, EnqueueKeeps
<1>3. CASE Dispatch
    BY <1>3, DispatchKeeps
<1>4. CASE (\E e \in handlers : HandlerEnds(e)) \/ Stop \/ Stopped \/ UNCHANGED vars
    BY <1>4, OthersKeep
<1>. QED BY <1>1, <1>2, <1>3, <1>4 DEF Next

\* The queue, the dictionary of pending events and the set of coalescing keys agree,
\* and the capacity is kept, whatever is replaced, displaced, rejected or dispatched.
THEOREM ContainersAgree == Spec => []QueueMatchesPending
<1>1. ASSUME BusInv PROVE QueueMatchesPending
  <2>1. \A t \in coalescing : pending[t].key = t /\ t \in Keys
    BY <1>1 DEF BusInv, Containers, Event
  <2>2. TypeOK
    BY <1>1, <2>1 DEF BusInv, Containers, Scheduled, Rest, TypeOK
  <2>. QED BY <1>1, <2>1, <2>2 DEF BusInv, Containers, QueueMatchesPending
<1>. QED BY <1>1, BusInit, BusNext, PTL DEF Spec

\* An event is newer than all that handlers were given of its key and than what is
\* popped before it, also when it takes the place of one that waited.
THEOREM NoKeyGoesBack == Spec => []PerKeyOrder
<1>1. ASSUME BusInv PROVE PerKeyOrder
    BY <1>1 DEF BusInv, PopOrder, Between, Scheduled, NewerThanBus, Rest, PerKeyOrder
<1>. QED BY <1>1, BusInit, BusNext, PTL DEF Spec

LEMMA PublishAdds ==
    ASSUME BusInv, NEW k \in Keys, Publish(k)
    PROVE  Total' = Total + 1 /\ published' # published
<1> DEFINE e == [key |-> k, ver |-> published[k] + 1]
<1>1. calls' = Append(calls, e) /\ UNCHANGED <<queue, counters, dispatched>>
    BY DEF Publish
<1>2. calls' \in Seq(Event)
    BY PublishKeeps DEF BusInv, Scheduled
<1> HIDE DEF e
<1>3. Len(calls') = Len(calls) + 1
    BY <1>1, AppendProperties DEF BusInv, Scheduled
<1>4. /\ Len(calls) \in Nat /\ Len(queue) \in Nat
      /\ coalesced \in Nat /\ dropped \in Nat /\ dispatched \in Nat
    BY LenProperties DEF BusInv, Containers, Scheduled, Rest
<1>5. published \in [Keys -> Version] /\ published[k] \in Nat
    BY VersionNat DEF BusInv, Rest
<1>6. published' # published
    BY <1>5 DEF Publish
<1>. QED BY <1>1, <1>3, <1>4, <1>6 DEF Total, counters

\* stats(): a loss or a replacement is counted once, however the containers changed.
THEOREM EveryEventIsAccounted == Spec => NothingVanishes
<1>1. ASSUME BusInv, Next
      PROVE  Total' = IF published' = published THEN Total ELSE Total + 1
  <2>1. CASE \E k \in Keys : Publish(k)
    BY <1>1, <2>1, PublishAdds
  <2>2. CASE Enqueue
    BY <1>1, <2>2, EnqueueKeeps DEF Enqueue
  <2>3. CASE Dispatch
    BY <1>1, <2>3, DispatchKeeps DEF Dispatch
  <2>4. CASE (\E e \in handlers : HandlerEnds(e)) \/ Stop \/ Stopped
    <3>1. Total' = Total /\ published' = published
      BY <1>1, <2>4, OthersKeep
    <3>. QED BY <3>1
  <2>. QED BY <1>1, <2>1, <2>2, <2>3, <2>4 DEF Next
<1>. QED BY <1>1, BusInit, BusNext, PTL DEF Spec, NothingVanishes

-----------------------------------------------------------------------------
(* The bus implements EventMailbox.                                        *)

Inbox == {pending[t] : t \in DOMAIN pending}

LEMMA MailboxAccepts ==
    ASSUME BusInv, NEW e \in Event, NewerThanBus(e), NEW gone, NEW token,
           Stored(e, gone, token), delivered' = delivered
    PROVE  Mailbox!Next
<1> DEFINE lost == {pending[t] : t \in gone}
<1>1. /\ gone \subseteq DOMAIN pending
      /\ gone = {} \/ \E v : gone = {v}
      /\ token \in DOMAIN pending => token \in gone
      /\ DOMAIN pending' = (DOMAIN pending \ gone) \union {token}
      /\ pending'[token] = e
      /\ \A t \in DOMAIN pending \ gone : pending'[t] = pending[t]
    BY DEF Stored
<1>2. lost \in SUBSET Inbox
    BY <1>1 DEF Inbox
<1>3. Cardinality(lost) <= 1
  <2>1. CASE gone = {}
    <3>1. lost = {}
      BY <2>1
    <3>. QED BY <3>1, FS_EmptySet
  <2>2. CASE \E v : gone = {v}
    <3>1. PICK v : gone = {v}
      BY <2>2
    <3>2. lost = {pending[v]}
      BY <3>1
    <3>3. Cardinality({pending[v]}) = 1
      BY FS_Singleton
    <3>. QED BY <3>2, <3>3
  <2>. QED BY <1>1, <2>1, <2>2
<1>4. \A t, u \in DOMAIN pending : pending[t] = pending[u] => t = u
    BY DistinctEvents DEF BusInv
<1>5. Inbox \ lost = {pending[t] : t \in DOMAIN pending \ gone}
    BY <1>1, <1>4 DEF Inbox
<1>6. Inbox' = {pending'[t] : t \in DOMAIN pending'}
    BY DEF Inbox
<1>7. Inbox' = (Inbox \ lost) \union {e}
  <2>1. \A t \in DOMAIN pending \ gone : t # token
    BY <1>1
  <2>. QED BY <1>1, <1>5, <1>6, <2>1
<1>8. e.key \in Keys /\ e.ver \in Version /\ e = [key |-> e.key, ver |-> e.ver]
    BY DEF Event
<1> HIDE DEF lost
<1>9. Mailbox!Newer(e)
  <2>1. e.ver \in Nat /\ delivered[e.key] \in Nat
    BY <1>8, VersionNat DEF BusInv, Rest
  <2>2. \A t \in DOMAIN pending : pending[t].ver \in Nat
    BY VersionNat DEF BusInv, Containers, Event
  <2>3. e.ver > delivered[e.key]
    BY <2>1 DEF NewerThanBus
  <2>4. \A f \in Inbox : f.key = e.key => e.ver > f.ver
    BY <2>1, <2>2 DEF NewerThanBus, Inbox
  <2>. QED BY <2>3, <2>4 DEF Mailbox!Newer, Inbox
<1>10. Mailbox!Accept(e)
  <2>1. Mailbox!Cardinality(lost) = Cardinality(lost)
    BY DEF Mailbox!Cardinality, Cardinality
  <2>2. \E l \in SUBSET Inbox :
          Mailbox!Cardinality(l) <= 1 /\ Inbox' = (Inbox \ l) \union {e}
    BY <1>2, <1>3, <1>7, <2>1
  <2>. QED BY <1>9, <2>2 DEF Mailbox!Accept, Inbox
<1>. QED BY <1>8, <1>10 DEF Mailbox!Next

LEMMA MailboxDelivers ==
    ASSUME BusInv, Dispatch
    PROVE  Mailbox!Next \/ UNCHANGED <<Inbox, delivered>>
<1>1. delivered' = [k \in Keys |-> Max(Served(k))]
    BY DispatchKeeps
<1>2. Inbox' = {}
    BY DEF Dispatch, NoEvents, Inbox
<1>3. Range(Batch) = Inbox
    BY BatchRange DEF BusInv, Inbox
<1>4. ASSUME NEW f \in Inbox
      PROVE  f.key \in Keys /\ f.ver \in Nat /\ delivered[f.key] < f.ver
    BY VersionNat DEF Inbox, BusInv, Containers, Between, Event
<1>5. ASSUME NEW k \in Keys
      PROVE  /\ Max(Served(k)) \in Nat /\ delivered[k] \in Nat
             /\ Max(Served(k)) = delivered[k] \/ \E f \in Inbox : f.key = k /\ f.ver = Max(Served(k))
             /\ delivered[k] <= Max(Served(k))
             /\ \A f \in Inbox : f.key = k => f.ver <= Max(Served(k))
  <2>1. Served(k) = {delivered[k]} \union {e.ver : e \in {f \in Inbox : f.key = k}}
    BY <1>3 DEF Served
  <2>. QED BY <2>1, ServedMax, VersionNat DEF BusInv, Rest
<1>6. CASE Inbox = {}
  <2>1. \A k \in Keys : delivered'[k] = delivered[k]
    BY <1>1, <1>5, <1>6
  <2>2. delivered' = delivered
    BY <1>1, <2>1 DEF BusInv, Rest
  <2>. QED BY <1>2, <1>6, <2>2
<1>7. CASE Inbox # {}
  <2> DEFINE newest(k) == {e \in Inbox : e.key = k /\ \A f \in Inbox : f.key = k => f.ver <= e.ver}
  <2>1. ASSUME NEW k \in Keys
        PROVE  Max(Served(k)) = IF newest(k) = {} THEN delivered[k]
                                ELSE (CHOOSE e \in newest(k) : TRUE).ver
    <3>1. CASE newest(k) = {}
      <4>1. ~ \E f \in Inbox : f.key = k /\ f.ver = Max(Served(k))
        BY <1>5, <3>1
      <4>. QED BY <1>5, <3>1, <4>1
    <3>2. CASE newest(k) # {}
      <4>1. PICK e \in newest(k) : e = CHOOSE d \in newest(k) : TRUE
        BY <3>2
      <4>2. e \in Inbox /\ e.key = k /\ \A f \in Inbox : f.key = k => f.ver <= e.ver
        BY <4>1
      <4>3. e.ver \in Nat /\ delivered[k] < e.ver /\ e.ver <= Max(Served(k))
        BY <1>4, <1>5, <4>2
      <4>4. Max(Served(k)) # delivered[k]
        BY <1>5, <4>3
      <4>5. Max(Served(k)) <= e.ver
        BY <1>5, <4>2, <4>4
      <4>6. Max(Served(k)) = e.ver
        BY <1>5, <4>3, <4>5
      <4>. QED BY <3>2, <4>1, <4>6
    <3>. QED BY <3>1, <3>2
  <2>2. \A k \in Keys : newest(k) = Mailbox!Newest(k)
    BY DEF Mailbox!Newest, Inbox
  <2> HIDE DEF newest
  <2>3. delivered' = [k \in Keys |-> IF Mailbox!Newest(k) = {} THEN delivered[k]
                                     ELSE (CHOOSE e \in Mailbox!Newest(k) : TRUE).ver]
    BY <1>1, <2>1, <2>2
  <2>4. Mailbox!DeliverAll
    BY <1>2, <1>7, <2>3 DEF Mailbox!DeliverAll, Inbox
  <2>. QED BY <2>4 DEF Mailbox!Next
<1>. QED BY <1>6, <1>7

\* Every step of the bus is a step of the mailbox or none: an event that is taken up
\* costs at most one other, and a turn of the loop hands over all that waits.
THEOREM BusIsMailbox == Spec => ImplementsMailbox
<1>1. Init => Mailbox!Init
    BY DEF Init, NoEvents, Mailbox!Init
<1>2. ASSUME BusInv, [Next]_vars PROVE [Mailbox!Next]_Mailbox!vars
  <2>1. CASE (\E k \in Keys : Publish(k))
    BY <2>1 DEF Publish, Mailbox!vars
  <2>2. CASE Enqueue
    <3>1. Head(calls) \in Event /\ NewerThanBus(Head(calls)) /\ delivered' = delivered
      BY <1>2, <2>2, Taken DEF Enqueue
    <3>2. CASE pending' = pending
      BY <3>1, <3>2 DEF Mailbox!vars
    <3>3. CASE \E gone, token : Stored(Head(calls), gone, token)
      BY <1>2, <3>1, <3>3, MailboxAccepts
    <3>. QED BY <1>2, <2>2, <3>2, <3>3, EnqueueKeeps
  <2>3. CASE Dispatch
    BY <1>2, <2>3, MailboxDelivers DEF Mailbox!vars, Inbox
  <2>4. CASE (\E e \in handlers : HandlerEnds(e)) \/ Stop \/ Stopped \/ UNCHANGED vars
    <3>1. UNCHANGED <<pending, delivered>>
      BY <1>2, <2>4, OthersKeep
    <3>. QED BY <3>1 DEF Mailbox!vars
  <2>. QED BY <1>2, <2>1, <2>2, <2>3, <2>4 DEF Next
<1>. QED BY <1>1, <1>2, BusInit, BusNext, PTL DEF Spec, ImplementsMailbox, Mailbox!Spec
=============================================================================
