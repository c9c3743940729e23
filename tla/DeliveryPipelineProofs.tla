----------------------- MODULE DeliveryPipelineProofs -----------------------
(***************************************************************************)
(* Proofs about DeliveryPipeline for any signals, cycles, cooldowns, caps  *)
(* and faults: the journal agrees with the channel, no two signals of the  *)
(* same content are armed, and concurrent cycles overshoot a cap by less   *)
(* than their number.                                                      *)
(***************************************************************************)
EXTENDS DeliveryPipeline, FiniteSetTheorems, TLAPS

-----------------------------------------------------------------------------
(* What the cycles hold.  This depends on cycle alone.                     *)

Selecting == {"look", "cool", "supersede", "queue"}     \* a signal of todo
Working == {"arm", "deliver", "sending", "cooldowns", "cancel", "closing"}  \* one of ready
Run == [at : {"idle", "select", "head"} \union Selecting \union Working,
        todo : Seq(Signals), ready : Seq(Signals),
        setups : SUBSET {Setup(s) : s \in Signals}, kind : Nat,
        tier : {None, "action", "watch"}, via : {None, "same", "cooldown"}]

Distinct(r, t) ==
    /\ \A i, j \in DOMAIN r : r[i] = r[j] => i = j
    /\ \A i, j \in DOMAIN t : t[i] = t[j] => i = j
    /\ \A i \in DOMAIN r, j \in DOMAIN t : r[i] # t[j]

Elements(q) == {q[i] : i \in DOMAIN q}
Held(x) == Elements(x.todo) \union Elements(x.ready)

Shaped(x) ==
    /\ Distinct(x.ready, x.todo)
    /\ x.at \in Selecting => x.todo # <<>>
    /\ x.at \in Working => x.ready # <<>>
    /\ x.at \in {"idle", "head"} \union Working => x.todo = <<>>
    /\ x.at = "idle" => x.ready = <<>>

HoldInv ==
    /\ cycle \in [Cycles -> Run]
    /\ \A c \in Cycles : Shaped(cycle[c])
    /\ \A c, d \in Cycles : c # d => Holds(c) \intersect Holds(d) = {}

LEMMA IsDistinct ==
    ASSUME NEW r, NEW t,
           \A i, j \in DOMAIN r : r[i] = r[j] => i = j,
           \A i, j \in DOMAIN t : t[i] = t[j] => i = j,
           Elements(r) \intersect Elements(t) = {}
    PROVE  Distinct(r, t)
<1>1. \A i \in DOMAIN r, j \in DOMAIN t : r[i] # t[j]
    BY DEF Elements
<1>. QED BY <1>1 DEF Distinct

LEMMA HoldsHeld == \A c : Holds(c) = Held(cycle[c])
    BY DEF Holds, Held, Elements

LEMMA ElementsTail ==
    ASSUME NEW q \in Seq(Signals), q # <<>>, \A i, j \in DOMAIN q : q[i] = q[j] => i = j
    PROVE  /\ Tail(q) \in Seq(Signals) /\ Head(q) \in Elements(q)
           /\ Elements(Tail(q)) = Elements(q) \ {Head(q)}
           /\ \A i, j \in DOMAIN Tail(q) : Tail(q)[i] = Tail(q)[j] => i = j
<1>1. /\ Tail(q) \in Seq(Signals) /\ Len(Tail(q)) = Len(q) - 1 /\ Len(q) \in Nat /\ Len(q) >= 1
      /\ DOMAIN q = 1 .. Len(q) /\ DOMAIN Tail(q) = 1 .. Len(q) - 1 /\ Head(q) = q[1]
    OBVIOUS
<1>2. \A i \in DOMAIN Tail(q) : Tail(q)[i] = q[i + 1] /\ i + 1 \in DOMAIN q
    BY <1>1
<1>3. \A i \in DOMAIN q : i # 1 => i - 1 \in DOMAIN Tail(q) /\ q[i] = Tail(q)[i - 1]
    BY <1>1, <1>2
<1>4. 1 \in DOMAIN q
    BY <1>1
<1>5. \A i \in DOMAIN Tail(q) : q[i + 1] # q[1]
  <2>1. \A i \in DOMAIN Tail(q) : i + 1 # 1
    BY <1>1
  <2>. QED BY <1>2, <1>4, <2>1
<1>6. Elements(Tail(q)) \subseteq Elements(q) \ {Head(q)}
    BY <1>1, <1>2, <1>5 DEF Elements
<1>7. Elements(q) \ {Head(q)} \subseteq Elements(Tail(q))
  <2>1. ASSUME NEW i \in DOMAIN q, q[i] # Head(q) PROVE q[i] \in Elements(Tail(q))
    <3>1. i # 1 /\ i - 1 \in DOMAIN Tail(q) /\ q[i] = Tail(q)[i - 1]
      BY <1>1, <1>3, <2>1
    <3>. QED BY <3>1 DEF Elements
  <2>. QED BY <2>1 DEF Elements
<1>8. \A i, j \in DOMAIN Tail(q) : Tail(q)[i] = Tail(q)[j] => i = j
  <2>1. ASSUME NEW i \in DOMAIN Tail(q), NEW j \in DOMAIN Tail(q), Tail(q)[i] = Tail(q)[j]
        PROVE  i = j
    <3>1. i + 1 = j + 1
      BY <1>2, <2>1
    <3>2. i \in Nat /\ j \in Nat
      BY <1>1, <2>1
    <3>. QED BY <3>1, <3>2
  <2>. QED BY <2>1
<1>. QED BY <1>1, <1>4, <1>6, <1>7, <1>8 DEF Elements

LEMMA ElementsAppend ==
    ASSUME NEW q \in Seq(Signals), NEW s \in Signals
    PROVE  /\ Append(q, s) \in Seq(Signals) /\ Append(q, s) # <<>>
           /\ Elements(Append(q, s)) = Elements(q) \union {s}
           /\ s \notin Elements(q) /\ (\A i, j \in DOMAIN q : q[i] = q[j] => i = j)
                => \A i, j \in DOMAIN Append(q, s) : Append(q, s)[i] = Append(q, s)[j] => i = j
<1>1. /\ DOMAIN q = 1 .. Len(q) /\ Len(q) \in Nat /\ DOMAIN Append(q, s) = 1 .. Len(q) + 1
      /\ Append(q, s)[Len(q) + 1] = s /\ Append(q, s) \in Seq(Signals) /\ Append(q, s) # <<>>
      /\ \A i \in 1 .. Len(q) : Append(q, s)[i] = q[i]
    OBVIOUS
<1>2. Elements(Append(q, s)) = Elements(q) \union {s}
    BY <1>1 DEF Elements
<1>3. ASSUME s \notin Elements(q), \A i, j \in DOMAIN q : q[i] = q[j] => i = j,
             NEW i \in DOMAIN Append(q, s), NEW j \in DOMAIN Append(q, s),
             Append(q, s)[i] = Append(q, s)[j]
      PROVE  i = j
  <2>1. CASE i = Len(q) + 1 /\ j # Len(q) + 1
    BY <1>1, <1>3, <2>1 DEF Elements
  <2>2. CASE j = Len(q) + 1 /\ i # Len(q) + 1
    BY <1>1, <1>3, <2>2 DEF Elements
  <2>3. CASE i # Len(q) + 1 /\ j # Len(q) + 1
    BY <1>1, <1>3, <2>3
  <2>. QED BY <2>1, <2>2, <2>3
<1>. QED BY <1>1, <1>2, <1>3

\* The changes a step makes in what one cycle holds.
LEMMA DropTodo ==
    ASSUME NEW x \in Run, NEW y \in Run, Shaped(x), x.todo # <<>>, y.at = "select",
           y.todo = Tail(x.todo), y.ready = x.ready
    PROVE  Shaped(y) /\ Head(x.todo) \in Held(x) /\ Held(y) = Held(x) \ {Head(x.todo)}
           /\ Held(x) \subseteq Signals
<1>1. x.todo \in Seq(Signals) /\ x.ready \in Seq(Signals) /\ Distinct(x.ready, x.todo)
    BY DEF Run, Shaped
<1>2. /\ Head(x.todo) \in Elements(x.todo)
      /\ Elements(Tail(x.todo)) = Elements(x.todo) \ {Head(x.todo)}
      /\ \A i, j \in DOMAIN Tail(x.todo) : Tail(x.todo)[i] = Tail(x.todo)[j] => i = j
    BY <1>1, ElementsTail DEF Distinct
<1>3. Elements(x.todo) \intersect Elements(x.ready) = {}
    BY <1>1 DEF Distinct, Elements
<1>4. Distinct(y.ready, y.todo)
  <2>1. \A i, j \in DOMAIN x.ready : x.ready[i] = x.ready[j] => i = j
    BY <1>1 DEF Distinct
  <2>2. Elements(x.ready) \intersect Elements(Tail(x.todo)) = {}
    BY <1>2, <1>3
  <2>. QED BY <1>2, <2>1, <2>2, IsDistinct
<1>5. Held(x) \subseteq Signals
    BY <1>1 DEF Held, Elements
<1>. QED BY <1>2, <1>3, <1>4, <1>5 DEF Held, Shaped, Selecting, Working

LEMMA MoveToReady ==
    ASSUME NEW x \in Run, NEW y \in Run, Shaped(x), x.todo # <<>>, y.at = "select",
           y.todo = Tail(x.todo), y.ready = Append(x.ready, Head(x.todo))
    PROVE  Shaped(y) /\ Held(y) = Held(x)
<1>1. x.todo \in Seq(Signals) /\ x.ready \in Seq(Signals) /\ Distinct(x.ready, x.todo)
    BY DEF Run, Shaped
<1> DEFINE s == Head(x.todo)
<1>2. /\ s \in Elements(x.todo) /\ s \in Signals
      /\ Elements(y.todo) = Elements(x.todo) \ {s}
      /\ \A i, j \in DOMAIN y.todo : y.todo[i] = y.todo[j] => i = j
    BY <1>1, ElementsTail, SMTT(30) DEF Distinct
<1>3. Elements(x.todo) \intersect Elements(x.ready) = {}
    BY <1>1 DEF Distinct, Elements
<1>4. /\ Elements(y.ready) = Elements(x.ready) \union {s}
      /\ \A i, j \in DOMAIN y.ready : y.ready[i] = y.ready[j] => i = j
    BY <1>1, <1>2, <1>3, ElementsAppend DEF Distinct
<1> HIDE DEF s
<1>5. Distinct(y.ready, y.todo)
  <2>1. Elements(y.ready) \intersect Elements(y.todo) = {}
    BY <1>2, <1>3, <1>4
  <2>. QED BY <1>2, <1>4, <2>1, IsDistinct
<1>. QED BY <1>2, <1>4, <1>5 DEF Held, Shaped, Selecting, Working

LEMMA DropReady ==
    ASSUME NEW x \in Run, NEW y \in Run, Shaped(x), x.ready # <<>>,
           x.at \in {"head"} \union Working, y.at = "head",
           y.todo = x.todo, y.ready = Tail(x.ready)
    PROVE  Shaped(y) /\ Head(x.ready) \in Held(x) /\ Held(y) = Held(x) \ {Head(x.ready)}
           /\ Held(x) \subseteq Signals
<1>1. x.todo = <<>> /\ x.ready \in Seq(Signals) /\ Distinct(x.ready, x.todo)
    BY DEF Run, Shaped
<1>2. /\ Head(x.ready) \in Elements(x.ready)
      /\ Elements(Tail(x.ready)) = Elements(x.ready) \ {Head(x.ready)}
      /\ \A i, j \in DOMAIN Tail(x.ready) : Tail(x.ready)[i] = Tail(x.ready)[j] => i = j
    BY <1>1, ElementsTail DEF Distinct
<1>3. Elements(x.todo) = {}
    BY <1>1 DEF Elements
<1>4. Distinct(y.ready, y.todo)
    BY <1>1, <1>2 DEF Distinct
<1>5. Held(x) \subseteq Signals
    BY <1>1, <1>3 DEF Held, Elements
<1>. QED BY <1>1, <1>2, <1>3, <1>4, <1>5 DEF Held, Shaped, Selecting, Working

-----------------------------------------------------------------------------
(* What each step does to what the cycles hold.                            *)

Elsewhere(c) == \A d \in Cycles : d # c => cycle'[d] = cycle[d]

\* The cycle goes to stage a with what it holds.
Stays(c, a) ==
    /\ cycle' \in [Cycles -> Run] /\ Elsewhere(c)
    /\ cycle'[c].at = a /\ cycle'[c].todo = cycle[c].todo /\ cycle'[c].ready = cycle[c].ready

\* The cycle goes to stage a without s.
Drops(c, s, a) ==
    /\ HoldInv' /\ Elsewhere(c) /\ cycle'[c].at = a
    /\ s \in Holds(c) /\ s \in Signals /\ Holds(c)' = Holds(c) \ {s}

LEMMA HoldChange ==
    ASSUME HoldInv, NEW c \in Cycles, cycle' \in [Cycles -> Run], Elsewhere(c),
           Shaped(cycle'[c]), Held(cycle'[c]) \subseteq Held(cycle[c]) \union Fresh
    PROVE  HoldInv' /\ \A d \in Cycles : d # c => Holds(d)' = Holds(d)
<1>1. \A d \in Cycles : Holds(d)' = Held(cycle'[d])
    BY DEF Holds, Held, Elements
<1>2. \A d \in Cycles : d # c => Holds(d)' = Holds(d)
    BY <1>1, HoldsHeld DEF Elsewhere
<1>3. \A d \in Cycles : Holds(d) \intersect Fresh = {}
    BY DEF Fresh
<1>4. Holds(c)' \subseteq Holds(c) \union Fresh
    BY <1>1, HoldsHeld
<1>5. \A d \in Cycles : Shaped(cycle'[d])
    BY DEF HoldInv, Elsewhere
<1>6. \A d, e \in Cycles : d # e => Holds(d)' \intersect Holds(e)' = {}
    BY <1>2, <1>3, <1>4 DEF HoldInv
<1>. QED BY <1>2, <1>5, <1>6 DEF HoldInv

LEMMA StayHolds ==
    ASSUME HoldInv, NEW c \in Cycles, NEW a, Stays(c, a),
           a \in Selecting => cycle[c].todo # <<>>,
           a \in Working => cycle[c].ready # <<>>,
           a \in {"head"} \union Working => cycle[c].todo = <<>>,
           a # "idle"
    PROVE  /\ HoldInv' /\ Elsewhere(c) /\ cycle'[c].at = a
           /\ \A d \in Cycles : Holds(d)' = Holds(d) /\ Out(d)' = Out(d)
<1>1. Shaped(cycle[c])
    BY DEF HoldInv
<1>2. Shaped(cycle'[c])
    BY <1>1 DEF Stays, Shaped
<1>3. Held(cycle'[c]) = Held(cycle[c])
    BY DEF Stays, Held
<1>4. \A d \in Cycles : cycle'[d].todo = cycle[d].todo /\ cycle'[d].ready = cycle[d].ready
    BY DEF Stays, Elsewhere
<1>5. \A d \in Cycles : Holds(d)' = Holds(d) /\ Out(d)' = Out(d)
    BY <1>4 DEF Holds, Out
<1>. QED BY <1>2, <1>3, <1>5, HoldChange DEF Stays

\* Rejected, and the loop's own drop.
LEMMA RejectHolds ==
    ASSUME HoldInv, NEW c \in Cycles, cycle[c].todo # <<>>,
           \/ cycle' = [cycle EXCEPT ![c].at = "select", ![c].todo = Tail(@), ![c].kind = 0,
                                     ![c].via = None]
           \/ cycle' = [cycle EXCEPT ![c].at = "select", ![c].todo = Tail(@)]
    PROVE  Drops(c, Cur(c), "select")
<1>1. cycle[c] \in Run /\ Shaped(cycle[c])
    BY DEF HoldInv
<1>2. Tail(cycle[c].todo) \in Seq(Signals)
    BY <1>1 DEF Run
<1>3. /\ cycle' \in [Cycles -> Run] /\ Elsewhere(c)
      /\ cycle'[c].at = "select" /\ cycle'[c].todo = Tail(cycle[c].todo)
      /\ cycle'[c].ready = cycle[c].ready
  <2> DEFINE x == [cycle[c] EXCEPT !.at = "select", !.todo = Tail(cycle[c].todo), !.kind = 0,
                                   !.via = None]
             y == [cycle[c] EXCEPT !.at = "select", !.todo = Tail(cycle[c].todo)]
  <2>1. x \in Run /\ x.at = "select" /\ x.todo = Tail(cycle[c].todo) /\ x.ready = cycle[c].ready
    BY <1>1, <1>2 DEF Run
  <2>2. y \in Run /\ y.at = "select" /\ y.todo = Tail(cycle[c].todo) /\ y.ready = cycle[c].ready
    BY <1>1, <1>2 DEF Run
  <2>3. cycle' = [cycle EXCEPT ![c] = x] \/ cycle' = [cycle EXCEPT ![c] = y]
    OBVIOUS
  <2> HIDE DEF x, y
  <2>. QED BY <2>1, <2>2, <2>3 DEF HoldInv, Elsewhere
<1>4. cycle'[c] \in Run
    BY <1>3
<1>5. /\ Shaped(cycle'[c]) /\ Cur(c) \in Held(cycle[c]) /\ Held(cycle[c]) \subseteq Signals
      /\ Held(cycle'[c]) = Held(cycle[c]) \ {Cur(c)}
    BY <1>1, <1>3, <1>4, DropTodo DEF Cur
<1>6. HoldInv'
    BY <1>3, <1>5, HoldChange
<1>7. Holds(c)' = Held(cycle'[c])
    BY DEF Holds, Held, Elements
<1>. QED BY <1>3, <1>5, <1>6, <1>7, HoldsHeld DEF Drops

LEMMA LeftHolds ==
    ASSUME HoldInv, NEW c \in Cycles, cycle[c].ready # <<>>,
           cycle[c].at \in {"head"} \union Working, NEW e, Left(c, e)
    PROVE  Drops(c, Out(c), "head")
<1>1. cycle[c] \in Run /\ Shaped(cycle[c])
    BY DEF HoldInv
<1>2. Tail(cycle[c].ready) \in Seq(Signals)
    BY <1>1 DEF Run
<1>3. /\ cycle' \in [Cycles -> Run] /\ Elsewhere(c)
      /\ cycle'[c].at = "head" /\ cycle'[c].ready = Tail(cycle[c].ready)
      /\ cycle'[c].todo = cycle[c].todo
  <2> DEFINE x == [cycle[c] EXCEPT !.at = "head", !.ready = Tail(cycle[c].ready), !.tier = None,
                                   !.kind = 0]
  <2>1. x \in Run /\ x.at = "head" /\ x.ready = Tail(cycle[c].ready) /\ x.todo = cycle[c].todo
    BY <1>1, <1>2 DEF Run
  <2>2. cycle' = [cycle EXCEPT ![c] = x]
    BY DEF Left
  <2> HIDE DEF x
  <2>. QED BY <2>1, <2>2 DEF HoldInv, Elsewhere
<1>4. cycle'[c] \in Run
    BY <1>3
<1>5. /\ Shaped(cycle'[c]) /\ Out(c) \in Held(cycle[c]) /\ Held(cycle[c]) \subseteq Signals
      /\ Held(cycle'[c]) = Held(cycle[c]) \ {Out(c)}
    BY <1>1, <1>3, <1>4, DropReady DEF Out
<1>6. HoldInv'
    BY <1>3, <1>5, HoldChange
<1>7. Holds(c)' = Held(cycle'[c])
    BY DEF Holds, Held, Elements
<1>. QED BY <1>3, <1>5, <1>6, <1>7, HoldsHeld DEF Drops

\* The end of a cycle, early or not.
LEMMA RestHolds ==
    ASSUME HoldInv, NEW c \in Cycles, cycle' = [cycle EXCEPT ![c] = Resting]
    PROVE  /\ HoldInv' /\ Elsewhere(c) /\ cycle'[c].at = "idle" /\ Holds(c)' = {}
<1>1. Resting \in Run
    BY DEF Resting, Run
<1>2. Shaped(Resting) /\ Held(Resting) = {}
    BY DEF Resting, Shaped, Distinct, Held, Elements, Selecting, Working
<1>3. cycle' \in [Cycles -> Run] /\ Elsewhere(c) /\ cycle'[c] = Resting
    BY <1>1 DEF HoldInv, Elsewhere
<1>4. HoldInv'
    BY <1>2, <1>3, HoldChange
<1>5. Holds(c)' = Held(cycle'[c])
    BY DEF Holds, Held, Elements
<1>6. Resting.at = "idle"
    BY DEF Resting
<1>. QED BY <1>2, <1>3, <1>4, <1>5, <1>6

LEMMA QueueHolds ==
    ASSUME HoldInv, NEW c \in Cycles, cycle[c].todo # <<>>,
           cycle' = [cycle EXCEPT ![c].at = "select", ![c].todo = Tail(@),
                    ![c].ready = Append(@, Cur(c)), ![c].via = None,
                    ![c].setups = @ \union {Setup(Cur(c))}]
    PROVE  /\ HoldInv' /\ Elsewhere(c) /\ cycle'[c].at = "select"
           /\ \A d \in Cycles : Holds(d)' = Holds(d)
<1>1. cycle[c] \in Run /\ Shaped(cycle[c])
    BY DEF HoldInv
<1>2. Tail(cycle[c].todo) \in Seq(Signals) /\ Head(cycle[c].todo) \in Signals
    BY <1>1 DEF Run
<1>3. Append(cycle[c].ready, Head(cycle[c].todo)) \in Seq(Signals)
    BY <1>1, <1>2 DEF Run
<1>4. /\ cycle' \in [Cycles -> Run] /\ Elsewhere(c)
      /\ cycle'[c].at = "select" /\ cycle'[c].todo = Tail(cycle[c].todo)
      /\ cycle'[c].ready = Append(cycle[c].ready, Head(cycle[c].todo))
    BY <1>2, <1>3 DEF HoldInv, Run, Elsewhere, Cur
<1>5. cycle'[c] \in Run
    BY <1>4
<1>6. Shaped(cycle'[c]) /\ Held(cycle'[c]) = Held(cycle[c])
    BY <1>1, <1>4, <1>5, MoveToReady
<1>7. HoldInv' /\ \A d \in Cycles : d # c => Holds(d)' = Holds(d)
    BY <1>4, <1>6, HoldChange
<1>8. Holds(c)' = Held(cycle'[c])
    BY SMTT(30) DEF Holds, Held, Elements
<1>. QED BY <1>4, <1>6, <1>7, <1>8, HoldsHeld

LEMMA BeginHolds ==
    ASSUME HoldInv, NEW c \in Cycles, Begin(c)
    PROVE  /\ HoldInv' /\ Elsewhere(c) /\ cycle'[c].at = "select"
           /\ Holds(c) = {} /\ Holds(c)' \subseteq Fresh
<1>1. PICK a \in Fresh, b \in Fresh :
          cycle' = [cycle EXCEPT ![c].at = "select",
                            ![c].todo = IF a = b THEN <<a>> ELSE <<a, b>>]
    BY DEF Begin
<1> DEFINE q == IF a = b THEN <<a>> ELSE <<a, b>>
<1>2. a \in Signals /\ b \in Signals
    BY DEF Fresh
<1>3. /\ q \in Seq(Signals) /\ Elements(q) \subseteq Fresh
      /\ \A i, j \in DOMAIN q : q[i] = q[j] => i = j
  <2>1. CASE a = b
    BY <1>2, <2>1 DEF Elements
  <2>2. CASE a # b
    <3>1. q = <<a, b>> /\ DOMAIN <<a, b>> = 1 .. 2
      BY <2>2
    <3>. QED BY <1>2, <2>2, <3>1 DEF Elements
  <2>. QED BY <2>1, <2>2
<1>4. cycle' = [cycle EXCEPT ![c].at = "select", ![c].todo = q]
    BY <1>1
<1> HIDE DEF q
<1>5. /\ cycle[c] \in Run /\ Shaped(cycle[c]) /\ cycle[c].at = "idle"
      /\ cycle[c].ready = <<>> /\ cycle[c].todo = <<>>
    BY DEF HoldInv, Begin, At, Shaped
<1>6. /\ cycle' \in [Cycles -> Run] /\ Elsewhere(c) /\ cycle'[c].at = "select"
      /\ cycle'[c].todo = q /\ cycle'[c].ready = <<>>
    BY <1>3, <1>4, <1>5 DEF HoldInv, Run, Elsewhere
<1>7. Elements(<<>>) = {}
    BY DEF Elements
<1>8. Shaped(cycle'[c]) /\ Held(cycle'[c]) \subseteq Fresh /\ Held(cycle[c]) = {}
  <2>1. Distinct(<<>>, q)
    BY <1>3 DEF Distinct
  <2>. QED BY <1>3, <1>5, <1>6, <1>7, <2>1 DEF Shaped, Held, Selecting, Working
<1>9. HoldInv'
    BY <1>6, <1>8, HoldChange
<1>10. Holds(c)' = Held(cycle'[c])
    BY DEF Holds, Held, Elements
<1>. QED BY <1>6, <1>8, <1>9, <1>10, HoldsHeld

-----------------------------------------------------------------------------
(* The sender's answers.                                                   *)

Request == [text : Texts \union {None}, shown : BOOLEAN, reply : Replies \union {None}]

ReqInv ==
    /\ request \in [Cycles -> Request]
    /\ \A c \in Cycles :
          /\ At(c, "sending") => request[c].text = Out(c)
          /\ ~At(c, "sending") => request[c] = NoRequest
          /\ request[c].shown => request[c].text \in posted
          /\ request[c].reply = "sent" => request[c].shown

LEMMA OutHeld ==
    ASSUME HoldInv, NEW c \in Cycles, cycle[c].at \in Working
    PROVE  Out(c) \in Holds(c) /\ Out(c) \in Signals /\ cycle[c].ready # <<>>
<1>1. cycle[c].ready \in Seq(Signals) /\ cycle[c].ready # <<>>
    BY DEF HoldInv, Run, Shaped
<1>2. 1 \in DOMAIN cycle[c].ready /\ Out(c) = cycle[c].ready[1] /\ Out(c) \in Signals
    BY <1>1 DEF Out
<1>. QED BY <1>1, <1>2 DEF Holds

LEMMA ReqQuiet ==
    ASSUME ReqInv, UNCHANGED serviceVars,
           \A d \in Cycles : /\ At(d, "sending")' <=> At(d, "sending")
                             /\ At(d, "sending") => Out(d)' = Out(d)
    PROVE  ReqInv'
    BY DEF ReqInv, serviceVars

LEMMA ReqStart ==
    ASSUME HoldInv, ReqInv, NEW c \in Cycles, Start(c, Out(c)), At(c, "deliver"),
           At(c, "sending")', Out(c)' = Out(c), Elsewhere(c)
    PROVE  ReqInv'
<1>1. Out(c) \in Texts
    BY OutHeld DEF At, Working, Signals
<1> DEFINE q == [request[c] EXCEPT !.text = Out(c)]
<1>2. request[c] = NoRequest /\ request' = [request EXCEPT ![c] = q] /\ posted' = posted
    BY DEF Start
<1>3. q \in Request /\ q.text = Out(c) /\ q.shown = FALSE /\ q.reply = None
  <2>1. NoRequest.shown = FALSE /\ NoRequest.reply = None
    BY DEF NoRequest
  <2>2. request[c] \in Request
    BY DEF ReqInv
  <2>. QED BY <1>1, <1>2, <2>1, <2>2 DEF Request
<1> HIDE DEF q
<1>4. \A d \in Cycles : d # c => /\ At(d, "sending")' <=> At(d, "sending")
                                 /\ Out(d)' = Out(d)
    BY DEF Elsewhere, At, Out
<1>5. request' \in [Cycles -> Request] /\ \A d \in Cycles : request'[d] = IF d = c THEN q ELSE request[d]
    BY <1>2, <1>3 DEF ReqInv
<1>6. None # "sent"
    BY NoneAssumption DEF Replies
<1>. QED BY <1>2, <1>3, <1>4, <1>5, <1>6 DEF ReqInv

LEMMA ReqLeave ==
    ASSUME ReqInv, NEW c \in Cycles, Leave(c), ~At(c, "sending")', Elsewhere(c)
    PROVE  ReqInv'
<1>1. request' = [request EXCEPT ![c] = NoRequest] /\ posted' = posted
    BY DEF Leave
<1>2. NoRequest \in Request /\ NoRequest.shown = FALSE /\ NoRequest.reply = None
    BY DEF NoRequest, Request
<1>3. \A d \in Cycles : d # c => /\ At(d, "sending")' <=> At(d, "sending")
                                 /\ Out(d)' = Out(d)
    BY DEF Elsewhere, At, Out
<1>4. request' \in [Cycles -> Request]
      /\ \A d \in Cycles : request'[d] = IF d = c THEN NoRequest ELSE request[d]
    BY <1>1, <1>2 DEF ReqInv
<1>5. None # "sent"
    BY NoneAssumption DEF Replies
<1>. QED BY <1>1, <1>2, <1>3, <1>4, <1>5 DEF ReqInv

\* A message is shown or answered only while its cycle sends it.
LEMMA ReqBusy ==
    ASSUME HoldInv, ReqInv, NEW c \in Cycles, Busy(c)
    PROVE  At(c, "sending") /\ request[c].text = Out(c)
    BY DEF Busy, ReqInv, NoRequest

LEMMA ReqService ==
    ASSUME HoldInv, ReqInv, UNCHANGED cycle, NEW c \in Cycles,
           Show(c) \/ \E r \in Replies : Finish(c, r)
    PROVE  ReqInv'
<1>1. \A d \in Cycles : (At(d, "sending")' <=> At(d, "sending")) /\ Out(d)' = Out(d)
    BY DEF At, Out
<1>2. Busy(c) /\ At(c, "sending") /\ request[c].text = Out(c)
    BY ReqBusy DEF Show, Finish
<1>3. CASE Show(c)
  <2> DEFINE q == [request[c] EXCEPT !.shown = TRUE]
  <2>1. request' = [request EXCEPT ![c] = q] /\ posted' = posted \union {request[c].text}
    BY <1>3 DEF Show
  <2>2. q \in Request /\ q.text = request[c].text /\ q.shown /\ q.reply = request[c].reply
    BY DEF ReqInv, Request
  <2> HIDE DEF q
  <2>3. request' \in [Cycles -> Request]
        /\ \A d \in Cycles : request'[d] = IF d = c THEN q ELSE request[d]
    BY <2>1, <2>2 DEF ReqInv
  <2>. QED BY <1>1, <1>2, <2>1, <2>2, <2>3 DEF ReqInv
<1>4. ASSUME NEW r \in Replies, Finish(c, r) PROVE ReqInv'
  <2> DEFINE q == [request[c] EXCEPT !.reply = r]
  <2>1. /\ request' = [request EXCEPT ![c] = q] /\ posted' = posted
        /\ r = "sent" => request[c].shown
    BY <1>4 DEF Finish
  <2>2. q \in Request /\ q.text = request[c].text /\ q.shown = request[c].shown /\ q.reply = r
    BY DEF ReqInv, Request
  <2> HIDE DEF q
  <2>3. request' \in [Cycles -> Request]
        /\ \A d \in Cycles : request'[d] = IF d = c THEN q ELSE request[d]
    BY <2>1, <2>2 DEF ReqInv
  <2>. QED BY <1>1, <1>2, <2>1, <2>2, <2>3 DEF ReqInv
<1>. QED BY <1>3, <1>4

-----------------------------------------------------------------------------
(* Rows, endings and contents.                                             *)

Rows == {"none", "pending", "active", "closed", "reopened"}
Ends == {"none", "dropped", "arm_timeout", "delivered", "aborted"}

Armed(c) == cycle[c].at \in {"deliver", "sending", "cooldowns", "cancel", "closing"}

\* Past the check of the content.
Cleared(s) == row[s] # "none" \/ \E c \in Cycles : At(c, "arm") /\ Out(c) = s

RowInv ==
    /\ row \in [Signals -> Rows] /\ end \in [Signals -> Ends]
    /\ posted \subseteq Signals /\ kept \subseteq Signals
    /\ \A c \in Cycles :
          /\ \A s \in Holds(c) : row[s] = "none" \/ (Armed(c) /\ s = Out(c))
          /\ Armed(c) => row[Out(c)] # "none"
          /\ At(c, "cooldowns") => Out(c) \in posted
    /\ \A s \in posted \union kept : row[s] # "none"
    /\ \A s \in Signals :
          /\ end[s] = "delivered" => s \in posted
          /\ end[s] = "none" /\ ~Owned(s) => row[s] = "none"
          /\ row[s] = "pending" /\ s \notin posted /\ ~Owned(s)
                => end[s] \in {"arm_timeout", "aborted"}

ContentInv ==
    /\ \A s \in Signals : Cleared(s) => Content(s) \in hashes
    /\ \A s, t \in Signals : Cleared(s) /\ Cleared(t) /\ s # t => Content(s) # Content(t)

LEMMA ContentKept ==
    ASSUME ContentInv, hashes \subseteq hashes', \A s \in Signals : Cleared(s)' => Cleared(s)
    PROVE  ContentInv'
    BY DEF ContentInv

LEMMA HoldsSignals == HoldInv => \A d \in Cycles : Holds(d) \subseteq Signals
<1>1. HoldInv => \A d \in Cycles : cycle[d] \in Run
    BY DEF HoldInv
<1>. QED BY <1>1 DEF Holds, Run

\* A step that only moves open rows on and shows what has a row.
LEMMA RowStay ==
    ASSUME RowInv, row' \in [Signals -> Rows],
           \A s \in Signals : /\ row'[s] = "none" <=> row[s] = "none"
                              /\ row'[s] = "pending" => row[s] = "pending",
           end' = end, posted \subseteq posted', posted' \subseteq Signals,
           kept' \subseteq Signals,
           \A s \in posted' \union kept' : row[s] # "none",
           \A d \in Cycles : /\ Holds(d)' = Holds(d) /\ Holds(d) \subseteq Signals
                             /\ Armed(d)' <=> Armed(d)
                             /\ Armed(d) => Out(d)' = Out(d) /\ Out(d) \in Signals
                             /\ At(d, "cooldowns")' => Out(d)' \in posted'
    PROVE  RowInv'
<1>1. \A s : Owned(s)' <=> Owned(s)
    BY DEF Owned
<1>2. \A d \in Cycles : \A s \in Holds(d)' : row'[s] = "none" \/ (Armed(d)' /\ s = Out(d)')
  <2>1. ASSUME NEW d \in Cycles, NEW s \in Holds(d)'
        PROVE  row'[s] = "none" \/ (Armed(d)' /\ s = Out(d)')
    <3>1. s \in Holds(d) /\ s \in Signals
      BY <2>1
    <3>2. row[s] = "none" \/ (Armed(d) /\ s = Out(d))
      BY <3>1 DEF RowInv
    <3>3. Armed(d) => Armed(d)' /\ Out(d)' = Out(d)
      OBVIOUS
    <3>4. row[s] = "none" => row'[s] = "none"
      BY <3>1
    <3>5. CASE row[s] = "none"
      BY <3>4, <3>5
    <3>6. CASE Armed(d) /\ s = Out(d)
      BY <3>3, <3>6
    <3>. QED BY <3>2, <3>5, <3>6
  <2>. QED BY <2>1
<1>. QED BY <1>1, <1>2 DEF RowInv

\* A cycle drops s, the one it works on or one that waits.
LEMMA RowDrop ==
    ASSUME HoldInv, RowInv, NEW c \in Cycles, NEW s \in Signals, NEW r \in Rows, NEW e \in Ends,
           Elsewhere(c), cycle'[c].at \in {"select", "head"},
           s \in Holds(c), Holds(c)' = Holds(c) \ {s}, HoldInv',
           Armed(c) => s = Out(c),
           row' = [row EXCEPT ![s] = r], end' = [end EXCEPT ![s] = e], e # "none",
           UNCHANGED <<posted, kept>>,
           e = "delivered" => s \in posted,
           r = "pending" => s \in posted \/ e = "arm_timeout",
           r = "none" => row[s] = "none"
    PROVE  RowInv'
<1>1. \A t \in Signals : /\ row'[t] = IF t = s THEN r ELSE row[t]
                         /\ end'[t] = IF t = s THEN e ELSE end[t]
    BY DEF RowInv
<1>2. \A d \in Cycles : d # c => /\ Holds(d)' = Holds(d) /\ Out(d)' = Out(d)
                                 /\ Armed(d)' <=> Armed(d)
                                 /\ At(d, "cooldowns")' <=> At(d, "cooldowns")
                                 /\ s \notin Holds(d)
  <2>1. \A d \in Cycles : d # c => s \notin Holds(d)
    BY DEF HoldInv
  <2>. QED BY <2>1 DEF Elsewhere, Holds, Out, Armed, At
<1>3. ~Armed(c)' /\ ~At(c, "cooldowns")'
    BY DEF Armed, At
<1>4. \A d \in Cycles : Holds(d) \subseteq Signals
    BY HoldsSignals
<1>5. \A t \in Signals : t # s => (Owned(t)' <=> Owned(t))
    BY <1>2 DEF Owned
<1>6. row' \in [Signals -> Rows] /\ end' \in [Signals -> Ends]
    BY DEF RowInv
<1>7. \A d \in Cycles : Armed(d) => Out(d) \in Holds(d)
    BY OutHeld DEF Armed, Working
<1>8. \A d \in Cycles : \A t \in Holds(d)' : row'[t] = "none" \/ (Armed(d)' /\ t = Out(d)')
  <2>1. ASSUME NEW d \in Cycles, d # c, NEW t \in Holds(d)
        PROVE  row'[t] = "none" \/ (Armed(d)' /\ t = Out(d)')
    BY <1>1, <1>2, <1>4, <2>1 DEF RowInv
  <2>2. ASSUME NEW t \in Holds(c) \ {s} PROVE row'[t] = "none"
    BY <1>1, <1>4, <2>2 DEF RowInv
  <2>3. ASSUME NEW d \in Cycles, NEW t \in Holds(d)'
        PROVE  row'[t] = "none" \/ (Armed(d)' /\ t = Out(d)')
    <3>1. CASE d = c
      <4>1. Holds(d)' = Holds(c)'
        BY <3>1 DEF Holds
      <4>. QED BY <2>2, <2>3, <4>1
    <3>2. CASE d # c
      <4>1. Holds(d)' = Holds(d)
        BY <1>2, <3>2
      <4>. QED BY <2>1, <2>3, <3>2, <4>1
    <3>. QED BY <3>1, <3>2
  <2>. QED BY <2>3
<1>9. \A d \in Cycles : /\ Armed(d)' => row'[Out(d)'] # "none"
                        /\ At(d, "cooldowns")' => Out(d)' \in posted'
    BY <1>1, <1>2, <1>3, <1>4, <1>7 DEF RowInv
<1>10. \A t \in posted' \union kept' : row'[t] # "none"
    BY <1>1 DEF RowInv
<1>11. \A t \in Signals :
          /\ end'[t] = "delivered" => t \in posted'
          /\ end'[t] = "none" /\ ~Owned(t)' => row'[t] = "none"
          /\ row'[t] = "pending" /\ t \notin posted' /\ ~Owned(t)'
                => end'[t] \in {"arm_timeout", "aborted"}
    BY <1>1, <1>5 DEF RowInv
<1>. QED BY <1>6, <1>8, <1>9, <1>10, <1>11 DEF RowInv

-----------------------------------------------------------------------------
(* The steps.                                                              *)

PipeInv == HoldInv /\ ReqInv /\ RowInv /\ ContentInv

\* A cycle outside the call of the sender stays outside it.
LEMMA ReqElsewhere ==
    ASSUME ReqInv, NEW c \in Cycles, Elsewhere(c), UNCHANGED serviceVars,
           ~At(c, "sending"), cycle'[c].at # "sending"
    PROVE  ReqInv'
<1>1. \A d \in Cycles : d # c => /\ At(d, "sending")' <=> At(d, "sending")
                                 /\ Out(d)' = Out(d)
    BY DEF Elsewhere, At, Out
<1>2. ~At(c, "sending")'
    BY DEF At
<1>. QED BY <1>1, <1>2 DEF ReqInv, serviceVars

\* The cycle goes to another stage with what it holds.
LEMMA PipeStay ==
    ASSUME PipeInv, NEW c \in Cycles, HoldInv', ReqInv', Elsewhere(c),
           \A d \in Cycles : Holds(d)' = Holds(d),
           cycle[c].at \in Working => Out(c)' = Out(c),
           cycle[c].at \notin Working => cycle'[c].at \notin Working,
           cycle[c].at \in Working => cycle'[c].at \in Working,
           cycle'[c].at # "arm", cycle[c].at # "arm",
           cycle'[c].at = "cooldowns" => Out(c)' \in posted,
           row' \in [Signals -> Rows],
           \A s \in Signals : /\ row'[s] = "none" <=> row[s] = "none"
                              /\ row'[s] = "pending" => row[s] = "pending",
           UNCHANGED <<end, posted, kept, hashes>>
    PROVE  PipeInv'
<1>1. \A d \in Cycles : d # c => /\ Armed(d)' <=> Armed(d)
                                 /\ Out(d)' = Out(d)
                                 /\ \A a : At(d, a)' <=> At(d, a)
    BY DEF Elsewhere, Armed, At, Out
<1>2. (Armed(c)' <=> Armed(c)) /\ ~At(c, "arm") /\ ~At(c, "arm")'
    BY DEF Armed, At, Working
<1>3. \A d \in Cycles : Armed(d) => Out(d) \in Signals
    BY OutHeld DEF Armed, Working, PipeInv
<1>4. \A d \in Cycles : /\ Armed(d)' <=> Armed(d)
                        /\ Armed(d) => Out(d)' = Out(d) /\ Out(d) \in Signals
    BY <1>1, <1>2, <1>3 DEF Armed, Working
<1>5. \A d \in Cycles : At(d, "cooldowns")' => Out(d)' \in posted'
  <2>1. At(c, "cooldowns")' => Out(c)' \in posted'
    BY DEF At
  <2>2. \A d \in Cycles : At(d, "cooldowns") => Out(d) \in posted
    BY DEF PipeInv, RowInv
  <2>. QED BY <1>1, <2>1, <2>2
<1>6. \A d \in Cycles : Holds(d) \subseteq Signals
    BY HoldsSignals DEF PipeInv
<1>7. RowInv'
  <2>1. posted' \subseteq Signals /\ kept' \subseteq Signals /\ \A s \in posted' \union kept' : row[s] # "none"
    BY DEF PipeInv, RowInv
  <2>. QED BY <1>4, <1>5, <1>6, <2>1, RowStay DEF PipeInv
<1>8. \A s \in Signals : Cleared(s)' => Cleared(s)
    BY <1>1, <1>2 DEF Cleared
<1>9. ContentInv'
    BY <1>8, ContentKept DEF PipeInv
<1>. QED BY <1>7, <1>9 DEF PipeInv

LEMMA PipeDrop ==
    ASSUME PipeInv, NEW c \in Cycles, NEW s \in Signals, NEW r \in Rows, NEW e \in Ends,
           NEW a \in {"select", "head"}, Drops(c, s, a), ReqInv',
           Armed(c) => s = Out(c),
           row' = [row EXCEPT ![s] = r], end' = [end EXCEPT ![s] = e], e # "none",
           UNCHANGED <<posted, kept>>, hashes \subseteq hashes',
           e = "delivered" => s \in posted,
           r = "pending" => s \in posted \/ e = "arm_timeout",
           r = "none" => row[s] = "none",
           r # "none" => Cleared(s)
    PROVE  PipeInv'
<1>1. RowInv'
    BY RowDrop DEF PipeInv, Drops
<1>2. \A d \in Cycles : d # c => Out(d)' = Out(d) /\ (At(d, "arm")' <=> At(d, "arm"))
    BY DEF Drops, Elsewhere, At, Out
<1>3. ~At(c, "arm")'
    BY DEF Drops, At
<1>4. \A t \in Signals : row'[t] = IF t = s THEN r ELSE row[t]
    BY DEF PipeInv, RowInv
<1>5. \A t \in Signals : Cleared(t)' => Cleared(t)
    BY <1>2, <1>3, <1>4 DEF Cleared
<1>. QED BY <1>1, <1>5, ContentKept DEF PipeInv, Drops

\* A signal that waits is given up; it has no row yet.
LEMMA PipeGiveUp ==
    ASSUME PipeInv, NEW c \in Cycles, NEW s \in Signals, NEW a \in {"select", "head"},
           Drops(c, s, a), ~At(c, "sending"), ~Armed(c),
           UNCHANGED <<serviceVars, row>>, hashes \subseteq hashes',
           end' = [end EXCEPT ![s] = "dropped"]
    PROVE  PipeInv'
<1>1. s \in Holds(c) /\ Elsewhere(c) /\ cycle'[c].at \in {"select", "head"}
    BY DEF Drops
<1>2. row[s] = "none"
    BY <1>1 DEF PipeInv, RowInv
<1>3. row' = [row EXCEPT ![s] = "none"]
    BY <1>2 DEF PipeInv, RowInv
<1>4. ReqInv'
    BY <1>1, ReqElsewhere DEF PipeInv
<1>. QED BY <1>2, <1>3, <1>4, PipeDrop DEF Rows, Ends, serviceVars

LEMMA CurHeld ==
    ASSUME HoldInv, NEW c \in Cycles, cycle[c].todo # <<>>
    PROVE  Cur(c) \in Signals
<1>1. cycle[c].todo \in Seq(Signals)
    BY DEF HoldInv, Run
<1>. QED BY <1>1 DEF Cur

LEMMA RejectedKeeps ==
    ASSUME PipeInv, NEW c \in Cycles, Rejected(c), cycle[c].todo # <<>>,
           cycle[c].at \in {"select"} \union Selecting
    PROVE  PipeInv'
<1>1. Drops(c, Cur(c), "select") /\ Cur(c) \in Signals
    BY RejectHolds, CurHeld DEF PipeInv, Rejected
<1>2. ~Armed(c) /\ ~At(c, "sending")
    BY DEF Armed, At, Selecting
<1>3. UNCHANGED <<serviceVars, row, hashes>> /\ end' = [end EXCEPT ![Cur(c)] = "dropped"]
    BY DEF Rejected, windows
<1>. QED BY <1>1, <1>2, <1>3, PipeGiveUp

\* A step of the selection that keeps the signals and only touches rows.
LEMMA SelectStay ==
    ASSUME PipeInv, NEW c \in Cycles, NEW a, Stays(c, a),
           cycle[c].at \in {"select"} \union Selecting,
           a \in Selecting \union {"head"},
           a \in Selecting => cycle[c].todo # <<>>,
           a = "head" => cycle[c].todo = <<>>,
           row' \in [Signals -> Rows],
           \A s \in Signals : /\ row'[s] = "none" <=> row[s] = "none"
                              /\ row'[s] = "pending" => row[s] = "pending",
           UNCHANGED <<end, serviceVars, hashes>>
    PROVE  PipeInv'
<1>1. /\ HoldInv' /\ Elsewhere(c) /\ cycle'[c].at = a
      /\ \A d \in Cycles : Holds(d)' = Holds(d) /\ Out(d)' = Out(d)
    BY StayHolds DEF PipeInv, Selecting, Working
<1>2. ~At(c, "sending") /\ a # "sending" /\ cycle[c].at \notin Working /\ a \notin Working
      /\ a # "arm" /\ cycle[c].at # "arm" /\ a # "cooldowns"
    BY DEF At, Selecting, Working
<1>3. ReqInv'
    BY <1>1, <1>2, ReqElsewhere DEF PipeInv
<1>. QED BY <1>1, <1>2, <1>3, PipeStay DEF serviceVars

\* The loop has a signal at hand.
LEMMA AtSelecting ==
    ASSUME PipeInv, NEW c \in Cycles, cycle[c].at \in Selecting
    PROVE  cycle[c].todo # <<>>
    BY DEF PipeInv, HoldInv, Shaped

LEMMA PipeBegin ==
    ASSUME PipeInv, NEW c \in Cycles, Begin(c)
    PROVE  PipeInv'
<1>1. /\ HoldInv' /\ Elsewhere(c) /\ cycle'[c].at = "select"
      /\ Holds(c) = {} /\ Holds(c)' \subseteq Fresh
    BY BeginHolds DEF PipeInv
<1>2. UNCHANGED <<serviceVars, row, hashes, end>> /\ cycle[c].at = "idle"
    BY DEF Begin, windows, At
<1>3. ReqInv'
    BY <1>1, <1>2, ReqElsewhere DEF PipeInv, At
<1>4. \A d \in Cycles : d # c => /\ Armed(d)' <=> Armed(d)
                                 /\ Out(d)' = Out(d) /\ Holds(d)' = Holds(d)
                                 /\ \A a : At(d, a)' <=> At(d, a)
    BY <1>1 DEF Elsewhere, Armed, At, Out, Holds
<1>5. ~Armed(c)' /\ ~At(c, "arm")' /\ ~At(c, "cooldowns")'
    BY <1>1 DEF Armed, At
<1>6. \A s \in Fresh : s \in Signals /\ row[s] = "none"
    BY DEF Fresh, PipeInv, RowInv, Owned
<1>7. \A s : Owned(s) => Owned(s)'
    BY <1>1, <1>4 DEF Owned
<1>8. RowInv'
  <2>1. ASSUME NEW d \in Cycles, NEW s \in Holds(d)'
        PROVE  row'[s] = "none" \/ (Armed(d)' /\ s = Out(d)')
    <3>1. CASE d = c
      <4>1. Holds(d)' = Holds(c)'
        BY <3>1 DEF Holds
      <4>. QED BY <1>1, <1>2, <1>6, <2>1, <4>1
    <3>2. CASE d # c
      <4>1. s \in Holds(d) /\ row' = row
        BY <1>2, <1>4, <2>1, <3>2
      <4>2. row[s] = "none" \/ (Armed(d) /\ s = Out(d))
        BY <4>1 DEF PipeInv, RowInv
      <4>. QED BY <1>4, <3>2, <4>1, <4>2
    <3>. QED BY <3>1, <3>2
  <2>2. ASSUME NEW d \in Cycles
        PROVE  /\ Armed(d)' => row'[Out(d)'] # "none"
               /\ At(d, "cooldowns")' => Out(d)' \in posted'
    <3>1. CASE d = c
      BY <1>1, <3>1 DEF Armed, At
    <3>2. CASE d # c
      BY <1>2, <1>4, <3>2 DEF PipeInv, RowInv, serviceVars
    <3>. QED BY <3>1, <3>2
  <2>. QED BY <1>2, <1>7, <2>1, <2>2 DEF PipeInv, RowInv, serviceVars
<1>9. \A s \in Signals : Cleared(s)' => Cleared(s)
    BY <1>2, <1>4, <1>5 DEF Cleared
<1>. QED BY <1>1, <1>2, <1>3, <1>8, <1>9, ContentKept DEF PipeInv

LEMMA PipeSupersede ==
    ASSUME PipeInv, NEW c \in Cycles, At(c, "supersede"), NEW closed \in SUBSET Signals,
           \A t \in closed : row[t] # "none", Resume(c, closed)
    PROVE  PipeInv'
<1>1. cycle[c].todo # <<>> /\ cycle[c].at = "supersede"
    BY AtSelecting DEF At, Selecting
<1>2. CASE Rejected(c)
    BY <1>1, <1>2, RejectedKeeps DEF Selecting
<1>3. CASE /\ row' = [t \in Signals |-> IF t \in closed THEN "closed" ELSE row[t]]
           /\ cycle' = [cycle EXCEPT ![c].at = "queue"]
           /\ UNCHANGED <<serviceVars, windows, end>>
  <2>1. Stays(c, "queue")
    BY <1>3, ZenonT(60) DEF PipeInv, HoldInv, Run, Stays, Elsewhere, Selecting
  <2>2. row' \in [Signals -> Rows]
    BY <1>3 DEF PipeInv, RowInv, Rows
  <2>3. \A s \in Signals : /\ row'[s] = "none" <=> row[s] = "none"
                           /\ row'[s] = "pending" => row[s] = "pending"
    BY <1>3
  <2>. QED BY <1>1, <1>3, <2>1, <2>2, <2>3, SelectStay DEF Selecting, windows
<1>. QED BY <1>2, <1>3 DEF Resume

LEMMA PipeSelect ==
    ASSUME PipeInv, NEW c \in Cycles, Select(c)
    PROVE  PipeInv'
<1>1. row \in [Signals -> Rows] /\ cycle \in [Cycles -> Run] /\ cycle[c] \in Run
    BY DEF PipeInv, RowInv, HoldInv
<1>2. CASE Check(c)
  <2>1. cycle[c].todo # <<>> /\ cycle[c].at = "select"
    BY <1>2 DEF Check, At
  <2>2. CASE cycle' = [cycle EXCEPT ![c].at = "look"]
             /\ UNCHANGED <<serviceVars, row, windows, end>>
    <3>1. Stays(c, "look")
      BY <1>1, <2>2 DEF Run, Stays, Elsewhere, Selecting
    <3>. QED BY <1>1, <2>1, <2>2, <3>1, SelectStay DEF Selecting, windows
  <2>. QED BY <1>2, <2>1, <2>2, RejectedKeeps DEF Check
<1>3. CASE Look(c)
  <2>1. cycle[c].todo # <<>> /\ cycle[c].at = "look" /\ UNCHANGED <<serviceVars, row, hashes>>
    BY <1>3, AtSelecting DEF Look, At, Selecting, windows
  <2>2. CASE cycle' = [cycle EXCEPT ![c].at = "supersede", ![c].via = "same"] /\ UNCHANGED end
    <3>1. Stays(c, "supersede")
      BY <1>1, <2>2 DEF Run, Stays, Elsewhere, Selecting
    <3>. QED BY <1>1, <2>1, <2>2, <3>1, SelectStay DEF Selecting
  <2>3. CASE cycle' = [cycle EXCEPT ![c].at = "cool", ![c].kind = 1] /\ UNCHANGED end
    <3>1. Stays(c, "cool")
      BY <1>1, <2>3 DEF Run, Stays, Elsewhere, Selecting
    <3>. QED BY <1>1, <2>1, <2>3, <3>1, SelectStay DEF Selecting
  <2>4. CASE /\ cycle' = [cycle EXCEPT ![c].at = "select", ![c].todo = Tail(@)]
             /\ end' = [end EXCEPT ![Cur(c)] = "dropped"]
    <3>1. Drops(c, Cur(c), "select") /\ Cur(c) \in Signals
      BY <2>1, <2>4, RejectHolds, CurHeld DEF PipeInv
    <3>. QED BY <2>1, <2>4, <3>1, PipeGiveUp DEF Armed, At
  <2>. QED BY <1>3, <2>2, <2>3, <2>4 DEF Look
<1>4. CASE ReadCooldown(c)
  <2>1. cycle[c].todo # <<>> /\ cycle[c].at = "cool"
    BY <1>4, AtSelecting DEF ReadCooldown, At, Selecting
  <2>2. CASE \E a \in {"cool", "supersede", "queue"}, k \in Nat, v \in {None, "same", "cooldown"} :
                /\ cycle' = [cycle EXCEPT ![c].at = a, ![c].kind = k, ![c].via = v]
                /\ UNCHANGED <<serviceVars, row, windows, end>>
    <3>1. PICK a \in {"cool", "supersede", "queue"}, k \in Nat, v \in {None, "same", "cooldown"} :
                cycle' = [cycle EXCEPT ![c].at = a, ![c].kind = k, ![c].via = v]
      BY <2>2
    <3>2. Stays(c, a)
      BY <1>1, <3>1 DEF Run, Stays, Elsewhere, Selecting
    <3>. QED BY <1>1, <2>1, <2>2, <3>2, SelectStay DEF Selecting, windows
  <2>3. CASE Rejected(c)
    BY <2>1, <2>3, RejectedKeeps DEF Selecting
  <2>4. Rejected(c) \/ /\ UNCHANGED <<serviceVars, row, windows, end>>
                       /\ \E a \in {"cool", "supersede", "queue"}, k \in Nat,
                             v \in {None, "same", "cooldown"} :
                             cycle' = [cycle EXCEPT ![c].at = a, ![c].kind = k, ![c].via = v]
    <3>1. cycle[c].kind \in Nat /\ cycle[c].via \in {None, "same", "cooldown"}
      BY <1>1 DEF Run
    <3> DEFINE last == cycle[c].kind = Len(Kinds)
               a == IF ~last THEN "cool"
                    ELSE IF CoolKey(Kinds[cycle[c].kind], Cur(c)) \in cooling THEN "supersede"
                    ELSE "queue"
               k == IF last THEN 0 ELSE cycle[c].kind + 1
               v == IF last THEN "cooldown" ELSE cycle[c].via
    <3>2. a \in {"cool", "supersede", "queue"} /\ k \in Nat /\ v \in {None, "same", "cooldown"}
      BY <3>1
    <3>3. Rejected(c) \/ /\ UNCHANGED <<serviceVars, row, windows, end>>
                         /\ cycle' = [cycle EXCEPT ![c].at = a, ![c].kind = k, ![c].via = v]
      BY <1>4 DEF ReadCooldown
    <3> HIDE DEF a, k, v
    <3>. QED BY <3>2, <3>3
  <2>. QED BY <2>2, <2>3, <2>4
<1>5. CASE Supersede(c)
  <2> DEFINE closed == {t \in OpenRows(Cur(c)) : Setup(t) = Setup(Cur(c)) /\ Waiting(t)}
  <2>1. closed \in SUBSET Signals /\ \A t \in closed : row[t] # "none"
    BY DEF OpenRows, Waiting
  <2>2. At(c, "supersede") /\ Resume(c, closed)
    BY <1>5 DEF Supersede
  <2> HIDE DEF closed
  <2>. QED BY <2>1, <2>2, PipeSupersede
<1>6. CASE SupersedeFails(c)
  <2>1. At(c, "supersede") /\ Resume(c, {})
    BY <1>6, SMTT(30) DEF SupersedeFails
  <2>. QED BY <2>1, PipeSupersede
<1>7. CASE Queue(c)
  <2>1. cycle[c].todo # <<>> /\ cycle[c].at = "queue"
    BY <1>7, AtSelecting DEF Queue, At, Selecting
  <2>2. CASE Rejected(c)
    BY <2>1, <2>2, RejectedKeeps, SMTT(30) DEF Selecting
  <2>3. CASE /\ cycle' = [cycle EXCEPT ![c].at = "select", ![c].todo = Tail(@),
                    ![c].ready = Append(@, Cur(c)), ![c].via = None,
                    ![c].setups = @ \union {Setup(Cur(c))}]
             /\ UNCHANGED <<serviceVars, row, hashes, end>>
    <3>1. /\ HoldInv' /\ Elsewhere(c) /\ cycle'[c].at = "select"
          /\ \A d \in Cycles : Holds(d)' = Holds(d)
      BY <2>1, <2>3, QueueHolds DEF PipeInv
    <3>2. ReqInv'
      BY <2>1, <2>3, <3>1, ReqElsewhere DEF PipeInv, At
    <3>. QED BY <1>1, <2>1, <2>3, <3>1, <3>2, PipeStay, SMTT(30) DEF Working, serviceVars
  <2>. QED BY <1>7, <2>2, <2>3 DEF Queue
<1>8. CASE EndSelection(c)
  <2>1. cycle[c].todo = <<>> /\ cycle[c].at = "select" /\ UNCHANGED <<serviceVars, row, hashes, end>>
        /\ cycle' = [cycle EXCEPT ![c].at = "head"]
    BY <1>8 DEF EndSelection, At, windows
  <2>2. Stays(c, "head")
    BY <1>1, <2>1 DEF Run, Stays, Elsewhere
  <2>. QED BY <1>1, <2>1, <2>2, SelectStay DEF Selecting
<1>. QED BY <1>2, <1>3, <1>4, <1>5, <1>6, <1>7, <1>8, PipeBegin DEF Select

LEMMA PipeDeliverHead ==
    ASSUME PipeInv, NEW c \in Cycles, DeliverHead(c)
    PROVE  PipeInv'
<1>1. /\ cycle[c].at = "head" /\ cycle[c].ready # <<>> /\ UNCHANGED <<serviceVars, row>>
      /\ cycle \in [Cycles -> Run] /\ cycle[c] \in Run /\ row \in [Signals -> Rows]
    BY DEF DeliverHead, At, PipeInv, HoldInv, RowInv
<1>2. CASE Left(c, "dropped") /\ hashes \subseteq hashes'
  <2>1. Drops(c, Out(c), "head")
    BY <1>1, <1>2, LeftHolds DEF PipeInv
  <2>2. Out(c) \in Signals /\ end' = [end EXCEPT ![Out(c)] = "dropped"]
    BY <1>2, <2>1 DEF Drops, Left
  <2>. QED BY <1>1, <1>2, <2>1, <2>2, PipeGiveUp DEF Armed, At
<1>3. CASE /\ Content(Out(c)) \notin hashes
           /\ hashes' = hashes \union {Content(Out(c))}
           /\ \E tier \in {"action", "watch"} :
                 cycle' = [cycle EXCEPT ![c].at = "arm", ![c].tier = tier]
           /\ UNCHANGED end
  <2>1. Stays(c, "arm")
    <3>1. PICK tier \in {"action", "watch"} :
              cycle' = [cycle EXCEPT ![c].at = "arm", ![c].tier = tier]
      BY <1>3
    <3>. QED BY <1>1, <3>1 DEF Run, Stays, Elsewhere, Working
  <2>2. cycle[c].todo = <<>>
    BY <1>1 DEF PipeInv, HoldInv, Shaped
  <2>3. /\ HoldInv' /\ Elsewhere(c) /\ cycle'[c].at = "arm"
        /\ \A d \in Cycles : Holds(d)' = Holds(d) /\ Out(d)' = Out(d)
    BY <1>1, <2>1, <2>2, StayHolds DEF PipeInv, Selecting
  <2>4. ReqInv'
    BY <1>1, <2>3, ReqElsewhere DEF PipeInv, At
  <2>5. \A d \in Cycles : Armed(d)' <=> Armed(d)
    BY <1>1, <2>3 DEF Elsewhere, Armed
  <2>6. \A d \in Cycles : At(d, "cooldowns")' => At(d, "cooldowns")
    BY <2>3 DEF Elsewhere, At
  <2>7. RowInv'
    <3>1. \A d \in Cycles : Holds(d) \subseteq Signals /\ (Armed(d) => Out(d) \in Signals)
      BY HoldsSignals, OutHeld DEF PipeInv, Armed, Working
    <3>2. \A d \in Cycles : At(d, "cooldowns")' => Out(d)' \in posted'
      BY <1>1, <2>3, <2>6 DEF PipeInv, RowInv, serviceVars
    <3>3. posted' = posted /\ kept' = kept /\ posted \subseteq Signals /\ kept \subseteq Signals
          /\ \A s \in posted \union kept : row[s] # "none"
      BY <1>1 DEF PipeInv, RowInv, serviceVars
    <3>. QED BY <1>1, <1>3, <2>3, <2>5, <3>1, <3>2, <3>3, RowStay DEF PipeInv
  <2>8. \A s \in Signals : Cleared(s)' => Cleared(s) \/ s = Out(c)
    <3>1. \A d \in Cycles : d # c => (At(d, "arm")' <=> At(d, "arm"))
      BY <2>3 DEF Elsewhere, At
    <3>. QED BY <1>1, <2>3, <3>1 DEF Cleared
  <2>9. ContentInv'
    BY <1>3, <2>8 DEF ContentInv, PipeInv
  <2>. QED BY <2>3, <2>4, <2>7, <2>9 DEF PipeInv
<1>. QED BY <1>1, <1>2, <1>3 DEF DeliverHead

LEMMA PipeArm ==
    ASSUME PipeInv, NEW c \in Cycles, Arm(c)
    PROVE  PipeInv'
<1>1. /\ cycle[c].at = "arm" /\ UNCHANGED <<serviceVars, hashes, end>>
      /\ cycle \in [Cycles -> Run] /\ cycle[c] \in Run
      /\ cycle' = [cycle EXCEPT ![c].at = "deliver"]
      /\ row' = [row EXCEPT ![Out(c)] = "pending"]
    BY DEF Arm, At, PipeInv, HoldInv, windows
<1>2. Out(c) \in Holds(c) /\ Out(c) \in Signals /\ cycle[c].ready # <<>>
    BY <1>1, OutHeld DEF PipeInv, Working
<1>3. Stays(c, "deliver") /\ cycle[c].todo = <<>>
    BY <1>1 DEF Run, Stays, Elsewhere, Working, PipeInv, HoldInv, Shaped
<1>4. /\ HoldInv' /\ Elsewhere(c) /\ cycle'[c].at = "deliver"
      /\ \A d \in Cycles : Holds(d)' = Holds(d) /\ Out(d)' = Out(d)
    BY <1>2, <1>3, StayHolds DEF PipeInv, Selecting
<1>5. ReqInv'
    BY <1>1, <1>4, ReqElsewhere DEF PipeInv, At
<1>6. \A s \in Signals : row'[s] = IF s = Out(c) THEN "pending" ELSE row[s]
    BY <1>1 DEF PipeInv, RowInv
<1>7. /\ Armed(c)' /\ ~Armed(c) /\ ~At(c, "cooldowns")' /\ ~At(c, "arm")' /\ At(c, "arm")
      /\ \A d \in Cycles : d # c => /\ Armed(d)' <=> Armed(d)
                                    /\ At(d, "cooldowns")' <=> At(d, "cooldowns")
                                    /\ At(d, "arm")' <=> At(d, "arm")
    BY <1>1, <1>4 DEF Armed, At, Elsewhere
<1>8. \A s : Owned(s)' <=> Owned(s)
    BY <1>4 DEF Owned
<1>9. RowInv'
  <2>1. ASSUME NEW d \in Cycles, NEW s \in Holds(d)'
        PROVE  row'[s] = "none" \/ (Armed(d)' /\ s = Out(d)')
    <3>1. s \in Holds(d) /\ s \in Signals
      BY <1>4, <2>1, HoldsSignals DEF PipeInv
    <3>2. row[s] = "none" \/ (Armed(d) /\ s = Out(d))
      BY <3>1 DEF PipeInv, RowInv
    <3>3. CASE d = c
      <4>1. CASE s = Out(c)
        <5>1. s = Out(d)' /\ Armed(d)'
          BY <1>4, <1>7, <3>3, <4>1 DEF Armed, Out
        <5>. QED BY <5>1
      <4>2. CASE s # Out(c)
        BY <1>6, <1>7, <3>1, <3>2, <3>3, <4>2
      <4>. QED BY <4>1, <4>2
    <3>4. CASE d # c
      <4>1. s # Out(c)
        BY <1>2, <3>1, <3>4 DEF PipeInv, HoldInv
      <4>. QED BY <1>4, <1>6, <1>7, <3>1, <3>2, <3>4, <4>1
    <3>. QED BY <3>3, <3>4
  <2>2. \A d \in Cycles : Armed(d) \/ d = c => Out(d) \in Signals
    BY <1>2, OutHeld DEF PipeInv, Armed, Working
  <2>3. ASSUME NEW d \in Cycles
        PROVE  /\ Armed(d)' => row'[Out(d)'] # "none"
               /\ At(d, "cooldowns")' => Out(d)' \in posted'
    <3>1. CASE d = c
      BY <1>2, <1>4, <1>6, <3>1 DEF Armed, At
    <3>2. CASE d # c
      BY <1>1, <1>4, <1>6, <1>7, <2>2, <3>2 DEF PipeInv, RowInv, serviceVars
    <3>. QED BY <3>1, <3>2
  <2>4. \A s \in posted' \union kept' : row'[s] # "none"
    BY <1>1, <1>6 DEF PipeInv, RowInv, serviceVars
  <2>5. \A s \in Signals :
          /\ end'[s] = "delivered" => s \in posted'
          /\ end'[s] = "none" /\ ~Owned(s)' => row'[s] = "none"
          /\ row'[s] = "pending" /\ s \notin posted' /\ ~Owned(s)'
                => end'[s] \in {"arm_timeout", "aborted"}
    <3>1. Owned(Out(c))
      BY <1>2 DEF Owned
    <3>. QED BY <1>1, <1>6, <1>8, <3>1 DEF PipeInv, RowInv, serviceVars
  <2>6. row' \in [Signals -> Rows] /\ end' \in [Signals -> Ends]
        /\ posted' \subseteq Signals /\ kept' \subseteq Signals
    BY <1>1 DEF PipeInv, RowInv, Rows, serviceVars
  <2>. QED BY <2>1, <2>3, <2>4, <2>5, <2>6 DEF RowInv
<1>10. \A s \in Signals : Cleared(s)' => Cleared(s)
    BY <1>4, <1>6, <1>7 DEF Cleared
<1>. QED BY <1>1, <1>4, <1>5, <1>9, <1>10, ContentKept DEF PipeInv

\* A stage of the delivery that keeps the signals and the rows.
LEMMA DispatchStay ==
    ASSUME PipeInv, NEW c \in Cycles, NEW a, Stays(c, a), ReqInv',
           cycle[c].at \in Working \ {"arm"}, a \in Working \ {"arm"},
           a = "cooldowns" => Out(c) \in posted,
           UNCHANGED <<row, end, posted, kept, hashes>>
    PROVE  PipeInv'
<1>1. cycle[c].ready # <<>> /\ cycle[c].todo = <<>>
    BY DEF PipeInv, HoldInv, Shaped
<1>2. /\ HoldInv' /\ Elsewhere(c) /\ cycle'[c].at = a
      /\ \A d \in Cycles : Holds(d)' = Holds(d) /\ Out(d)' = Out(d)
    BY <1>1, StayHolds DEF PipeInv, Selecting, Working
<1>3. row' \in [Signals -> Rows]
    BY DEF PipeInv, RowInv
<1>. QED BY <1>2, <1>3, PipeStay

LEMMA StaysSame ==
    ASSUME NEW c \in Cycles, NEW a, Stays(c, a)
    PROVE  /\ Out(c)' = Out(c) /\ Elsewhere(c) /\ cycle'[c].at = a
    BY DEF Stays, Out

LEMMA PipeDeliver ==
    ASSUME PipeInv, NEW c \in Cycles, Deliver(c)
    PROVE  PipeInv'
<1>1. /\ cycle[c].at = "deliver" /\ UNCHANGED <<row, end, hashes>>
      /\ cycle \in [Cycles -> Run] /\ cycle[c] \in Run
    BY DEF Deliver, At, PipeInv, HoldInv, windows
<1>2. CASE Start(c, Out(c)) /\ cycle' = [cycle EXCEPT ![c].at = "sending"]
  <2>1. Stays(c, "sending")
    BY <1>1, <1>2 DEF Run, Stays, Elsewhere, Working
  <2>2. ReqInv'
    <3>1. At(c, "deliver") /\ At(c, "sending")'
      BY <1>1, <2>1, StaysSame DEF At
    <3>. QED BY <1>2, <2>1, <3>1, StaysSame, ReqStart DEF PipeInv
  <2>. QED BY <1>1, <1>2, <2>1, <2>2, DispatchStay DEF Working, Start
<1>3. CASE UNCHANGED serviceVars /\ cycle' = [cycle EXCEPT ![c].at = "cancel"]
  <2>1. Stays(c, "cancel")
    BY <1>1, <1>3 DEF Run, Stays, Elsewhere, Working
  <2>2. ReqInv'
    BY <1>1, <1>3, <2>1, StaysSame, ReqElsewhere DEF PipeInv, At
  <2>. QED BY <1>1, <1>3, <2>1, <2>2, DispatchStay DEF Working, serviceVars
<1>. QED BY <1>2, <1>3 DEF Deliver

LEMMA PipeDelivered ==
    ASSUME PipeInv, NEW c \in Cycles, Delivered(c) \/ NotSent(c)
    PROVE  PipeInv'
<1>1. /\ cycle[c].at = "sending" /\ UNCHANGED <<row, end, hashes>> /\ Leave(c)
      /\ cycle \in [Cycles -> Run] /\ cycle[c] \in Run /\ UNCHANGED <<posted, kept>>
    BY DEF Delivered, NotSent, At, PipeInv, HoldInv, windows, Leave
<1>2. CASE Delivered(c)
  <2>1. cycle' = [cycle EXCEPT ![c].at = "cooldowns", ![c].kind = 1]
    BY <1>2 DEF Delivered
  <2>2. Stays(c, "cooldowns")
    BY <1>1, <2>1 DEF Run, Stays, Elsewhere, Working
  <2>3. Out(c) \in posted
    BY <1>1, <1>2 DEF Delivered, At, PipeInv, ReqInv
  <2>4. ReqInv'
    BY <1>1, <2>2, StaysSame, ReqLeave DEF PipeInv, At
  <2>. QED BY <1>1, <2>2, <2>3, <2>4, DispatchStay DEF Working
<1>3. CASE NotSent(c)
  <2>1. cycle' = [cycle EXCEPT ![c].at = "cancel"]
    BY <1>3 DEF NotSent
  <2>2. Stays(c, "cancel")
    BY <1>1, <2>1 DEF Run, Stays, Elsewhere, Working
  <2>3. ReqInv'
    BY <1>1, <2>2, StaysSame, ReqLeave DEF PipeInv, At
  <2>. QED BY <1>1, <2>2, <2>3, DispatchStay DEF Working
<1>. QED BY <1>2, <1>3

LEMMA PipeLeft ==
    ASSUME PipeInv, NEW c \in Cycles, NEW r \in Rows, NEW e \in Ends,
           cycle[c].at \in {"arm", "cooldowns", "cancel", "closing"}, Left(c, e),
           UNCHANGED <<serviceVars, hashes>>, row' = [row EXCEPT ![Out(c)] = r], e # "none",
           e = "delivered" => Out(c) \in posted,
           r = "pending" => Out(c) \in posted \/ e = "arm_timeout",
           r = "none" => row[Out(c)] = "none"
    PROVE  PipeInv'
<1>1. Out(c) \in Signals /\ cycle[c].ready # <<>>
    BY OutHeld DEF Working, PipeInv
<1>2. Drops(c, Out(c), "head") /\ end' = [end EXCEPT ![Out(c)] = e]
    BY <1>1, LeftHolds DEF PipeInv, Left, Working
<1>3. ReqInv'
    BY <1>2, ReqElsewhere DEF PipeInv, Drops, At
<1>4. Cleared(Out(c))
    BY DEF Cleared, At, Armed, PipeInv, RowInv
<1>. QED BY <1>1, <1>2, <1>3, <1>4, PipeDrop DEF serviceVars

LEMMA PipeDispatch ==
    ASSUME PipeInv, NEW c \in Cycles, Dispatch(c)
    PROVE  PipeInv'
<1>1. /\ row \in [Signals -> Rows] /\ cycle \in [Cycles -> Run] /\ cycle[c] \in Run
      /\ Shaped(cycle[c])
    BY DEF PipeInv, RowInv, HoldInv
<1>2. cycle[c].at \in Working => Out(c) \in Signals
    BY OutHeld DEF PipeInv
<1>3. CASE CancelPendingDelivery(c)
  <2>1. cycle[c].at = "cancel" /\ UNCHANGED <<serviceVars, row, hashes>>
    BY <1>3 DEF CancelPendingDelivery, At, windows
  <2>2. CASE cycle' = [cycle EXCEPT ![c].at = "closing"] /\ UNCHANGED end
    <3>1. Stays(c, "closing")
      BY <1>1, <2>2 DEF Run, Stays, Elsewhere, Working
    <3>2. ReqInv'
      BY <2>1, <3>1, StaysSame, ReqElsewhere DEF PipeInv, At
    <3>. QED BY <2>1, <2>2, <3>1, <3>2, DispatchStay DEF Working, serviceVars
  <2>3. CASE Left(c, "dropped") /\ ~Waiting(Out(c))
    <3>1. row' = [row EXCEPT ![Out(c)] = row[Out(c)]] /\ row[Out(c)] \in Rows \ {"pending"}
      BY <1>1, <1>2, <2>1, <2>3 DEF Working, Waiting
    <3>. QED BY <2>1, <2>3, <3>1, PipeLeft DEF Ends
  <2>. QED BY <1>3, <2>2, <2>3 DEF CancelPendingDelivery
<1>7. CASE CloseCancelled(c)
  <2>1. /\ cycle[c].at = "closing" /\ Left(c, "dropped") /\ UNCHANGED <<serviceVars, hashes>>
        /\ row' = [row EXCEPT ![Out(c)] = "closed"]
    BY <1>7 DEF CloseCancelled, At, windows
  <2>. QED BY <2>1, PipeLeft DEF Rows, Ends
<1>4. CASE RecordBurst(c)
  <2>1. /\ cycle[c].at = "cooldowns" /\ Left(c, "delivered") /\ UNCHANGED <<serviceVars, hashes>>
        /\ row' = row
    BY <1>4 DEF RecordBurst, At
  <2>2. row' = [row EXCEPT ![Out(c)] = row[Out(c)]] /\ row[Out(c)] \in Rows
    BY <1>1, <1>2, <2>1 DEF Working
  <2>3. Out(c) \in posted
    BY <2>1 DEF PipeInv, RowInv, At
  <2>. QED BY <2>1, <2>2, <2>3, PipeLeft DEF Ends
<1>5. CASE SetCooldown(c)
  <2>1. /\ cycle[c].at = "cooldowns" /\ UNCHANGED <<serviceVars, row, hashes, end>>
        /\ cycle' = [cycle EXCEPT ![c].kind = cycle[c].kind + 1]
    BY <1>5 DEF SetCooldown, At
  <2>2. cycle[c].kind + 1 \in Nat
    BY <1>1 DEF Run
  <2>3. Stays(c, "cooldowns")
    BY <1>1, <2>1, <2>2 DEF Run, Stays, Elsewhere
  <2>4. ReqInv'
    BY <2>1, <2>3, StaysSame, ReqElsewhere DEF PipeInv, At
  <2>5. Out(c) \in posted
    BY <2>1 DEF PipeInv, RowInv, At
  <2>. QED BY <2>1, <2>3, <2>4, <2>5, DispatchStay DEF Working, serviceVars
<1>6. CASE EndCycle(c)
  <2>1. /\ cycle[c].at = "head" /\ cycle[c].ready = <<>> /\ cycle[c].todo = <<>>
        /\ UNCHANGED <<serviceVars, row, hashes, end>> /\ cycle' = [cycle EXCEPT ![c] = Resting]
    BY <1>1, <1>6 DEF EndCycle, At, Shaped, windows
  <2>2. HoldInv' /\ Elsewhere(c) /\ cycle'[c].at = "idle" /\ Holds(c)' = {}
    BY <2>1, RestHolds DEF PipeInv
  <2>3. Holds(c) = {}
    BY <2>1 DEF Holds
  <2>4. \A d \in Cycles : Holds(d)' = Holds(d)
    <3>1. ASSUME NEW d \in Cycles PROVE Holds(d)' = Holds(d)
      <4>1. CASE d = c
        <5>1. Holds(d)' = Holds(c)' /\ Holds(d) = Holds(c)
          BY <4>1 DEF Holds
        <5>. QED BY <2>2, <2>3, <5>1
      <4>2. CASE d # c
        BY <2>2, <4>2 DEF Elsewhere, Holds
      <4>. QED BY <4>1, <4>2
    <3>. QED BY <3>1
  <2>5. ReqInv'
    BY <2>1, <2>2, ReqElsewhere DEF PipeInv, At
  <2>. QED BY <1>1, <2>1, <2>2, <2>4, <2>5, PipeStay DEF Working, serviceVars
<1>. QED BY <1>3, <1>4, <1>5, <1>6, <1>7, PipeDeliverHead, PipeArm, PipeDeliver, PipeDelivered
         DEF Dispatch

\* A cycle is cut short: what it holds is aborted, and the row of a signal that is
\* being armed or cancelled may just have been stored.
LEMMA PipeAbort ==
    ASSUME PipeInv, NEW c \in Cycles, Abort(c), ReqInv', UNCHANGED <<posted, kept>>,
           \/ UNCHANGED row
           \/ At(c, "arm") /\ row' = [row EXCEPT ![Out(c)] = "pending"]
           \/ At(c, "closing") /\ row' = [row EXCEPT ![Out(c)] = "closed"]
    PROVE  PipeInv'
<1>1. /\ cycle' = [cycle EXCEPT ![c] = Resting] /\ hashes' = hashes
      /\ end' = [s \in Signals |-> IF s \in Holds(c) THEN "aborted" ELSE end[s]]
    BY DEF Abort, windows
<1>2. HoldInv' /\ Elsewhere(c) /\ cycle'[c].at = "idle" /\ Holds(c)' = {}
    BY <1>1, RestHolds DEF PipeInv
<1>3. \A d \in Cycles : d # c => /\ Armed(d)' <=> Armed(d)
                                 /\ Out(d)' = Out(d) /\ Holds(d)' = Holds(d)
                                 /\ \A a : At(d, a)' <=> At(d, a)
    BY <1>2 DEF Elsewhere, Armed, At, Out, Holds
<1>4. ~Armed(c)' /\ ~At(c, "arm")' /\ ~At(c, "cooldowns")'
    BY <1>2 DEF Armed, At
<1>5. At(c, "arm") \/ At(c, "closing") => Out(c) \in Holds(c) /\ Out(c) \in Signals
    BY OutHeld DEF PipeInv, At, Working
<1>6. \A s \in Signals :
          \/ row'[s] = row[s]
          \/ At(c, "arm") /\ s = Out(c) /\ row'[s] = "pending"
          \/ At(c, "closing") /\ s = Out(c) /\ row'[s] = "closed" /\ row[s] # "none"
    BY DEF PipeInv, RowInv, Armed, At
<1>7. row' \in [Signals -> Rows] /\ end' \in [Signals -> Ends]
    BY <1>1, <1>5 DEF PipeInv, RowInv, Rows, Ends
<1>8. \A s \in Signals : row[s] # "none" => row'[s] # "none"
    BY <1>6
<1>9. RowInv'
  <2>1. ASSUME NEW d \in Cycles, NEW s \in Holds(d)'
        PROVE  row'[s] = "none" \/ (Armed(d)' /\ s = Out(d)')
    <3>1. CASE d = c
      <4>1. Holds(d)' = Holds(c)'
        BY <3>1 DEF Holds
      <4>. QED BY <1>2, <2>1, <4>1
    <3>2. CASE d # c
      <4>1. s \in Holds(d) /\ s \in Signals
        BY <1>3, <2>1, <3>2, HoldsSignals DEF PipeInv
      <4>2. row[s] = "none" \/ (Armed(d) /\ s = Out(d))
        BY <4>1 DEF PipeInv, RowInv
      <4>3. s \notin Holds(c)
        BY <3>2, <4>1 DEF PipeInv, HoldInv
      <4>4. row'[s] = row[s]
        BY <1>5, <1>6, <4>1, <4>3
      <4>. QED BY <1>3, <3>2, <4>2, <4>4
    <3>. QED BY <3>1, <3>2
  <2>2. ASSUME NEW d \in Cycles
        PROVE  /\ Armed(d)' => row'[Out(d)'] # "none"
               /\ At(d, "cooldowns")' => Out(d)' \in posted'
    <3>1. CASE d = c
      BY <1>2, <3>1 DEF Armed, At
    <3>2. CASE d # c
      <4>1. Armed(d) => Out(d) \in Signals /\ row[Out(d)] # "none"
        BY OutHeld DEF PipeInv, RowInv, Armed, Working
      <4>2. At(d, "cooldowns") => Out(d) \in posted
        BY DEF PipeInv, RowInv
      <4>. QED BY <1>3, <1>8, <3>2, <4>1, <4>2
    <3>. QED BY <3>1, <3>2
  <2>3. \A s \in posted' \union kept' : row'[s] # "none"
    BY <1>8 DEF PipeInv, RowInv
  <2>4. \A s \in Signals : s \notin Holds(c) => (Owned(s)' <=> Owned(s))
    BY <1>2, <1>3 DEF Owned
  <2>5. ASSUME NEW s \in Signals
        PROVE  /\ end'[s] = "delivered" => s \in posted'
               /\ end'[s] = "none" /\ ~Owned(s)' => row'[s] = "none"
               /\ row'[s] = "pending" /\ s \notin posted' /\ ~Owned(s)'
                     => end'[s] \in {"arm_timeout", "aborted"}
    <3>1. CASE s \in Holds(c)
      BY <1>1, <3>1
    <3>2. CASE s \notin Holds(c)
      <4>1. row'[s] = row[s] /\ end'[s] = end[s] /\ (Owned(s)' <=> Owned(s))
        BY <1>1, <1>5, <1>6, <2>4, <3>2
      <4>. QED BY <4>1 DEF PipeInv, RowInv
    <3>. QED BY <3>1, <3>2
  <2>6. posted' \subseteq Signals /\ kept' \subseteq Signals
    BY DEF PipeInv, RowInv
  <2>. QED BY <1>7, <2>1, <2>2, <2>3, <2>5, <2>6 DEF RowInv
<1>10. \A s \in Signals : Cleared(s)' => Cleared(s)
    BY <1>3, <1>4, <1>6 DEF Cleared
<1>. QED BY <1>1, <1>2, <1>9, <1>10, ContentKept DEF PipeInv

LEMMA PipeInterrupt ==
    ASSUME PipeInv, NEW c \in Cycles, Interrupt(c)
    PROVE  PipeInv'
<1>1. CASE ArmTimeout(c)
  <2>1. row' \in {row, [row EXCEPT ![Out(c)] = "pending"]}
    BY <1>1 DEF ArmTimeout
  <2>2. /\ cycle[c].at = "arm" /\ Left(c, "arm_timeout") /\ UNCHANGED <<serviceVars, hashes>>
    BY <1>1 DEF ArmTimeout, At, windows
  <2>3. row[Out(c)] = "none"
    <3>1. Out(c) \in Holds(c) /\ ~Armed(c)
      BY <2>2, OutHeld DEF PipeInv, Working, Armed
    <3>. QED BY <3>1 DEF PipeInv, RowInv
  <2>4. PICK r \in {"none", "pending"} : row' = [row EXCEPT ![Out(c)] = r]
    <3>1. row = [row EXCEPT ![Out(c)] = "none"]
      BY <2>3 DEF PipeInv, RowInv
    <3>. QED BY <2>1, <3>1
  <2>. QED BY <2>2, <2>3, <2>4, PipeLeft DEF Rows, Ends
<1>2. ASSUME Abort(c), Leave(c) \/ (UNCHANGED serviceVars /\ ~At(c, "sending"))
      PROVE  ReqInv' /\ UNCHANGED <<posted, kept>>
  <2>1. Elsewhere(c) /\ cycle'[c].at = "idle"
    BY <1>2, RestHolds DEF PipeInv, Abort
  <2>2. ~At(c, "sending")'
    BY <2>1 DEF At
  <2>. QED BY <1>2, <2>1, <2>2, ReqLeave, ReqElsewhere DEF PipeInv, Leave, serviceVars
<1>3. CASE Raised(c)
    BY <1>2, <1>3, PipeAbort DEF Raised
<1>4. CASE CycleTimeout(c)
  <2>1. Abort(c) /\ (Leave(c) \/ (UNCHANGED serviceVars /\ ~At(c, "sending")))
    BY <1>4 DEF CycleTimeout
  <2>2. \/ UNCHANGED row
        \/ At(c, "arm") /\ row' = [row EXCEPT ![Out(c)] = "pending"]
        \/ At(c, "closing") /\ row' = [row EXCEPT ![Out(c)] = "closed"]
    BY <1>4 DEF CycleTimeout
  <2>. QED BY <1>2, <2>1, <2>2, PipeAbort
<1>. QED BY <1>1, <1>3, <1>4 DEF Interrupt

\* Rows move on, windows run out, messages are shown: the cycles stay as they are.
LEMMA PipeIdle ==
    ASSUME PipeInv, ReqInv', UNCHANGED <<cycle, end, hashes>>, row' \in [Signals -> Rows],
           \A s \in Signals : /\ row'[s] = "none" <=> row[s] = "none"
                              /\ row'[s] = "pending" => row[s] = "pending",
           posted \subseteq posted', posted' \subseteq Signals, kept' \subseteq Signals,
           \A s \in posted' \union kept' : row[s] # "none"
    PROVE  PipeInv'
<1>1. \A d \in Cycles : /\ Holds(d)' = Holds(d) /\ Out(d)' = Out(d)
                        /\ Armed(d)' <=> Armed(d)
                        /\ \A a : At(d, a)' <=> At(d, a)
    BY DEF Holds, Out, Armed, At
<1>2. HoldInv'
  <2>1. \A c, d \in Cycles : Holds(c)' = Holds(c) /\ Holds(d)' = Holds(d)
    BY <1>1
  <2>. QED BY <2>1 DEF PipeInv, HoldInv
<1>3. \A d \in Cycles : Holds(d) \subseteq Signals /\ (Armed(d) => Out(d) \in Signals)
    BY HoldsSignals, OutHeld DEF PipeInv, Armed, Working
<1>4. \A d \in Cycles : At(d, "cooldowns")' => Out(d)' \in posted'
    BY <1>1 DEF PipeInv, RowInv
<1>5. RowInv'
    BY <1>1, <1>3, <1>4, RowStay DEF PipeInv
<1>6. \A s \in Signals : Cleared(s)' => Cleared(s)
    BY <1>1 DEF Cleared
<1>. QED BY <1>2, <1>5, <1>6, ContentKept DEF PipeInv

LEMMA PipeSending ==
    ASSUME PipeInv, NEW c \in Cycles, Sending(c)
    PROVE  PipeInv'
<1>1. /\ UNCHANGED <<cycle, row, end, hashes>>
      /\ Show(c) \/ \E r \in Replies : Finish(c, r)
    BY DEF Sending, windows, Replies
<1>2. Busy(c) /\ At(c, "sending") /\ request[c].text = Out(c)
    BY <1>1, ReqBusy DEF PipeInv, Show, Finish
<1>3. Out(c) \in Signals /\ row[Out(c)] # "none"
    BY <1>2, OutHeld DEF PipeInv, RowInv, Armed, At, Working
<1>4. ReqInv'
    BY <1>1, ReqService DEF PipeInv
<1>5. /\ posted' \in {posted, posted \union {Out(c)}}
      /\ kept' \in {kept, kept \union {Out(c)}}
    BY <1>1, <1>2 DEF Show, Finish
<1>6. /\ row' \in [Signals -> Rows] /\ posted \subseteq Signals /\ kept \subseteq Signals
      /\ \A s \in posted \union kept : row[s] # "none"
    BY <1>1 DEF PipeInv, RowInv
<1>. QED BY <1>1, <1>3, <1>4, <1>5, <1>6, PipeIdle

\* What a review has read is a row that is there.
CopyInv ==
    /\ copy \in [Signals -> Rows]
    /\ \A s \in Signals : copy[s] # "none" => row[s] # "none"

LEMMA PipeOthers ==
    ASSUME PipeInv, CopyInv, Others \/ UNCHANGED vars
    PROVE  PipeInv'
<1>1. /\ row \in [Signals -> Rows] /\ posted \subseteq Signals /\ kept \subseteq Signals
      /\ \A s \in posted \union kept : row[s] # "none"
    BY DEF PipeInv, RowInv
<1>2. ASSUME UNCHANGED cycle
      PROVE  \A d \in Cycles : Out(d)' = Out(d) /\ (At(d, "sending")' <=> At(d, "sending"))
    BY <1>2 DEF Out, At
<1>3. CASE UNCHANGED <<serviceVars, cycle, end, hashes>> /\ row' \in [Signals -> Rows]
           /\ \A s \in Signals : /\ row'[s] = "none" <=> row[s] = "none"
                                 /\ row'[s] = "pending" => row[s] = "pending"
  <2>1. ReqInv'
    BY <1>2, <1>3, ReqQuiet DEF PipeInv
  <2>. QED BY <1>1, <1>3, <2>1, PipeIdle DEF serviceVars
<1>4. CASE ReviewWrites
  <2>1. PICK s \in Signals, st \in {"same", "active", "closed"} :
            /\ copy[s] # "none"
            /\ row' = [row EXCEPT ![s] = IF st # "same" THEN st
                                         ELSE IF copy[s] = "pending" /\ row[s] # "pending"
                                         THEN "reopened" ELSE copy[s]]
    BY <1>4 DEF ReviewWrites
  <2>2. copy[s] \in Rows /\ row[s] # "none"
    BY <2>1 DEF CopyInv
  <2>3. row' \in [Signals -> Rows]
    BY <1>1, <2>1, <2>2 DEF Rows
  <2>4. \A t \in Signals : /\ row'[t] = "none" <=> row[t] = "none"
                           /\ row'[t] = "pending" => row[t] = "pending"
    BY <1>1, <2>1, <2>2
  <2>. QED BY <1>3, <1>4, <2>3, <2>4 DEF ReviewWrites
<1>5. CASE ReviewReads \/ WindowLapses \/ UNCHANGED vars
    BY <1>1, <1>3, <1>5 DEF ReviewReads, WindowLapses, vars, pipeVars, windows
<1>6. CASE LateShow
  <2>1. /\ UNCHANGED <<cycle, row, end, hashes, request, kept>>
        /\ \E t \in kept : posted' = posted \union {t}
    BY <1>6 DEF LateShow, ShowKept, pipeVars, windows
  <2>2. ReqInv'
    BY <1>2, <2>1 DEF PipeInv, ReqInv
  <2>. QED BY <1>1, <2>1, <2>2, PipeIdle
<1>. QED BY <1>4, <1>5, <1>6 DEF Others

LEMMA PipeInit == Init => PipeInv /\ CopyInv
<1>. SUFFICES ASSUME Init PROVE PipeInv /\ CopyInv
    OBVIOUS
<1>1. Resting \in Run /\ Resting.at = "idle" /\ Resting.todo = <<>> /\ Resting.ready = <<>>
    BY DEF Resting, Run
<1>2. cycle \in [Cycles -> Run] /\ \A c \in Cycles : cycle[c] = Resting
    BY <1>1 DEF Init
<1>3. \A c \in Cycles : Holds(c) = {}
    BY <1>1, <1>2 DEF Holds
<1>4. HoldInv
    BY <1>1, <1>2, <1>3 DEF HoldInv, Shaped, Distinct, Selecting, Working
<1>5. NoRequest \in Request /\ NoRequest.shown = FALSE /\ NoRequest.reply = None /\ None # "sent"
    BY NoneAssumption DEF NoRequest, Request, Replies
<1>6. ReqInv
  <2>1. request \in [Cycles -> Request] /\ \A c \in Cycles : request[c] = NoRequest
    BY <1>5 DEF Init, ServiceInit, Cycles
  <2>2. \A c \in Cycles : ~At(c, "sending")
    BY <1>1, <1>2 DEF At
  <2>. QED BY <1>5, <2>1, <2>2 DEF ReqInv
<1>7. RowInv
    BY <1>1, <1>2, <1>3 DEF Init, ServiceInit, RowInv, Armed, At, Rows, Ends
<1>8. \A s \in Signals : ~Cleared(s)
    BY <1>1, <1>2 DEF Init, Cleared, At
<1>9. ContentInv
    BY <1>8 DEF ContentInv
<1>10. CopyInv
    BY DEF Init, CopyInv, Rows
<1>. QED BY <1>4, <1>6, <1>7, <1>9, <1>10 DEF PipeInv

RowsRemain == \A s \in Signals : row[s] # "none" => row'[s] # "none"

LEMMA CopyNext == PipeInv /\ CopyInv /\ [Next]_vars => CopyInv'
<1>. SUFFICES ASSUME PipeInv, CopyInv, [Next]_vars PROVE CopyInv'
    OBVIOUS
<1>1. row \in [Signals -> Rows]
    BY DEF PipeInv, RowInv
<1>2. CASE UNCHANGED copy /\ RowsRemain
    BY <1>2 DEF CopyInv, RowsRemain
<1>4. ASSUME NEW c \in Cycles, Select(c) PROVE RowsRemain
    BY <1>1, <1>4
       DEF RowsRemain, Select, Begin, Check, Look, ReadCooldown, Supersede, SupersedeFails,
           Resume, Rejected, Queue, EndSelection
<1>5. ASSUME NEW c \in Cycles, Dispatch(c) PROVE RowsRemain
    BY <1>1, <1>5
       DEF RowsRemain, Dispatch, DeliverHead, Arm, Deliver, Delivered, NotSent,
           CancelPendingDelivery, CloseCancelled, SetCooldown, RecordBurst, EndCycle
<1>6. ASSUME NEW c \in Cycles, Interrupt(c) \/ Sending(c) PROVE RowsRemain
    BY <1>1, <1>6 DEF RowsRemain, Interrupt, ArmTimeout, Raised, CycleTimeout, Sending
<1>7. CASE ReviewReads
  <2>1. PICK s \in Signals : IsOpen(s) /\ copy' = [copy EXCEPT ![s] = row[s]]
    BY <1>7 DEF ReviewReads
  <2>2. row' = row /\ row[s] \in Rows /\ row[s] # "none"
    BY <1>1, <1>7, <2>1 DEF ReviewReads, IsOpen, Waiting
  <2>. QED BY <2>1, <2>2 DEF CopyInv
<1>8. CASE ReviewWrites
  <2>1. PICK s \in Signals, st \in {"same", "active", "closed"} :
            /\ copy[s] # "none"
            /\ row' = [row EXCEPT ![s] = IF st # "same" THEN st
                                         ELSE IF copy[s] = "pending" /\ row[s] # "pending"
                                         THEN "reopened" ELSE copy[s]]
            /\ copy' = [copy EXCEPT ![s] = IF st = "active" THEN st ELSE "none"]
    BY <1>8 DEF ReviewWrites
  <2>2. RowsRemain /\ row'[s] # "none"
    BY <1>1, <2>1 DEF RowsRemain
  <2>. QED BY <2>1, <2>2 DEF CopyInv, RowsRemain, Rows
<1>9. CASE WindowLapses \/ LateShow \/ UNCHANGED vars
  <2>1. UNCHANGED <<row, copy>>
    BY <1>9 DEF WindowLapses, LateShow, vars, pipeVars
  <2>. QED BY <1>2, <2>1 DEF RowsRemain
<1>. QED BY <1>2, <1>4, <1>5, <1>6, <1>7, <1>8, <1>9 DEF Next, Others

LEMMA PipeStep == PipeInv /\ CopyInv /\ [Next]_vars => PipeInv'
    BY PipeSelect, PipeDispatch, PipeInterrupt, PipeSending, PipeOthers DEF Next

LEMMA PipeNext == PipeInv /\ CopyInv /\ [Next]_vars => (PipeInv /\ CopyInv)'
    BY PipeStep, CopyNext

\* What counts as delivered has been shown, nothing is shown without a row, and an
\* open row that nobody will show is one whose arming timed out, whose cycle was cut
\* short, or that a review wrote back after its cancellation, whatever cycles, reviews
\* and faults interleave.
THEOREM JournalAgrees == Spec => []JournalAgreesWithChannel
<1>1. PipeInv => JournalAgreesWithChannel
    BY DEF PipeInv, RowInv, JournalAgreesWithChannel, Waiting
<1>. QED BY <1>1, PipeInit, PipeNext, PTL DEF Spec

\* No two signals of the same content get as far as a journal row.
THEOREM ContentIsArmedOnce == Spec => []ContentArmedOnce
<1>1. PipeInv => ContentArmedOnce
    BY DEF PipeInv, ContentInv, Cleared, ContentArmedOnce
<1>. QED BY <1>1, PipeInit, PipeNext, PTL DEF Spec

-----------------------------------------------------------------------------
(* The caps.  A delivery that passed the test of a cap and has not raised  *)
(* its counter yet is counted with it: those of the session are under way  *)
(* until the post, those of the minute until the cooldowns are set.        *)

ToPost == {"arm", "deliver", "sending"}
ToRecord == ToPost \union {"cooldowns"}
Acting == {c \in Cycles : cycle[c].at \in ToPost /\ cycle[c].tier = "action"}
Recording == {c \in Cycles : cycle[c].at \in ToRecord}

CapInv ==
    /\ used \in Nat /\ burst \in Nat
    /\ SessionCap > 0 => used + Cardinality(Acting) < SessionCap + Cardinality(Cycles)
    /\ BurstCap > 0 => burst + Cardinality(Recording) < BurstCap + Cardinality(Cycles)

LEMMA Countable ==
    /\ IsFiniteSet(Cycles) /\ Cardinality(Cycles) \in Nat
    /\ IsFiniteSet(Acting) /\ Cardinality(Acting) \in Nat
    /\ Cardinality(Acting) <= Cardinality(Cycles)
    /\ IsFiniteSet(Recording) /\ Cardinality(Recording) \in Nat
    /\ Cardinality(Recording) <= Cardinality(Cycles)
<1>1. IsFiniteSet(Cycles) /\ Acting \subseteq Cycles /\ Recording \subseteq Cycles
    BY CapsAssumption DEF Cycles, Acting, Recording
<1>. QED BY <1>1, FS_Subset, FS_CardinalityType

\* The same after a step.
LEMMA CountableNext ==
    /\ IsFiniteSet(Acting') /\ Cardinality(Acting') \in Nat
    /\ Cardinality(Acting') <= Cardinality(Cycles)
    /\ IsFiniteSet(Recording') /\ Cardinality(Recording') \in Nat
    /\ Cardinality(Recording') <= Cardinality(Cycles)
<1>1. IsFiniteSet(Cycles) /\ Acting' \subseteq Cycles /\ Recording' \subseteq Cycles
    BY CapsAssumption DEF Cycles, Acting, Recording
<1>. QED BY <1>1, FS_Subset, FS_CardinalityType

\* No delivery passes a test and no counter goes up.
LEMMA CapQuiet ==
    ASSUME CapInv, Acting' \subseteq Acting, Recording' \subseteq Recording,
           used' = used, burst' \in Nat, burst' <= burst
    PROVE  CapInv'
<1>1. /\ Cardinality(Acting') <= Cardinality(Acting)
      /\ Cardinality(Recording') <= Cardinality(Recording)
    BY Countable, FS_Subset
<1>2. SessionCap \in Nat /\ BurstCap \in Nat /\ Cycles' = Cycles
    BY CapsAssumption DEF Cycles
<1>3. SessionCap > 0 => used' + Cardinality(Acting') < SessionCap + Cardinality(Cycles)
    BY <1>1, <1>2, Countable, CountableNext DEF CapInv
<1>4. BurstCap > 0 => burst' + Cardinality(Recording') < BurstCap + Cardinality(Cycles)
    BY <1>1, <1>2, Countable, CountableNext DEF CapInv
<1>. QED BY <1>2, <1>3, <1>4 DEF CapInv

\* A cycle goes on, or is cut short, without touching a counter.
LEMMA CapCycle ==
    ASSUME CapInv, NEW c \in Cycles, Elsewhere(c), UNCHANGED <<used, burst>>,
           cycle'[c].at \in ToRecord => cycle[c].at \in ToRecord,
           cycle'[c].at \in ToPost => cycle[c].at \in ToPost /\ cycle'[c].tier = cycle[c].tier
    PROVE  CapInv'
<1>1. Acting' \subseteq Acting
    BY DEF Acting, Elsewhere
<1>2. Recording' \subseteq Recording
    BY DEF Recording, Elsewhere
<1>3. burst' \in Nat /\ burst' <= burst
    BY DEF CapInv
<1>. QED BY <1>1, <1>2, <1>3, CapQuiet

\* Dropping a signal, and what ends a cycle.
LEMMA CapLeaves ==
    ASSUME CapInv, NEW c \in Cycles, Elsewhere(c), UNCHANGED <<used, burst>>,
           cycle'[c].at \notin ToRecord
    PROVE  CapInv'
    BY CapCycle DEF ToRecord

LEMMA CapRest ==
    ASSUME CapInv, HoldInv, NEW c \in Cycles, UNCHANGED <<used, burst>>,
           cycle' = [cycle EXCEPT ![c] = Resting]
    PROVE  CapInv'
    BY RestHolds, CapLeaves DEF ToRecord, ToPost

LEMMA CapRejected ==
    ASSUME CapInv, HoldInv, NEW c \in Cycles, Rejected(c)
    PROVE  CapInv'
<1>1. cycle[c] \in Run /\ UNCHANGED <<used, burst>> /\ Elsewhere(c)
    BY DEF Rejected, HoldInv, windows, Elsewhere
<1>2. cycle'[c].at = "select"
    BY <1>1 DEF Rejected, HoldInv, Run
<1>. QED BY <1>1, <1>2, CapLeaves DEF ToRecord, ToPost

LEMMA CapLeft ==
    ASSUME CapInv, HoldInv, NEW c \in Cycles, NEW e, Left(c, e), UNCHANGED <<used, burst>>
    PROVE  CapInv'
<1>1. cycle[c] \in Run /\ Elsewhere(c)
    BY DEF Left, HoldInv, Elsewhere
<1>2. cycle'[c].at = "head"
    BY <1>1 DEF Left, HoldInv, Run
<1>. QED BY <1>1, <1>2, CapLeaves DEF ToRecord, ToPost

\* The test: the counter is below the cap, and no more cycles than there are can be
\* under way.
LEMMA CapTest ==
    ASSUME CapInv, HoldInv, NEW c \in Cycles, DeliverHead(c)
    PROVE  CapInv'
<1>1. cycle[c] \in Run /\ UNCHANGED <<used, burst>> /\ cycle[c].at = "head"
    BY DEF DeliverHead, HoldInv, At
<1>2. CASE Left(c, "dropped")
    BY <1>1, <1>2, CapLeft
<1>3. ASSUME ~(BurstCap > 0 /\ burst >= BurstCap), NEW tier \in {"action", "watch"},
             SessionCap > 0 /\ used >= SessionCap => tier = "watch",
             cycle' = [cycle EXCEPT ![c].at = "arm", ![c].tier = tier]
      PROVE  CapInv'
  <2>1. cycle'[c].at = "arm" /\ cycle'[c].tier = tier /\ Elsewhere(c)
    BY <1>1, <1>3 DEF HoldInv, Run, Elsewhere
  <2>2. used \in Nat /\ burst \in Nat /\ SessionCap \in Nat /\ BurstCap \in Nat /\ Cycles' = Cycles
    BY CapsAssumption DEF CapInv, Cycles
  <2>3. BurstCap > 0 => burst + Cardinality(Recording') < BurstCap + Cardinality(Cycles)
    BY <1>3, <2>2, Countable, CountableNext
  <2>4. SessionCap > 0 => used + Cardinality(Acting') < SessionCap + Cardinality(Cycles)
    <3>1. CASE tier = "action"
      <4>1. SessionCap > 0 => used < SessionCap
        BY <1>3, <2>2, <3>1
      <4>. QED BY <2>2, <4>1, Countable, CountableNext
    <3>2. CASE tier = "watch"
      <4>1. Acting' \subseteq Acting
        BY <2>1, <3>2 DEF Acting, Elsewhere
      <4>2. Cardinality(Acting') <= Cardinality(Acting)
        BY <4>1, Countable, FS_Subset
      <4>. QED BY <2>2, <4>2, Countable, CountableNext DEF CapInv
    <3>. QED BY <3>1, <3>2
  <2>. QED BY <1>1, <2>2, <2>3, <2>4 DEF CapInv
<1>. QED BY <1>2, <1>3 DEF DeliverHead

\* The post: the cycle is no longer among those under way, the session's counter
\* goes up in the same step.
LEMMA CapPosted ==
    ASSUME CapInv, HoldInv, NEW c \in Cycles, Delivered(c)
    PROVE  CapInv'
<1>1. /\ cycle[c] \in Run /\ cycle[c].at = "sending" /\ UNCHANGED burst
      /\ cycle' = [cycle EXCEPT ![c].at = "cooldowns", ![c].kind = 1]
      /\ used' = IF cycle[c].tier = "action" THEN used + 1 ELSE used
    BY DEF Delivered, HoldInv, At
<1>2. cycle'[c].at = "cooldowns" /\ Elsewhere(c)
    BY <1>1 DEF HoldInv, Run, Elsewhere
<1>3. Recording' \subseteq Recording /\ Acting' \subseteq Acting
    BY <1>1, <1>2 DEF Recording, Acting, Elsewhere, ToRecord, ToPost
<1>4. CASE cycle[c].tier # "action"
    BY <1>1, <1>3, <1>4, CapQuiet DEF CapInv
<1>5. CASE cycle[c].tier = "action"
  <2>1. c \in Acting /\ Acting' = Acting \ {c}
    BY <1>1, <1>2, <1>5 DEF Acting, Elsewhere, ToPost
  <2>2. Cardinality(Acting') = Cardinality(Acting) - 1
    BY <2>1, Countable, FS_RemoveElement
  <2>3. Cardinality(Recording') <= Cardinality(Recording)
    BY <1>3, Countable, FS_Subset
  <2>4. used' = used + 1 /\ burst' = burst /\ Cycles' = Cycles
    BY <1>1, <1>5 DEF Cycles
  <2>5. SessionCap \in Nat /\ BurstCap \in Nat /\ used \in Nat /\ burst \in Nat
    BY CapsAssumption DEF CapInv
  <2>6. SessionCap > 0 => used' + Cardinality(Acting') < SessionCap + Cardinality(Cycles)
    BY <2>2, <2>4, <2>5, Countable DEF CapInv
  <2>7. BurstCap > 0 => burst' + Cardinality(Recording') < BurstCap + Cardinality(Cycles)
    BY <2>3, <2>4, <2>5, Countable, CountableNext DEF CapInv
  <2>. QED BY <2>4, <2>5, <2>6, <2>7 DEF CapInv
<1>. QED BY <1>4, <1>5

\* The burst record, likewise.
LEMMA CapRecorded ==
    ASSUME CapInv, HoldInv, NEW c \in Cycles, RecordBurst(c)
    PROVE  CapInv'
<1>1. /\ cycle[c] \in Run /\ cycle[c].at = "cooldowns" /\ used' = used /\ burst' = burst + 1
      /\ Left(c, "delivered")
    BY DEF RecordBurst, HoldInv, At
<1>2. cycle'[c].at = "head" /\ Elsewhere(c)
    BY <1>1 DEF Left, HoldInv, Run, Elsewhere
<1>3. c \in Recording /\ Recording' = Recording \ {c} /\ Acting' \subseteq Acting
    BY <1>1, <1>2 DEF Recording, Acting, Elsewhere, ToRecord, ToPost
<1>4. Cardinality(Recording') = Cardinality(Recording) - 1
    BY <1>3, Countable, FS_RemoveElement
<1>5. Cardinality(Acting') <= Cardinality(Acting)
    BY <1>3, Countable, FS_Subset
<1>6. SessionCap \in Nat /\ BurstCap \in Nat /\ used \in Nat /\ burst \in Nat /\ Cycles' = Cycles
    BY CapsAssumption DEF CapInv, Cycles
<1>7. SessionCap > 0 => used' + Cardinality(Acting') < SessionCap + Cardinality(Cycles)
    BY <1>1, <1>5, <1>6, Countable, CountableNext DEF CapInv
<1>8. BurstCap > 0 => burst' + Cardinality(Recording') < BurstCap + Cardinality(Cycles)
    BY <1>1, <1>4, <1>6, Countable DEF CapInv
<1>. QED BY <1>1, <1>6, <1>7, <1>8 DEF CapInv

\* Selection reaches no cap.
LEMMA CapSelect ==
    ASSUME CapInv, HoldInv, NEW c \in Cycles, Select(c)
    PROVE  CapInv'
<1>1. cycle[c] \in Run /\ UNCHANGED <<used, burst>>
    BY DEF HoldInv, Select, Begin, Check, Look, ReadCooldown, Supersede, SupersedeFails,
           Resume, Rejected, Queue, EndSelection, windows
<1>2. CASE Rejected(c)
    BY <1>2, CapRejected
<1>3. CASE Begin(c)
  <2>1. cycle'[c].at = "select" /\ Elsewhere(c)
    BY <1>1, <1>3 DEF Begin, HoldInv, Run, Elsewhere
  <2>. QED BY <1>1, <2>1, CapLeaves DEF ToRecord, ToPost
<1>4. CASE Check(c) /\ ~Rejected(c)
  <2>1. cycle'[c].at = "look" /\ Elsewhere(c)
    BY <1>1, <1>4 DEF Check, HoldInv, Run, Elsewhere
  <2>. QED BY <1>1, <2>1, CapLeaves DEF ToRecord, ToPost
<1>5. CASE Look(c)
  <2>1. cycle'[c].at \in {"supersede", "cool", "select"} /\ Elsewhere(c)
    BY <1>1, <1>5 DEF Look, HoldInv, Run, Elsewhere
  <2>. QED BY <1>1, <2>1, CapLeaves DEF ToRecord, ToPost
<1>6. CASE ReadCooldown(c) /\ ~Rejected(c)
  <2>1. cycle'[c].at \in {"cool", "supersede", "queue"} /\ Elsewhere(c)
    BY <1>1, <1>6 DEF ReadCooldown, HoldInv, Run, Elsewhere
  <2>. QED BY <1>1, <2>1, CapLeaves DEF ToRecord, ToPost
<1>7. ASSUME NEW closed, Resume(c, closed), ~Rejected(c)
      PROVE  CapInv'
  <2>1. cycle'[c].at = "queue" /\ Elsewhere(c)
    BY <1>1, <1>7 DEF Resume, HoldInv, Run, Elsewhere
  <2>. QED BY <1>1, <2>1, CapLeaves DEF ToRecord, ToPost
<1>8. CASE Queue(c) /\ ~Rejected(c)
  <2>1. cycle'[c].at = "select" /\ Elsewhere(c)
    BY <1>1, <1>8 DEF Queue, HoldInv, Run, Elsewhere
  <2>. QED BY <1>1, <2>1, CapLeaves DEF ToRecord, ToPost
<1>9. CASE EndSelection(c)
  <2>1. cycle'[c].at = "head" /\ Elsewhere(c)
    BY <1>1, <1>9 DEF EndSelection, HoldInv, Run, Elsewhere
  <2>. QED BY <1>1, <2>1, CapLeaves DEF ToRecord, ToPost
<1>10. CASE Supersede(c) \/ SupersedeFails(c)
    BY <1>2, <1>7, <1>10 DEF Supersede, SupersedeFails
<1>. QED BY <1>2, <1>3, <1>4, <1>5, <1>6, <1>8, <1>9, <1>10 DEF Select

LEMMA CapDispatch ==
    ASSUME CapInv, HoldInv, NEW c \in Cycles, Dispatch(c)
    PROVE  CapInv'
<1>1. cycle[c] \in Run
    BY DEF HoldInv
<1>2. CASE Arm(c)
  <2>1. /\ cycle[c].at = "arm" /\ cycle'[c].at = "deliver" /\ cycle'[c].tier = cycle[c].tier
        /\ Elsewhere(c) /\ UNCHANGED <<used, burst>>
    BY <1>1, <1>2 DEF Arm, At, HoldInv, Run, Elsewhere, windows
  <2>. QED BY <2>1, CapCycle DEF ToRecord, ToPost
<1>3. CASE Deliver(c)
  <2>1. /\ cycle[c].at = "deliver" /\ cycle'[c].at \in {"sending", "cancel"}
        /\ cycle'[c].tier = cycle[c].tier /\ Elsewhere(c) /\ UNCHANGED <<used, burst>>
    BY <1>1, <1>3 DEF Deliver, At, HoldInv, Run, Elsewhere, windows
  <2>. QED BY <2>1, CapCycle DEF ToRecord, ToPost
<1>4. CASE NotSent(c)
  <2>1. cycle'[c].at = "cancel" /\ Elsewhere(c) /\ UNCHANGED <<used, burst>>
    BY <1>1, <1>4 DEF NotSent, HoldInv, Run, Elsewhere, windows
  <2>. QED BY <2>1, CapLeaves DEF ToRecord, ToPost
<1>5. CASE SetCooldown(c)
  <2>1. /\ cycle[c].at = "cooldowns" /\ cycle'[c].at = "cooldowns"
        /\ Elsewhere(c) /\ UNCHANGED <<used, burst>>
    BY <1>1, <1>5 DEF SetCooldown, At, HoldInv, Run, Elsewhere
  <2>. QED BY <2>1, CapCycle DEF ToRecord, ToPost
<1>6. CASE CancelPendingDelivery(c)
  <2>1. UNCHANGED <<used, burst>>
    BY <1>6 DEF CancelPendingDelivery, windows
  <2>2. CASE cycle' = [cycle EXCEPT ![c].at = "closing"]
    <3>1. cycle'[c].at = "closing" /\ Elsewhere(c)
      BY <1>1, <2>2 DEF HoldInv, Run, Elsewhere
    <3>. QED BY <2>1, <3>1, CapLeaves DEF ToRecord, ToPost
  <2>. QED BY <1>6, <2>1, <2>2, CapLeft DEF CancelPendingDelivery
<1>8. CASE CloseCancelled(c)
    BY <1>8, CapLeft DEF CloseCancelled, windows
<1>7. CASE EndCycle(c)
    BY <1>7, CapRest DEF EndCycle, windows
<1>. QED BY <1>2, <1>3, <1>4, <1>5, <1>6, <1>7, <1>8, CapTest, CapPosted, CapRecorded DEF Dispatch

LEMMA CapNext == CapInv /\ HoldInv /\ [Next]_vars => CapInv'
<1>. SUFFICES ASSUME CapInv, HoldInv, [Next]_vars PROVE CapInv'
    OBVIOUS
<1>1. ASSUME NEW c \in Cycles, Interrupt(c) PROVE CapInv'
    BY <1>1, CapLeft, CapRest
       DEF Interrupt, ArmTimeout, Raised, CycleTimeout, Abort, windows
<1>2. CASE UNCHANGED <<cycle, used>> /\ burst' \in Nat /\ burst' <= burst
    BY <1>2, CapQuiet DEF Acting, Recording
<1>3. burst \in Nat
    BY DEF CapInv
<1>4. ASSUME NEW c \in Cycles, Sending(c) PROVE CapInv'
    BY <1>2, <1>3, <1>4 DEF Sending, windows
<1>5. CASE Others \/ UNCHANGED vars
    BY <1>2, <1>3, <1>5
       DEF Others, ReviewReads, ReviewWrites, WindowLapses, LateShow, vars, pipeVars, windows
<1>. QED BY <1>1, <1>4, <1>5, CapSelect, CapDispatch DEF Next

LEMMA CapInit == Init => CapInv
<1>. SUFFICES ASSUME Init PROVE CapInv
    OBVIOUS
<1>1. \A c \in Cycles : cycle[c] = Resting
    BY DEF Init
<1>2. Acting = {} /\ Recording = {}
    BY <1>1 DEF Acting, Recording, Resting, ToRecord, ToPost
<1>3. used = 0 /\ burst = 0 /\ SessionCap \in Nat /\ BurstCap \in Nat
    BY CapsAssumption DEF Init
<1>. QED BY <1>2, <1>3, Countable, FS_EmptySet DEF CapInv

\* Cycles that deliver at once exceed the session cap and the burst cap by less than
\* their number, for any caps, signals, faults and lapses.
THEOREM CapOvershootIsBounded == Spec => []CapOvershootBounded
<1>1. CapInv => CapOvershootBounded
  <2>1. SessionCap \in Nat /\ BurstCap \in Nat
    BY CapsAssumption
  <2>. QED BY <2>1, Countable DEF CapInv, CapOvershootBounded
<1>2. PipeInv => HoldInv
    BY DEF PipeInv
<1>. QED BY <1>1, <1>2, PipeInit, PipeNext, CapInit, CapNext, PTL DEF Spec

\* It is concurrency alone that breaks the session cap: one cycle keeps it.
THEOREM OneCycleKeepsSessionCap ==
    ASSUME Cardinality(Cycles) = 1
    PROVE  Spec => []SessionCapKept
<1>1. CapInv => SessionCapKept
  <2>1. SessionCap \in Nat
    BY CapsAssumption
  <2>. QED BY <2>1, Countable DEF CapInv, SessionCapKept
<1>2. PipeInv => HoldInv
    BY DEF PipeInv
<1>. QED BY <1>1, <1>2, PipeInit, PipeNext, CapInit, CapNext, PTL DEF Spec
=============================================================================
