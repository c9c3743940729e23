------------------------- MODULE MarketStreamProofs -------------------------
(***************************************************************************)
(* Proofs about MarketStream for any symbols, lists, callers and bounds:   *)
(* the caches stay ordered, a hole in a cache is under repair or known to  *)
(* be neglected, and the streams of a connection follow the list.          *)
(***************************************************************************)
EXTENDS MarketStream, TLAPS

-----------------------------------------------------------------------------
(* The caches.                                                             *)

Stages == {"none", "start", "fetch", "answered", "others"}
FillState == [at : Stages, snap : Nat]

Types ==
    /\ symbols \subseteq Symbols
    /\ klines \in [Symbols -> Seq(Nat)]
    /\ fill \in [Starters -> [Symbols -> FillState]]
    /\ now \in Nat \ {0}
    /\ call \in [Callers -> [at : {"idle", "unsubscribe", "subscribe", "backfill"},
                             removed : SUBSET Symbols, added : SUBSET Symbols]]

\* A cache is ordered and ends before the open candle, and so does every answer
\* that may take its place.
Ordered(k) ==
    /\ \A i \in 1 .. Len(k) : k[i] < now
    /\ \A i \in 1 .. Len(k) - 1 : k[i] < k[i + 1]

\* A gap that the backfill in flight will not see is written down.
HoleKnown(s) ==
    Hole(s) => s \in neglected \/ fill["scheduled"][s].at \in {"start", "fetch", "answered"}

CacheInv ==
    /\ Types
    /\ \A s \in Symbols : Ordered(klines[s]) /\ HoleKnown(s)
    /\ \A w \in Starters, s \in Symbols : fill[w][s].snap < now

\* Starting a fill never stops one.
LEMMA StartFillKeeps ==
    ASSUME Types, NEW w \in Starters, NEW S \in SUBSET Symbols, StartFill(w, S)
    PROVE  /\ fill' \in [Starters -> [Symbols -> FillState]]
           /\ \A v \in Starters, s \in Symbols :
                 \/ fill'[v][s] = fill[v][s]
                 \/ /\ v = w /\ s \in S /\ fill[v][s].at = "none"
                    /\ fill'[v][s] = Starting
<1> DEFINE f == [s \in Symbols |->
                   IF s \in S /\ fill[w][s].at = "none" THEN Starting ELSE fill[w][s]]
<1>1. fill' = [fill EXCEPT ![w] = f]
    BY DEF StartFill
<1>2. Starting \in FillState
    BY DEF Starting, FillState, Stages
<1>3. f \in [Symbols -> FillState]
    BY <1>2 DEF Types
<1>4. \A v \in Starters : fill'[v] = IF v = w THEN f ELSE fill[v]
    BY <1>1 DEF Types
<1>5. fill' \in [Starters -> [Symbols -> FillState]]
    BY <1>1, <1>3 DEF Types
<1>6. \A s \in Symbols : \/ f[s] = fill[w][s]
                         \/ s \in S /\ fill[w][s].at = "none" /\ f[s] = Starting
    OBVIOUS
<1>. HIDE DEF f
<1>. QED BY <1>4, <1>5, <1>6

\* A step of one fill leaves the bounds of the others.
LEMMA FillBounded ==
    ASSUME CacheInv, NEW w \in Starters, NEW s \in Symbols, fill'[w][s].snap < now,
           \A v \in Starters, q \in Symbols : v # w \/ q # s => fill'[v][q] = fill[v][q]
    PROVE  \A v \in Starters, q \in Symbols : fill'[v][q].snap < now
<1>. SUFFICES ASSUME NEW v \in Starters, NEW q \in Symbols PROVE fill'[v][q].snap < now
    OBVIOUS
<1>1. CASE v = w /\ q = s
    BY <1>1
<1>2. CASE v # w \/ q # s
  <2>1. fill'[v][q] = fill[v][q]
    BY <1>2
  <2>. QED BY <2>1 DEF CacheInv
<1>. QED BY <1>1, <1>2

\* A step that touches neither caches nor fills nor what is known of gaps.
LEMMA CacheSame ==
    ASSUME CacheInv, Types', UNCHANGED <<klines, fill>>, now <= now',
           neglected \subseteq neglected'
    PROVE  CacheInv'
<1>1. \A w \in Starters, s \in Symbols : fill[w][s].snap < now'
    BY DEF CacheInv, Types, FillState
<1>2. ASSUME NEW s \in Symbols PROVE Ordered(klines[s])'
  <2>1. klines[s] \in Seq(Nat) /\ Ordered(klines[s])
    BY DEF CacheInv, Types
  <2>2. \A i \in 1 .. Len(klines[s]) : klines[s][i] \in Nat
    BY <2>1
  <2>3. now \in Nat /\ now' \in Nat
    BY DEF CacheInv, Types
  <2>. QED BY <2>1, <2>2, <2>3 DEF Ordered
<1>3. \A s \in Symbols : HoleKnown(s)'
    BY DEF CacheInv, HoleKnown, Hole
<1>. QED BY <1>1, <1>2, <1>3 DEF CacheInv

\* A step of the fills that leaves the caches alone.
LEMMA FillsOnly ==
    ASSUME CacheInv, fill' \in [Starters -> [Symbols -> FillState]],
           UNCHANGED <<symbols, klines, now, call>>,
           \A w \in Starters, s \in Symbols : fill'[w][s].snap < now,
           \A s \in Symbols : HoleKnown(s) /\ Hole(s) =>
              s \in neglected' \/ fill'["scheduled"][s].at \in {"start", "fetch", "answered"}
    PROVE  CacheInv'
<1>1. Types'
    BY DEF CacheInv, Types
<1>2. \A s \in Symbols : Ordered(klines[s])' /\ HoleKnown(s)'
    BY DEF CacheInv, Ordered, HoleKnown, Hole
<1>. QED BY <1>1, <1>2 DEF CacheInv

LEMMA CacheBeginFill ==
    ASSUME CacheInv, NEW w \in Starters, NEW s \in Symbols, BeginFill(w, s)
    PROVE  CacheInv'
<1>1. PICK stage \in {"fetch", "others"} :
         /\ fill' = [fill EXCEPT ![w][s].at = stage]
         /\ \/ stage = "fetch" /\ neglected' = neglected
            \/ stage = "others" /\ neglected' = neglected \union {s}
    BY DEF BeginFill, Step
<1> DEFINE x == [fill[w][s] EXCEPT !.at = stage]
<1>2. Types /\ fill[w][s] \in FillState
    BY DEF CacheInv, Types
<1>3. x \in FillState /\ x.at = stage /\ x.snap = fill[w][s].snap
    BY <1>2 DEF FillState, Stages
<1>4. fill' = [fill EXCEPT ![w][s] = x]
    BY <1>1
<1>. HIDE DEF x
<1>5. /\ fill' \in [Starters -> [Symbols -> FillState]] /\ fill'[w][s] = x
      /\ \A v \in Starters, q \in Symbols : v # w \/ q # s => fill'[v][q] = fill[v][q]
    BY <1>2, <1>3, <1>4 DEF Types
<1>6. \A v \in Starters, q \in Symbols : fill'[v][q].snap < now
  <2>1. fill'[w][s].snap < now
    BY <1>3, <1>5 DEF CacheInv
  <2>. QED BY <1>5, <2>1, FillBounded
<1>7. UNCHANGED <<symbols, klines, now, call>>
    BY DEF BeginFill, streams
<1>8. \A q \in Symbols : HoleKnown(q) /\ Hole(q) =>
         q \in neglected' \/ fill'["scheduled"][q].at \in {"start", "fetch", "answered"}
  <2>1. ASSUME NEW q \in Symbols, q # s, HoleKnown(q), Hole(q)
        PROVE  q \in neglected' \/ fill'["scheduled"][q].at \in {"start", "fetch", "answered"}
    BY <1>1, <1>5, <2>1 DEF HoleKnown, Starters
  <2>2. ASSUME HoleKnown(s), Hole(s)
        PROVE  s \in neglected' \/ fill'["scheduled"][s].at \in {"start", "fetch", "answered"}
    BY <1>1, <1>3, <1>5, <2>2 DEF HoleKnown, Starters
  <2>. QED BY <2>1, <2>2
<1>. QED BY <1>5, <1>6, <1>7, <1>8, FillsOnly

LEMMA CacheSnapshot ==
    ASSUME CacheInv, NEW w \in Starters, NEW s \in Symbols, Snapshot(w, s)
    PROVE  CacheInv'
<1> DEFINE x == [at |-> "answered", snap |-> now - 1]
<1>1. Types /\ now \in Nat \ {0}
    BY DEF CacheInv, Types
<1>2. x \in FillState /\ x.snap < now /\ x.at = "answered"
    BY <1>1 DEF FillState, Stages
<1>3. /\ fill' = [fill EXCEPT ![w][s] = x] /\ fill[w][s].at = "fetch"
      /\ UNCHANGED <<symbols, klines, now, call, neglected>>
    BY DEF Snapshot, streams
<1>. HIDE DEF x
<1>4. /\ fill' \in [Starters -> [Symbols -> FillState]] /\ fill'[w][s] = x
      /\ \A v \in Starters, q \in Symbols : v # w \/ q # s => fill'[v][q] = fill[v][q]
    BY <1>1, <1>2, <1>3 DEF Types
<1>5. \A v \in Starters, q \in Symbols : fill'[v][q].snap < now
  <2>1. fill'[w][s].snap < now
    BY <1>2, <1>4 DEF CacheInv
  <2>. QED BY <1>4, <2>1, FillBounded
<1>6. \A q \in Symbols : HoleKnown(q) /\ Hole(q) =>
         q \in neglected' \/ fill'["scheduled"][q].at \in {"start", "fetch", "answered"}
    BY <1>2, <1>3, <1>4 DEF HoleKnown, Starters
<1>. QED BY <1>3, <1>4, <1>5, <1>6, FillsOnly

LEMMA CacheFetchFails ==
    ASSUME CacheInv, NEW w \in Starters, NEW s \in Symbols, FetchFails(w, s)
    PROVE  CacheInv'
<1> DEFINE x == [fill[w][s] EXCEPT !.at = "others"]
<1>1. Types /\ fill[w][s] \in FillState
    BY DEF CacheInv, Types
<1>2. x \in FillState /\ x.snap = fill[w][s].snap
    BY <1>1 DEF FillState, Stages
<1>3. /\ fill' = [fill EXCEPT ![w][s] = x] /\ neglected' = neglected \union {s}
      /\ UNCHANGED <<symbols, klines, now, call>>
    BY DEF FetchFails, Step, streams
<1>. HIDE DEF x
<1>4. /\ fill' \in [Starters -> [Symbols -> FillState]] /\ fill'[w][s] = x
      /\ \A v \in Starters, q \in Symbols : v # w \/ q # s => fill'[v][q] = fill[v][q]
    BY <1>1, <1>2, <1>3 DEF Types
<1>5. \A v \in Starters, q \in Symbols : fill'[v][q].snap < now
  <2>1. fill'[w][s].snap < now
    BY <1>2, <1>4 DEF CacheInv
  <2>. QED BY <1>4, <2>1, FillBounded
<1>6. \A q \in Symbols : HoleKnown(q) /\ Hole(q) =>
         q \in neglected' \/ fill'["scheduled"][q].at \in {"start", "fetch", "answered"}
    BY <1>3, <1>4 DEF HoleKnown, Starters
<1>. QED BY <1>3, <1>4, <1>5, <1>6, FillsOnly

LEMMA CacheEndFill ==
    ASSUME CacheInv, NEW w \in Starters, NEW s \in Symbols, EndFill(w, s)
    PROVE  CacheInv'
<1>1. Types /\ now \in Nat \ {0} /\ NoFill \in FillState /\ NoFill.snap = 0
    BY DEF CacheInv, Types, NoFill, FillState, Stages
<1>2. /\ fill' = [fill EXCEPT ![w][s] = NoFill] /\ fill[w][s].at = "others"
      /\ UNCHANGED <<symbols, klines, now, call, neglected>>
    BY DEF EndFill, streams
<1>3. /\ fill' \in [Starters -> [Symbols -> FillState]] /\ fill'[w][s] = NoFill
      /\ \A v \in Starters, q \in Symbols : v # w \/ q # s => fill'[v][q] = fill[v][q]
    BY <1>1, <1>2 DEF Types
<1>4. \A v \in Starters, q \in Symbols : fill'[v][q].snap < now
  <2>1. fill'[w][s].snap < now
    BY <1>1, <1>3 DEF CacheInv
  <2>. QED BY <1>3, <2>1, FillBounded
<1>5. \A q \in Symbols : HoleKnown(q) /\ Hole(q) =>
         q \in neglected' \/ fill'["scheduled"][q].at \in {"start", "fetch", "answered"}
    BY <1>2, <1>3 DEF HoleKnown, Starters
<1>. QED BY <1>2, <1>3, <1>4, <1>5, FillsOnly

\* More fills are started: by a gap, by a subscription, by the loop, by the monitor.
LEMMA CacheStartFill ==
    ASSUME CacheInv, NEW w \in Starters, NEW S \in SUBSET Symbols, StartFill(w, S),
           UNCHANGED <<symbols, klines, now, call, neglected>>
    PROVE  CacheInv'
<1>1. /\ fill' \in [Starters -> [Symbols -> FillState]]
      /\ \A v \in Starters, s \in Symbols :
            fill'[v][s] = fill[v][s] \/ (fill[v][s].at = "none" /\ fill'[v][s] = Starting)
    BY StartFillKeeps DEF CacheInv
<1>2. Starting.snap = 0 /\ Starting.at = "start" /\ now \in Nat \ {0}
    BY DEF Starting, CacheInv, Types
<1>3. \A v \in Starters, q \in Symbols : fill'[v][q].snap < now
    BY <1>1, <1>2 DEF CacheInv
<1>4. \A q \in Symbols : HoleKnown(q) /\ Hole(q) =>
         q \in neglected' \/ fill'["scheduled"][q].at \in {"start", "fetch", "answered"}
    BY <1>1, <1>2 DEF HoleKnown, Starters
<1>. QED BY <1>1, <1>3, <1>4, FillsOnly

\* A cache is replaced by k.
LEMMA CacheWrite ==
    ASSUME CacheInv, NEW s \in Symbols, NEW k \in Seq(Nat), Ordered(k),
           klines' = [klines EXCEPT ![s] = k], now' = now, UNCHANGED <<symbols, call>>,
           fill' \in [Starters -> [Symbols -> FillState]],
           \A v \in Starters, q \in Symbols : fill'[v][q].snap < now,
           HoleKnown(s)',
           \A q \in Symbols : q # s => /\ q \in neglected => q \in neglected'
                                       /\ fill'["scheduled"][q] = fill["scheduled"][q]
    PROVE  CacheInv'
<1>1. \A q \in Symbols : klines'[q] = IF q = s THEN k ELSE klines[q]
    BY DEF CacheInv, Types
<1>2. Types'
    BY DEF CacheInv, Types
<1>3. ASSUME NEW q \in Symbols PROVE Ordered(klines[q])'
  <2>1. CASE q = s
    BY <1>1, <2>1 DEF Ordered
  <2>2. CASE q # s
    BY <1>1, <2>2 DEF CacheInv, Ordered
  <2>. QED BY <2>1, <2>2
<1>4. ASSUME NEW q \in Symbols, q # s PROVE HoleKnown(q)'
    BY <1>1, <1>4 DEF CacheInv, HoleKnown, Hole
<1>. QED BY <1>2, <1>3, <1>4 DEF CacheInv

\* A history without gaps takes the place of the cache.
LEMMA CacheWriteFill ==
    ASSUME CacheInv, NEW w \in Starters, NEW s \in Symbols, WriteFill(w, s)
    PROVE  CacheInv'
<1> DEFINE x == [fill[w][s] EXCEPT !.at = "others"]
           m == fill[w][s].snap
           k == [n \in 1 .. m |-> n]
<1>1. Types /\ fill[w][s] \in FillState /\ now \in Nat \ {0}
    BY DEF CacheInv, Types
<1>2. x \in FillState /\ x.snap = m /\ m \in Nat /\ m < now
    BY <1>1 DEF CacheInv, FillState, Stages
<1>3. /\ fill' = [fill EXCEPT ![w][s] = x]
      /\ UNCHANGED <<symbols, now, call>>
    BY DEF WriteFill, Step, streams
<1>4. \/ m = 0 /\ neglected' = neglected \union {s} /\ klines' = klines
      \/ /\ m # 0 /\ klines' = [klines EXCEPT ![s] = k] /\ neglected' = neglected \ {s}
    BY DEF WriteFill
<1>. HIDE DEF x, m
<1>5. /\ fill' \in [Starters -> [Symbols -> FillState]] /\ fill'[w][s] = x
      /\ \A v \in Starters, q \in Symbols : v # w \/ q # s => fill'[v][q] = fill[v][q]
    BY <1>1, <1>2, <1>3 DEF Types
<1>6. \A v \in Starters, q \in Symbols : fill'[v][q].snap < now
  <2>1. fill'[w][s].snap < now
    BY <1>2, <1>5
  <2>. QED BY <1>5, <2>1, FillBounded
<1>7. CASE klines' = klines /\ neglected' = neglected \union {s}
  <2>1. \A q \in Symbols : HoleKnown(q) /\ Hole(q) =>
           q \in neglected' \/ fill'["scheduled"][q].at \in {"start", "fetch", "answered"}
    BY <1>5, <1>7 DEF HoleKnown, Starters
  <2>. QED BY <1>3, <1>5, <1>6, <1>7, <2>1, FillsOnly
<1>8. CASE klines' = [klines EXCEPT ![s] = k] /\ neglected' = neglected \ {s}
  <2>1. k \in Seq(Nat) /\ Len(k) = m /\ \A n \in 1 .. m : k[n] = n
    BY <1>2
  <2>2. Ordered(k)
    BY <1>1, <1>2, <2>1 DEF Ordered
  <2>3. klines'[s] = k
    BY <1>1, <1>8 DEF Types
  <2>. HIDE DEF k
  <2>4. HoleKnown(s)'
    BY <1>2, <2>1, <2>3 DEF HoleKnown, Hole
  <2>5. \A q \in Symbols : q # s => /\ q \in neglected => q \in neglected'
                                    /\ fill'["scheduled"][q] = fill["scheduled"][q]
    BY <1>5, <1>8 DEF Starters
  <2>. QED BY <1>3, <1>5, <1>6, <1>8, <2>1, <2>2, <2>4, <2>5, CacheWrite
<1>. QED BY <1>4, <1>7, <1>8

\* A gap that is found is known, whatever the fill in flight is doing.
LEMMA GapKnown ==
    ASSUME CacheInv, NEW s \in Symbols, NEW gap \in BOOLEAN, RepairGap(s, gap)
    PROVE  /\ fill' \in [Starters -> [Symbols -> FillState]]
           /\ \A v \in Starters, q \in Symbols : fill'[v][q].snap < now
           /\ neglected \subseteq neglected'
           /\ \A q \in Symbols \ {s} : fill'["scheduled"][q] = fill["scheduled"][q]
           /\ gap => s \in neglected' \/ fill'["scheduled"][s].at \in {"start", "fetch", "answered"}
           /\ ~gap => fill' = fill
<1>1. CASE ~gap
    BY <1>1 DEF RepairGap, CacheInv, Types, Starters
<1>2. CASE gap
  <2>1. /\ StartFill("scheduled", {s})
        /\ neglected' = IF fill["scheduled"][s].at = "others" THEN neglected \union {s}
                        ELSE neglected
    BY <1>2 DEF RepairGap
  <2>2. "scheduled" \in Starters /\ {s} \in SUBSET Symbols /\ Types
    BY DEF Starters, CacheInv
  <2>3. /\ fill' \in [Starters -> [Symbols -> FillState]]
        /\ \A v \in Starters, q \in Symbols :
              \/ fill'[v][q] = fill[v][q]
              \/ /\ v = "scheduled" /\ q \in {s} /\ fill[v][q].at = "none"
                 /\ fill'[v][q] = Starting
    BY <2>1, <2>2, StartFillKeeps
  <2>4. Starting.snap = 0 /\ Starting.at = "start" /\ now \in Nat \ {0}
    BY DEF Starting, CacheInv, Types
  <2>5. ASSUME NEW v \in Starters, NEW q \in Symbols PROVE fill'[v][q].snap < now
    BY <2>3, <2>4 DEF CacheInv
  <2>6. s \in neglected' \/ fill'["scheduled"][s].at \in {"start", "fetch", "answered"}
    <3>1. fill'["scheduled"][s] = Starting
            \/ (fill'["scheduled"][s] = fill["scheduled"][s])
      BY <2>2, <2>3
    <3>2. fill["scheduled"][s].at = "none" => fill'["scheduled"][s] = Starting
      <4>1. StartFill("scheduled", {s})
        BY <2>1
      <4>2. fill' = [fill EXCEPT !["scheduled"] = [q \in Symbols |->
                       IF q \in {s} /\ fill["scheduled"][q].at = "none" THEN Starting
                       ELSE fill["scheduled"][q]]]
        BY <4>1 DEF StartFill
      <4>3. fill'["scheduled"] = [q \in Symbols |->
                       IF q \in {s} /\ fill["scheduled"][q].at = "none" THEN Starting
                       ELSE fill["scheduled"][q]]
        BY <2>2, <4>2 DEF Types
      <4>. QED BY <4>3
    <3>3. fill["scheduled"][s].at \in Stages
      BY <2>2 DEF Types, FillState
    <3>. QED BY <2>1, <2>4, <3>1, <3>2, <3>3 DEF Stages
  <2>7. \A q \in Symbols \ {s} : fill'["scheduled"][q] = fill["scheduled"][q]
    BY <2>2, <2>3
  <2>. QED BY <1>2, <2>1, <2>3, <2>5, <2>6, <2>7
<1>. QED BY <1>1, <1>2

\* A closed candle is appended once, and a gap before it is repaired or known.
LEMMA CacheHandleKline ==
    ASSUME CacheInv, NEW s \in Symbols, HandleKline(s)
    PROVE  CacheInv'
<1> DEFINE n == now - 1
           old == klines[s]
           gap == old # <<>> /\ n > Last(old) + 1
           k == IF old # <<>> /\ Last(old) = n THEN old ELSE Append(old, n)
<1>1. /\ Types /\ old \in Seq(Nat) /\ Ordered(old) /\ HoleKnown(s)
      /\ n \in Nat /\ now \in Nat /\ n = now - 1
    BY DEF CacheInv, Types
<1>2. /\ RepairGap(s, gap) /\ klines' = [klines EXCEPT ![s] = k]
      /\ UNCHANGED <<symbols, call, now>>
    BY DEF HandleKline, Read
<1>3. klines'[s] = k
    BY <1>1, <1>2 DEF Types
<1>. HIDE DEF n
<1>4. CASE old # <<>> /\ Last(old) = n
  <2>1. k = old
    BY <1>4
  <2>2. ~gap
    BY <1>1, <1>4
  <2>3. fill' = fill /\ neglected \subseteq neglected'
    BY <1>2, <2>2, GapKnown DEF RepairGap
  <2>4. HoleKnown(s)'
    BY <1>1, <1>3, <2>1, <2>3 DEF HoleKnown, Hole
  <2>. QED BY <1>1, <1>2, <2>1, <2>3, <2>4, CacheWrite DEF CacheInv, Types
<1>5. CASE ~(old # <<>> /\ Last(old) = n)
  <2>1. k = Append(old, n)
    BY <1>5
  <2>2. /\ k \in Seq(Nat) /\ Len(k) = Len(old) + 1 /\ k[Len(old) + 1] = n
        /\ \A i \in 1 .. Len(old) : k[i] = old[i]
        /\ Len(old) \in Nat
    BY <1>1, <2>1
  <2>3. old # <<>> => Len(old) \in 1 .. Len(old) /\ Last(old) = old[Len(old)]
    BY <1>1 DEF Last
  <2>4. old # <<>> => old[Len(old)] \in Nat /\ old[Len(old)] < n
    <3>1. ASSUME old # <<>> PROVE old[Len(old)] \in Nat /\ old[Len(old)] < now
      BY <1>1, <2>3, <3>1, SMTT(30) DEF Ordered
    <3>. QED BY <1>1, <1>5, <2>3, <3>1
  <2>. HIDE DEF k
  <2>5. Ordered(k)
    <3>1. ASSUME NEW i \in 1 .. Len(k) PROVE k[i] < now
      <4>1. CASE i = Len(old) + 1
        BY <1>1, <2>2, <4>1
      <4>2. CASE i # Len(old) + 1
        <5>1. i \in 1 .. Len(old)
          BY <2>2, <4>2
        <5>2. k[i] = old[i]
          BY <2>2, <5>1
        <5>. QED BY <1>1, <5>1, <5>2 DEF Ordered
      <4>. QED BY <4>1, <4>2
    <3>2. ASSUME NEW i \in 1 .. Len(k) - 1 PROVE k[i] < k[i + 1]
      <4>1. CASE i = Len(old)
        <5>1. old # <<>>
          BY <1>1, <2>2, <4>1
        <5>. QED BY <2>2, <2>3, <2>4, <4>1, <5>1
      <4>2. CASE i # Len(old)
        <5>1. i \in 1 .. Len(old) - 1 /\ i \in 1 .. Len(old) /\ i + 1 \in 1 .. Len(old)
          BY <2>2, <4>2
        <5>2. k[i] = old[i] /\ k[i + 1] = old[i + 1]
          BY <2>2, <5>1
        <5>. QED BY <1>1, <5>1, <5>2 DEF Ordered
      <4>. QED BY <4>1, <4>2
    <3>. QED BY <3>1, <3>2 DEF Ordered
  <2>6. gap \in BOOLEAN
    OBVIOUS
  <2>7. HoleKnown(s)'
    <3>1. CASE gap
      BY <1>2, <2>6, <3>1, GapKnown DEF HoleKnown
    <3>2. CASE ~gap
      <4>1. fill' = fill /\ neglected \subseteq neglected'
        BY <1>2, <2>6, <3>2, GapKnown
      <4>2. old # <<>> => ~(n > old[Len(old)] + 1)
        BY <2>3, <3>2
      <4>3. ASSUME Hole(s)' PROVE Hole(s)
        <5>1. PICK i \in 1 .. Len(k) - 1 : k[i + 1] > k[i] + 1
          BY <1>3, <4>3 DEF Hole
        <5>2. i # Len(old)
          <6>1. ASSUME i = Len(old) PROVE FALSE
            <7>1. old # <<>>
              BY <1>1, <2>2, <6>1
            <7>. QED BY <2>2, <2>3, <4>2, <5>1, <6>1, <7>1
          <6>. QED BY <6>1
        <5>3. i \in 1 .. Len(old) - 1 /\ i \in 1 .. Len(old) /\ i + 1 \in 1 .. Len(old)
          BY <2>2, <5>2
        <5>4. k[i] = old[i] /\ k[i + 1] = old[i + 1]
          BY <2>2, <5>3
        <5>. QED BY <5>1, <5>3, <5>4 DEF Hole
      <4>. QED BY <1>1, <4>1, <4>3 DEF HoleKnown
    <3>. QED BY <3>1, <3>2
  <2>8. /\ fill' \in [Starters -> [Symbols -> FillState]]
        /\ \A v \in Starters, q \in Symbols : fill'[v][q].snap < now
        /\ neglected \subseteq neglected'
        /\ \A q \in Symbols \ {s} : fill'["scheduled"][q] = fill["scheduled"][q]
    BY <1>2, <2>6, GapKnown
  <2>. QED BY <1>2, <2>2, <2>5, <2>7, <2>8, CacheWrite
<1>. QED BY <1>4, <1>5

\* The caches of the symbols that leave the list are dropped.
LEMMA CacheSubscribe ==
    ASSUME CacheInv, NEW c \in Callers, Subscribe(c)
    PROVE  CacheInv'
<1>1. PICK wanted \in Lists :
         /\ wanted # symbols /\ symbols' = wanted
         /\ \/ UNCHANGED <<klines, call>>
            \/ /\ klines' = [s \in Symbols |-> IF s \in symbols \ wanted THEN <<>> ELSE klines[s]]
               /\ call' = [call EXCEPT ![c] = [at |-> "unsubscribe",
                             removed |-> symbols \ wanted, added |-> wanted \ symbols]]
    BY DEF Subscribe
<1>2. UNCHANGED <<fill, neglected, now>>
    BY DEF Subscribe, streams
<1>3. wanted \subseteq Symbols /\ Types
    BY ListedAssumption DEF CacheInv
<1>4. CASE UNCHANGED <<klines, call>>
  <2>1. Types'
    BY <1>1, <1>2, <1>3, <1>4 DEF Types
  <2>2. now <= now'
    BY <1>2, <1>3 DEF Types
  <2>. QED BY <1>2, <1>4, <2>1, <2>2, CacheSame
<1>5. CASE /\ klines' = [s \in Symbols |-> IF s \in symbols \ wanted THEN <<>> ELSE klines[s]]
           /\ call' = [call EXCEPT ![c] = [at |-> "unsubscribe",
                         removed |-> symbols \ wanted, added |-> wanted \ symbols]]
  <2>1. \A s \in Symbols : klines'[s] = <<>> \/ klines'[s] = klines[s]
    BY <1>5
  <2>2. klines' \in [Symbols -> Seq(Nat)]
    <3>1. <<>> \in Seq(Nat) /\ \A s \in Symbols : klines[s] \in Seq(Nat)
      BY <1>3 DEF Types
    <3>. QED BY <1>5, <3>1
  <2>3. [at |-> "unsubscribe", removed |-> symbols \ wanted, added |-> wanted \ symbols]
          \in [at : {"idle", "unsubscribe", "subscribe", "backfill"},
               removed : SUBSET Symbols, added : SUBSET Symbols]
    BY <1>3 DEF Types
  <2>4. Types'
    BY <1>1, <1>2, <1>3, <1>5, <2>2, <2>3 DEF Types
  <2>5. ASSUME NEW s \in Symbols PROVE Ordered(klines[s])' /\ HoleKnown(s)'
    <3>1. CASE klines'[s] = <<>>
      BY <3>1 DEF Ordered, HoleKnown, Hole
    <3>2. CASE klines'[s] = klines[s]
      BY <1>2, <3>2 DEF CacheInv, Ordered, HoleKnown, Hole
    <3>. QED BY <2>1, <3>1, <3>2
  <2>. QED BY <1>2, <2>4, <2>5 DEF CacheInv
<1>. QED BY <1>1, <1>4, <1>5

\* The steps that leave caches and fills alone, or only start fills.
LEMMA CacheOthers ==
    ASSUME CacheInv,
           \/ \E s \in Symbols : DropKline(s) \/ CooldownElapses(s)
           \/ \E c \in Callers : SendUnsubscribe(c) \/ SendSubscribe(c) \/ ScheduleNew(c)
           \/ Loop \/ Close \/ UNCHANGED vars
    PROVE  CacheInv'
<1>1. Types /\ now \in Nat \ {0} /\ symbols \in SUBSET Symbols
    BY DEF CacheInv, Types
<1>2. ASSUME UNCHANGED <<symbols, klines, fill, neglected, call>>, now' \in {now, now + 1}
      PROVE  CacheInv'
  <2>1. Types' /\ now <= now'
    BY <1>1, <1>2 DEF Types
  <2>. QED BY <1>2, <2>1, CacheSame
<1>3. ASSUME NEW c \in Callers, NEW x \in [at : {"subscribe", "backfill", "idle"},
                                          removed : SUBSET Symbols, added : SUBSET Symbols],
             call' = [call EXCEPT ![c] = x],
             UNCHANGED <<symbols, klines, neglected, now>>,
             fill' = fill \/ StartFill("scheduled", call[c].added)
      PROVE  CacheInv'
  <2>1. Types' \/ fill' # fill
    BY <1>1, <1>3 DEF Types
  <2>2. CASE fill' = fill
    BY <1>1, <1>3, <2>1, <2>2, CacheSame
  <2>3. CASE StartFill("scheduled", call[c].added)
    <3>1. "scheduled" \in Starters /\ call[c].added \in SUBSET Symbols
      BY <1>1 DEF Starters, Types
    <3>2. /\ fill' \in [Starters -> [Symbols -> FillState]]
          /\ \A v \in Starters, s \in Symbols :
                fill'[v][s] = fill[v][s] \/ (fill[v][s].at = "none" /\ fill'[v][s] = Starting)
      BY <1>1, <2>3, <3>1, StartFillKeeps
    <3>3. Starting.snap = 0 /\ Starting.at = "start"
      BY DEF Starting
    <3>4. \A v \in Starters, q \in Symbols : fill'[v][q].snap < now
      BY <1>1, <3>2, <3>3 DEF CacheInv
    <3>5. \A s \in Symbols : HoleKnown(s)'
      BY <1>3, <3>2, <3>3 DEF CacheInv, HoleKnown, Hole, Starters
    <3>6. Types'
      BY <1>1, <1>3, <3>2 DEF Types
    <3>. QED BY <1>3, <3>4, <3>5, <3>6 DEF CacheInv, Ordered
  <2>. QED BY <1>3, <2>2, <2>3
<1>4. ASSUME NEW c \in Callers, SendUnsubscribe(c) \/ SendSubscribe(c) \/ ScheduleNew(c)
      PROVE  CacheInv'
  <2>1. call[c] \in [at : {"idle", "unsubscribe", "subscribe", "backfill"},
                     removed : SUBSET Symbols, added : SUBSET Symbols]
    BY <1>1 DEF Types
  <2>2. CASE SendUnsubscribe(c)
    <3>1. [call[c] EXCEPT !.at = "subscribe", !.removed = {}]
            \in [at : {"subscribe", "backfill", "idle"},
                 removed : SUBSET Symbols, added : SUBSET Symbols]
      BY <2>1
    <3>2. call' = [call EXCEPT ![c] = [call[c] EXCEPT !.at = "subscribe", !.removed = {}]]
      BY <2>2 DEF SendUnsubscribe
    <3>. QED BY <1>3, <2>2, <3>1, <3>2 DEF SendUnsubscribe, caches
  <2>3. CASE SendSubscribe(c)
    <3>1. [call[c] EXCEPT !.at = "backfill"]
            \in [at : {"subscribe", "backfill", "idle"},
                 removed : SUBSET Symbols, added : SUBSET Symbols]
      BY <2>1
    <3>2. call' = [call EXCEPT ![c] = [call[c] EXCEPT !.at = "backfill"]]
      BY <2>3 DEF SendSubscribe
    <3>. QED BY <1>3, <2>3, <3>1, <3>2 DEF SendSubscribe, caches
  <2>4. CASE ScheduleNew(c)
    <3>1. NoCall \in [at : {"subscribe", "backfill", "idle"},
                      removed : SUBSET Symbols, added : SUBSET Symbols]
      BY DEF NoCall
    <3>. QED BY <1>3, <2>4, <3>1 DEF ScheduleNew
  <2>. QED BY <1>4, <2>2, <2>3, <2>4
<1>5. CASE Loop
  <2>1. UNCHANGED <<symbols, klines, neglected, call, now>>
    BY <1>5 DEF Loop, Wake, Connect, Resubscribe, Disconnect, LoopDies, Health, caches
  <2>2. fill' = fill \/ \E w \in Starters, S \in SUBSET Symbols : StartFill(w, S)
    <3>1. CASE Wake
      <4>1. {s \in symbols : Stale(s)} \in SUBSET Symbols /\ "loop" \in Starters
        BY <1>1 DEF Starters
      <4>2. fill' = fill \/ StartFill("loop", {s \in symbols : Stale(s)})
        BY <3>1 DEF Wake
      <4>. QED BY <4>1, <4>2
    <3>2. CASE Health
      <4>1. {s \in symbols : Behind(s)} \in SUBSET Symbols /\ "health" \in Starters
        BY <1>1 DEF Starters
      <4>2. StartFill("health", {s \in symbols : Behind(s)})
        BY <3>2 DEF Health
      <4>. QED BY <4>1, <4>2
    <3>3. CASE Connect \/ Resubscribe \/ Disconnect \/ LoopDies
      BY <3>3 DEF Connect, Resubscribe, Disconnect, LoopDies, caches
    <3>. QED BY <1>5, <3>1, <3>2, <3>3 DEF Loop
  <2>. QED BY <1>2, <2>1, <2>2, CacheStartFill
<1>6. CASE (\E s \in Symbols : DropKline(s) \/ CooldownElapses(s)) \/ Close \/ UNCHANGED vars
    BY <1>2, <1>6 DEF DropKline, CooldownElapses, Close, vars, caches
<1>. QED BY <1>4, <1>5, <1>6

LEMMA CacheNext == CacheInv /\ [Next]_vars => CacheInv'
<1>. SUFFICES ASSUME CacheInv, [Next]_vars PROVE CacheInv'
    OBVIOUS
<1>1. ASSUME NEW w \in Starters, NEW s \in Symbols, Fill(w, s) PROVE CacheInv'
    BY <1>1, CacheBeginFill, CacheSnapshot, CacheWriteFill, CacheFetchFails, CacheEndFill
       DEF Fill
<1>2. ASSUME NEW c \in Callers, Command(c) PROVE CacheInv'
    BY <1>2, CacheSubscribe, CacheOthers DEF Command
<1>. QED BY <1>1, <1>2, CacheHandleKline, CacheOthers DEF Next

LEMMA CacheInit == Init => CacheInv
<1>. SUFFICES ASSUME Init PROVE CacheInv
    OBVIOUS
<1>1. NoFill \in FillState /\ Starting \in FillState /\ NoFill.snap = 0 /\ Starting.snap = 0
    BY DEF NoFill, Starting, FillState, Stages
<1>2. <<>> \in Seq(Nat)
    OBVIOUS
<1>3. NoCall \in [at : {"idle", "unsubscribe", "subscribe", "backfill"},
                  removed : SUBSET Symbols, added : SUBSET Symbols]
    BY DEF NoCall
<1>4. Types
  <2>1. fill \in [Starters -> [Symbols -> FillState]]
    BY <1>1 DEF Init
  <2>2. klines \in [Symbols -> Seq(Nat)]
    BY <1>2 DEF Init
  <2>. QED BY <1>3, <2>1, <2>2, ListedAssumption DEF Init, Types
<1>5. \A s \in Symbols : Ordered(klines[s]) /\ HoleKnown(s)
    BY DEF Init, Ordered, HoleKnown, Hole
<1>6. \A w \in Starters, s \in Symbols : fill[w][s].snap < now
    BY <1>1 DEF Init
<1>. QED BY <1>4, <1>5, <1>6 DEF CacheInv

\* A cache lists its candles in the order of time, each once, whichever fills put
\* an older or newer history in its place between two closes.
THEOREM CachesStayOrdered == Spec => []CacheOrdered
<1>1. CacheInv => CacheOrdered
    BY DEF CacheInv, Ordered, CacheOrdered
<1>. QED BY <1>1, CacheInit, CacheNext, PTL DEF Spec

\* A candle that is missing in the middle of a cache is being fetched, unless its
\* symbol is one whose repair failed or was turned away.
THEOREM HolesAreRepaired == Spec => []HoleUnderRepair
<1>1. CacheInv => HoleUnderRepair
    BY DEF CacheInv, HoleKnown, HoleUnderRepair
<1>. QED BY <1>1, CacheInit, CacheNext, PTL DEF Spec

-----------------------------------------------------------------------------
(* The streams of the connection.                                          *)

\* A call that has still to ask for the stream of s.
Coming(s) == \E c \in Callers :
    call[c].at \in {"unsubscribe", "subscribe"} /\ s \in call[c].added

StreamInv ==
    /\ call \in [Callers -> [at : {"idle", "unsubscribe", "subscribe", "backfill"},
                             removed : SUBSET Symbols, added : SUBSET Symbols]]
    /\ symbols \subseteq Symbols
    /\ link = "reading" => \A s \in symbols \ astray : s \in server \/ Coming(s)
    /\ link = "resubscribing" =>
         \A s \in symbols \ astray : s \in server \union plan \/ Coming(s)
    /\ Removing \intersect symbols \subseteq astray

\* The list is replaced.
LEMMA StreamSubscribe ==
    ASSUME StreamInv, NEW c \in Callers, Subscribe(c)
    PROVE  StreamInv'
<1>1. PICK wanted \in Lists : LET removed == symbols \ wanted
                                  added == wanted \ symbols
                              IN  /\ symbols' = wanted
                                  /\ \/ astray' = astray \union added /\ call' = call
                                     \/ /\ astray' = (astray \ removed) \union (added \intersect Removing)
                                        /\ call' = [call EXCEPT ![c] =
                                              [at |-> "unsubscribe", removed |-> removed,
                                               added |-> added]]
    BY DEF Subscribe
<1>2. wanted \subseteq Symbols /\ UNCHANGED <<link, server, plan>> /\ call[c].at = "idle"
    BY ListedAssumption DEF Subscribe, streams, Idle
<1>3. CASE astray' = astray \union (wanted \ symbols) /\ call' = call
    BY <1>1, <1>2, <1>3 DEF StreamInv, Coming, Removing
<1>4. CASE /\ astray' = (astray \ (symbols \ wanted)) \union ((wanted \ symbols) \intersect Removing)
           /\ call' = [call EXCEPT ![c] = [at |-> "unsubscribe", removed |-> symbols \ wanted,
                                           added |-> wanted \ symbols]]
  <2> DEFINE x == [at |-> "unsubscribe", removed |-> symbols \ wanted, added |-> wanted \ symbols]
  <2>1. x \in [at : {"idle", "unsubscribe", "subscribe", "backfill"},
               removed : SUBSET Symbols, added : SUBSET Symbols]
    BY <1>2 DEF StreamInv
  <2>2. \A d \in Callers : call'[d] = IF d = c THEN x ELSE call[d]
    BY <1>4 DEF StreamInv
  <2>3. \A s : Coming(s) => Coming(s)'
    BY <1>2, <2>2 DEF Coming
  <2>4. \A s \in wanted \ symbols : Coming(s)'
    BY <2>2 DEF Coming
  <2>5. Removing' \intersect wanted \subseteq Removing \intersect wanted
    BY <2>2 DEF Removing
  <2>6. Removing' \intersect symbols' \subseteq astray'
    BY <1>1, <1>4, <2>5 DEF StreamInv
  <2>7. \A s \in symbols' \ astray' : (s \in symbols \ astray) \/ s \in wanted \ symbols
    BY <1>1, <1>4
  <2>8. call' \in [Callers -> [at : {"idle", "unsubscribe", "subscribe", "backfill"},
                             removed : SUBSET Symbols, added : SUBSET Symbols]]
    BY <1>4, <2>1 DEF StreamInv
  <2>. QED BY <1>1, <1>2, <2>3, <2>4, <2>6, <2>7, <2>8 DEF StreamInv
<1>. QED BY <1>1, <1>3, <1>4

\* A command of c goes out; only call[c] is another, with the given members.
LEMMA StreamSendUnsubscribe ==
    ASSUME StreamInv, NEW c \in Callers, SendUnsubscribe(c)
    PROVE  StreamInv'
<1> DEFINE x == [call[c] EXCEPT !.at = "subscribe", !.removed = {}]
<1>1. /\ UNCHANGED <<symbols, link, plan, astray>>
      /\ call' = [call EXCEPT ![c] = x]
      /\ server' = IF Connected THEN server \ call[c].removed ELSE server
      /\ call[c].at = "unsubscribe"
    BY DEF SendUnsubscribe
<1>2. /\ x \in [at : {"idle", "unsubscribe", "subscribe", "backfill"},
                removed : SUBSET Symbols, added : SUBSET Symbols]
      /\ x.at = "subscribe" /\ x.removed = {} /\ x.added = call[c].added
    BY DEF StreamInv
<1>3. \A d \in Callers : call'[d] = IF d = c THEN x ELSE call[d]
    BY <1>1 DEF StreamInv
<1>4. call' \in [Callers -> [at : {"idle", "unsubscribe", "subscribe", "backfill"},
                             removed : SUBSET Symbols, added : SUBSET Symbols]]
    BY <1>1, <1>2 DEF StreamInv
<1> HIDE DEF x
<1>5. \A s : Coming(s) => Coming(s)'
    BY <1>1, <1>2, <1>3 DEF Coming
<1>6. Removing' \subseteq Removing
    BY <1>2, <1>3 DEF Removing
\* What c unsubscribes and the list has is astray already.
<1>7. \A s \in symbols \ astray : s \in server => s \in server'
    BY <1>1 DEF StreamInv, Removing
<1>. QED BY <1>1, <1>4, <1>5, <1>6, <1>7 DEF StreamInv

LEMMA StreamSendSubscribe ==
    ASSUME StreamInv, NEW c \in Callers, SendSubscribe(c)
    PROVE  StreamInv'
<1> DEFINE x == [call[c] EXCEPT !.at = "backfill"]
<1>1. /\ UNCHANGED <<symbols, plan, astray>>
      /\ call' = [call EXCEPT ![c] = x]
      /\ server' = IF Connected THEN server \union call[c].added ELSE server
      /\ link' = link \/ link' = "connecting"
      /\ call[c].at = "subscribe"
    BY DEF SendSubscribe
<1>2. /\ x \in [at : {"idle", "unsubscribe", "subscribe", "backfill"},
                removed : SUBSET Symbols, added : SUBSET Symbols]
      /\ x.at = "backfill" /\ x.removed = call[c].removed /\ x.added = call[c].added
    BY DEF StreamInv
<1>3. \A d \in Callers : call'[d] = IF d = c THEN x ELSE call[d]
    BY <1>1 DEF StreamInv
<1>4. call' \in [Callers -> [at : {"idle", "unsubscribe", "subscribe", "backfill"},
                             removed : SUBSET Symbols, added : SUBSET Symbols]]
    BY <1>1, <1>2 DEF StreamInv
<1> HIDE DEF x
<1>5. \A s : Coming(s) => Coming(s)' \/ s \in call[c].added
    BY <1>1, <1>3 DEF Coming
<1>6. Removing' \subseteq Removing
    BY <1>2, <1>3 DEF Removing
<1>7. CASE link' = link
  <2>1. link \in {"resubscribing", "reading"} => server' = server \union call[c].added
    BY <1>1 DEF Connected
  <2>. QED BY <1>1, <1>4, <1>5, <1>6, <1>7, <2>1 DEF StreamInv
<1>8. CASE link' = "connecting"
    BY <1>1, <1>4, <1>6, <1>8 DEF StreamInv
<1>. QED BY <1>1, <1>7, <1>8

LEMMA StreamScheduleNew ==
    ASSUME StreamInv, NEW c \in Callers, ScheduleNew(c)
    PROVE  StreamInv'
<1>1. /\ UNCHANGED <<symbols, link, plan, server, astray>>
      /\ call' = [call EXCEPT ![c] = NoCall] /\ call[c].at = "backfill"
    BY DEF ScheduleNew, streams
<1>2. /\ NoCall \in [at : {"idle", "unsubscribe", "subscribe", "backfill"},
                     removed : SUBSET Symbols, added : SUBSET Symbols]
      /\ NoCall.removed = {}
    BY DEF NoCall
<1>3. \A d \in Callers : call'[d] = IF d = c THEN NoCall ELSE call[d]
    BY <1>1 DEF StreamInv
<1>4. call' \in [Callers -> [at : {"idle", "unsubscribe", "subscribe", "backfill"},
                             removed : SUBSET Symbols, added : SUBSET Symbols]]
    BY <1>1, <1>2 DEF StreamInv
<1>5. \A s : Coming(s) => Coming(s)'
    BY <1>1, <1>3 DEF Coming
<1>6. Removing' \subseteq Removing
    BY <1>2, <1>3 DEF Removing
<1>. QED BY <1>1, <1>4, <1>5, <1>6 DEF StreamInv

\* The endpoint loop leaves the list and the calls alone.
LEMMA StreamLoop ==
    ASSUME StreamInv, Loop
    PROVE  StreamInv'
<1>1. UNCHANGED <<symbols, call>>
    BY DEF Loop, Wake, Connect, Resubscribe, Disconnect, LoopDies, Health, streams
<1>2. Removing' = Removing /\ \A s : Coming(s)' <=> Coming(s)
    BY <1>1 DEF Removing, Coming
<1>3. CASE Connect
    BY <1>1, <1>2, <1>3 DEF StreamInv, Connect
<1>4. CASE Resubscribe
    BY <1>1, <1>2, <1>4 DEF StreamInv, Resubscribe
<1>5. CASE Wake \/ Disconnect \/ LoopDies
    BY <1>1, <1>2, <1>5 DEF StreamInv, Wake, Disconnect, LoopDies
<1>6. CASE Health
    BY <1>1, <1>2, <1>6 DEF StreamInv, Health, streams
<1>. QED BY <1>3, <1>4, <1>5, <1>6 DEF Loop

LEMMA StreamNext == StreamInv /\ [Next]_vars => StreamInv'
<1>. SUFFICES ASSUME StreamInv, [Next]_vars PROVE StreamInv'
    OBVIOUS
<1>1. ASSUME NEW c \in Callers, Command(c) PROVE StreamInv'
    BY <1>1, StreamSubscribe, StreamSendUnsubscribe, StreamSendSubscribe, StreamScheduleNew
       DEF Command
<1>2. CASE UNCHANGED <<symbols, link, plan, server, call, astray>>
  <2>1. Removing' = Removing /\ \A s : Coming(s)' <=> Coming(s)
    BY <1>2 DEF Removing, Coming
  <2>. QED BY <1>2, <2>1 DEF StreamInv
<1>3. ASSUME NEW w \in Starters, NEW s \in Symbols, Fill(w, s)
      PROVE  UNCHANGED <<symbols, link, plan, server, call, astray>>
    BY <1>3 DEF Fill, BeginFill, Snapshot, WriteFill, FetchFails, EndFill, streams
<1>4. ASSUME NEW s \in Symbols, HandleKline(s) \/ DropKline(s) \/ CooldownElapses(s)
      PROVE  UNCHANGED <<symbols, link, plan, server, call, astray>>
    BY <1>4 DEF HandleKline, DropKline, CooldownElapses, streams
<1>5. Close \/ UNCHANGED vars => UNCHANGED <<symbols, link, plan, server, call, astray>>
    BY DEF Close, vars, streams
<1>. QED BY <1>1, <1>2, <1>3, <1>4, <1>5, StreamLoop DEF Next

LEMMA StreamInit == Init => StreamInv
<1>. SUFFICES ASSUME Init PROVE StreamInv
    OBVIOUS
<1>1. /\ NoCall \in [at : {"idle", "unsubscribe", "subscribe", "backfill"},
                     removed : SUBSET Symbols, added : SUBSET Symbols]
      /\ NoCall.removed = {}
    BY DEF NoCall
<1>. QED BY <1>1, ListedAssumption DEF Init, StreamInv, Removing

\* When the loop reads and no subscribe() is under way, every symbol of the list
\* has its stream, except those that came back while another call had still to
\* unsubscribe them, or came with a list the stream limit refused.
THEOREM StreamsFollow == Spec => []StreamsFollowList
<1>1. StreamInv => StreamsFollowList
    BY DEF StreamInv, Coming, Idle, StreamsFollowList
<1>. QED BY <1>1, StreamInit, StreamNext, PTL DEF Spec
=============================================================================
