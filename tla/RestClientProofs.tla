-------------------------- MODULE RestClientProofs --------------------------
(***************************************************************************)
(* Theorems about RestClient, for any number of calls, operations and      *)
(* proxies and any thresholds.                                             *)
(*                                                                         *)
(* The inductive invariant is the conjunction of the type invariant with   *)
(* the two invariants of the breaker.  The breaker's tables are written by *)
(* five operators only; a lemma for each of them says that it keeps        *)
(* BreakerOK, and the actions of a call cite these lemmas.                 *)
(***************************************************************************)
EXTENDS RestClient, TLAPS

BreakerOK ==
    /\ failures \in [Ops -> Nat]
    /\ until \in [Ops -> Deadline]
    /\ halfOpen \subseteq Ops
    /\ rotating \in BOOLEAN
    /\ HalfOpenIsExpired
    /\ OpensAtThreshold

\* Everything else the type invariant speaks of.
RestOK ==
    /\ pause \in [Classes -> Pause]
    /\ proxy \in Routes
    /\ call \in [Calls -> Call]
    /\ discovering \in BOOLEAN /\ wentDirect \in BOOLEAN

IInv == BreakerOK /\ RestOK

-----------------------------------------------------------------------------
(* The tables of the breaker.                                              *)

\* A failure that does not open the circuit leaves its deadline alone, and the
\* operation was not half-open; one that opens it takes the probe away.
LEMMA FailureKeepsBreaker ==
    ASSUME BreakerOK, NEW op \in Ops, RecordFailure(op)
    PROVE  BreakerOK'
<1>1. Threshold \in [Ops -> Nat \ {0}]
  BY ConstantsAssumption
<1> DEFINE opens == op \in halfOpen \/ failures[op] + 1 >= Threshold[op]
<1>2. failures' = [failures EXCEPT ![op] = IF opens THEN 0 ELSE @ + 1]
  BY DEF RecordFailure
<1>3. until' = [until EXCEPT ![op] = IF opens THEN "running" ELSE @]
  BY DEF RecordFailure
<1>4. halfOpen' = halfOpen \ {op} /\ rotating' = (rotating \/ op \in halfOpen)
  BY DEF RecordFailure
<1>5. failures' \in [Ops -> Nat] /\ until' \in [Ops -> Deadline]
  BY <1>2, <1>3 DEF BreakerOK, Deadline
<1>6. halfOpen' \subseteq Ops /\ rotating' \in BOOLEAN
  BY <1>4 DEF BreakerOK
<1>7. HalfOpenIsExpired'
  <2> SUFFICES ASSUME NEW o \in halfOpen' PROVE until'[o] = "over"
    BY DEF HalfOpenIsExpired
  <2>1. o # op /\ o \in halfOpen
    BY <1>4
  <2> QED
    BY <2>1, <1>3 DEF BreakerOK, HalfOpenIsExpired
<1>8. OpensAtThreshold'
  <2> SUFFICES ASSUME NEW o \in Ops PROVE failures'[o] < Threshold[o]
    BY DEF OpensAtThreshold
  <2>1. CASE o = op /\ opens
    BY <2>1, <1>1, <1>2 DEF BreakerOK
  <2>2. CASE o = op /\ ~opens
    BY <2>2, <1>1, <1>2 DEF BreakerOK
  <2>3. CASE o # op
    BY <2>3, <1>2 DEF BreakerOK, OpensAtThreshold
  <2> QED
    BY <2>1, <2>2, <2>3
<1> QED
  BY <1>5, <1>6, <1>7, <1>8 DEF BreakerOK

LEMMA SuccessKeepsBreaker ==
    ASSUME BreakerOK, NEW op \in Ops, RecordSuccess(op)
    PROVE  BreakerOK'
<1>1. Threshold \in [Ops -> Nat \ {0}]
  BY ConstantsAssumption
<1>2. failures' \in [Ops -> Nat] /\ until' \in [Ops -> Deadline]
  BY DEF RecordSuccess, BreakerOK, Deadline
<1>3. HalfOpenIsExpired'
  BY DEF RecordSuccess, BreakerOK, HalfOpenIsExpired
<1>4. OpensAtThreshold'
  <2> SUFFICES ASSUME NEW o \in Ops PROVE failures'[o] < Threshold[o]
    BY DEF OpensAtThreshold
  <2>1. failures' = [failures EXCEPT ![op] = 0]
    BY DEF RecordSuccess
  <2>2. failures'[o] = IF o = op THEN 0 ELSE failures[o]
    BY <2>1 DEF BreakerOK
  <2>3. Threshold[o] \in Nat /\ Threshold[o] > 0
    BY <1>1
  <2> QED
    BY <2>2, <2>3 DEF BreakerOK, OpensAtThreshold
<1> QED
  BY <1>2, <1>3, <1>4 DEF RecordSuccess, BreakerOK

LEMMA StutterKeepsBreaker ==
    ASSUME BreakerOK, UNCHANGED breaker
    PROVE  BreakerOK'
  BY DEF BreakerOK, breaker, HalfOpenIsExpired, OpensAtThreshold

\* Only an expired circuit becomes half-open.
LEMMA AdmissionKeepsBreaker ==
    ASSUME BreakerOK, RestOK, NEW c \in Calls, Admitted(c)
    PROVE  BreakerOK'
<1>1. call[c].op \in Ops
  BY DEF RestOK, Call
<1>2. halfOpen' \subseteq halfOpen \union {call[c].op}
  BY DEF Admitted
<1>3. call[c].op \in halfOpen' => call[c].op \in halfOpen \/ until[call[c].op] = "over"
  BY DEF Admitted
<1>4. UNCHANGED <<failures, until, rotating>>
  BY DEF Admitted
<1>5. HalfOpenIsExpired'
  BY <1>2, <1>3, <1>4 DEF BreakerOK, HalfOpenIsExpired
<1> QED
  BY <1>1, <1>2, <1>4, <1>5 DEF BreakerOK, OpensAtThreshold

LEMMA ExpiryKeepsBreaker ==
    ASSUME BreakerOK, NEW op \in Ops, CircuitElapses(op)
    PROVE  BreakerOK'
<1>1. until' \in [Ops -> Deadline]
  BY DEF CircuitElapses, BreakerOK, Deadline
<1>2. HalfOpenIsExpired'
  BY DEF CircuitElapses, BreakerOK, HalfOpenIsExpired
<1> QED
  BY <1>1, <1>2 DEF CircuitElapses, BreakerOK, OpensAtThreshold

-----------------------------------------------------------------------------
(* The record of a call.                                                   *)

LEMMA NoCallType == NoCall \in Call
<1>1. (CHOOSE op \in Ops : TRUE) \in Ops
  BY ConstantsAssumption
<1> QED
  BY <1>1 DEF NoCall, Call, Stage, Attempts, Causes, Routes

LEMMA GotoType ==
    ASSUME RestOK, NEW c \in Calls, NEW stage \in Stage, Goto(c, stage)
    PROVE  call' \in [Calls -> Call]
<1>1. [call[c] EXCEPT !.at = stage] \in Call
  BY DEF RestOK, Call
<1>2. call' = [call EXCEPT ![c] = [call[c] EXCEPT !.at = stage]]
  BY DEF Goto
<1> QED
  BY <1>1, <1>2 DEF RestOK

LEMMA FailAsType ==
    ASSUME RestOK, NEW c \in Calls, NEW why \in Causes, FailAs(c, why)
    PROVE  call' \in [Calls -> Call]
<1>1. [call[c] EXCEPT !.at = "failed", !.why = why] \in Call
  BY DEF RestOK, Call, Stage
<1>2. call' = [call EXCEPT ![c] = [call[c] EXCEPT !.at = "failed", !.why = why]]
  BY DEF FailAs
<1> QED
  BY <1>1, <1>2 DEF RestOK

LEMMA ReturnType ==
    ASSUME RestOK, NEW c \in Calls, Return(c)
    PROVE  call' \in [Calls -> Call]
  BY NoCallType DEF RestOK, Return

LEMMA FailoverType ==
    ASSUME RestOK, TryFailover
    PROVE  proxy' \in Routes /\ discovering' \in BOOLEAN
  BY DEF TryFailover, Routes, RestOK

LEMMA LongerType ==
    ASSUME NEW a \in Pause, NEW b \in Pause
    PROVE  Longer(a, b) \in Pause
  BY DEF Longer, Pause

-----------------------------------------------------------------------------
(* The actions.                                                            *)

LEMMA BeginKeeps ==
    ASSUME IInv, NEW c \in Calls, NEW op \in Ops, Begin(c, op)
    PROVE  IInv'
<1>1. [NoCall EXCEPT !.at = "enter", !.op = op] \in Call
  BY NoCallType DEF Call, Stage
<1>2. call' \in [Calls -> Call]
  BY <1>1 DEF Begin, IInv, RestOK
<1>3. BreakerOK'
  BY StutterKeepsBreaker DEF Begin, IInv
<1> QED
  BY <1>2, <1>3 DEF Begin, IInv, RestOK

LEMMA PrepareStageKeeps ==
    ASSUME IInv, NEW c \in Calls,
           Refused(c) \/ Prepare(c) \/ Wake(c) \/ Send(c)
    PROVE  IInv'
<1>1. UNCHANGED <<breaker, proxy, discovering, wentDirect>>
  BY DEF Refused, Prepare, Wake, Send
<1>2. BreakerOK'
  BY <1>1, StutterKeepsBreaker DEF IInv
<1>3. call' \in [Calls -> Call]
  <2>1. \/ FailAs(c, "refused") \/ FailAs(c, "other")
        \/ Goto(c, "budget") \/ Goto(c, "sleep") \/ Goto(c, "request")
    <3>1. Class(c) \in Classes
      BY ConstantsAssumption DEF Class, IInv, RestOK, Call
    <3>2. pause[Class(c)] \in {"none", "short", "long"}
      BY <3>1 DEF IInv, RestOK, Pause
    <3>3. CASE Refused(c)
      BY <3>3 DEF Refused
    <3>4. CASE Prepare(c)
      BY <3>2, <3>4 DEF Prepare
    <3>5. CASE Wake(c)
      BY <3>5 DEF Wake
    <3>6. CASE Send(c)
      BY <3>6 DEF Send
    <3> QED
      BY <3>3, <3>4, <3>5, <3>6
  <2>2. /\ "refused" \in Causes /\ "other" \in Causes
        /\ {"budget", "sleep", "request"} \subseteq Stage
    BY DEF Causes, Stage
  <2> QED
    BY <2>1, <2>2, FailAsType, GotoType DEF IInv
<1>4. pause' \in [Classes -> Pause]
  <2>1. pause' = pause \/ pause' = [pause EXCEPT !["limited"] = "none"]
    BY DEF Refused, Prepare, Wake, Send
  <2> QED
    BY <2>1 DEF IInv, RestOK, Pause
<1> QED
  BY <1>1, <1>2, <1>3, <1>4 DEF IInv, RestOK

LEMMA AdmittedKeeps ==
    ASSUME IInv, NEW c \in Calls, Admitted(c)
    PROVE  IInv'
<1>1. BreakerOK'
  BY AdmissionKeepsBreaker DEF IInv
<1>2. \E probe \in BOOLEAN :
        call' = [call EXCEPT ![c] = [call[c] EXCEPT !.at = "prepare", !.probe = probe]]
  BY DEF Admitted, IInv, RestOK, Call
<1>3. \A probe \in BOOLEAN :
        [call[c] EXCEPT !.at = "prepare", !.probe = probe] \in Call
  BY DEF IInv, RestOK, Call, Stage
<1>4. call' \in [Calls -> Call]
  BY <1>2, <1>3 DEF IInv, RestOK
<1> QED
  BY <1>1, <1>4 DEF Admitted, IInv, RestOK

LEMMA ResponseKeeps ==
    ASSUME IInv, NEW c \in Calls,
           \/ ResponseOk(c)
           \/ \E why \in Causes : ResponseFails(c, why)
           \/ ResponseBroken(c)
    PROVE  IInv'
<1>1. call[c].op \in Ops
  BY DEF IInv, RestOK, Call
<1>2. CASE ResponseOk(c)
  <2>1. BreakerOK'
    BY <1>1, <1>2, SuccessKeepsBreaker DEF ResponseOk, IInv
  <2>2. call' \in [Calls -> Call]
    BY <1>2, ReturnType DEF ResponseOk, IInv
  <2> QED
    BY <1>2, <2>1, <2>2 DEF ResponseOk, IInv, RestOK
<1>3. ASSUME NEW why \in Causes, ResponseFails(c, why) PROVE IInv'
  <2>1. BreakerOK'
    BY <1>1, <1>3, FailureKeepsBreaker DEF ResponseFails, IInv
  <2>2. call' \in [Calls -> Call]
    BY <1>3, FailAsType DEF ResponseFails, IInv
  <2> QED
    BY <1>3, <2>1, <2>2 DEF ResponseFails, IInv, RestOK
<1>4. CASE ResponseBroken(c)
  <2>1. BreakerOK'
    BY <1>4, StutterKeepsBreaker DEF ResponseBroken, IInv
  <2>2. "transport" \in Causes
    BY DEF Causes
  <2>3. call' \in [Calls -> Call]
    BY <1>4, <2>2, FailAsType DEF ResponseBroken, IInv
  <2> QED
    BY <1>4, <2>1, <2>3 DEF ResponseBroken, IInv, RestOK
<1> QED
  BY <1>2, <1>3, <1>4

LEMMA BannedKeeps ==
    ASSUME IInv, NEW c \in Calls, NEW retryAfter \in Pause,
           ResponseBanned(c, retryAfter)
    PROVE  IInv'
<1>1. call[c].op \in Ops
  BY DEF IInv, RestOK, Call
<1>2. BreakerOK'
  BY <1>1, FailureKeepsBreaker DEF ResponseBanned, IInv
<1>3. "banned" \in Causes
  BY DEF Causes
<1>4. call' \in [Calls -> Call]
  BY <1>3, FailAsType DEF ResponseBanned, IInv
<1>5. pause' \in [Classes -> Pause]
  <2>1. \A k \in Classes : pause[k] \in Pause /\ Longer(pause[k], retryAfter) \in Pause
    BY LongerType DEF IInv, RestOK
  <2>2. "long" \in Pause
    BY DEF Pause
  <2> QED
    BY <2>1, <2>2 DEF ResponseBanned
<1> QED
  BY <1>2, <1>4, <1>5 DEF ResponseBanned, IInv, RestOK

LEMMA LimitedKeeps ==
    ASSUME IInv, NEW c \in Calls, NEW retryAfter \in Pause,
           ResponseLimited(c, retryAfter)
    PROVE  IInv'
<1>1. call[c].op \in Ops
  BY DEF IInv, RestOK, Call
<1>2. BreakerOK'
  BY <1>1, FailureKeepsBreaker DEF ResponseLimited, IInv
<1>3. "other" \in Causes
  BY DEF Causes
<1>4. call' \in [Calls -> Call]
  BY <1>3, FailAsType DEF ResponseLimited, IInv
<1>5. pause' \in [Classes -> Pause]
  <2>1. "long" \in Pause /\ "short" \in Pause
    BY DEF Pause
  <2>2. \A k \in Classes : Longer(pause[k], Longer("short", retryAfter)) \in Pause
    BY <2>1, LongerType DEF IInv, RestOK
  <2>3. Class(c) \in Classes
    BY <1>1, ConstantsAssumption DEF Class
  <2> DEFINE longer == IF Class(c) = "general" THEN "long"
                       ELSE Longer(pause[Class(c)], Longer("short", retryAfter))
  <2>4. longer \in Pause
    BY <2>1, <2>2, <2>3
  <2>5. pause' = [pause EXCEPT ![Class(c)] = longer]
    BY DEF ResponseLimited
  <2> HIDE DEF longer
  <2> QED
    BY <2>4, <2>5 DEF IInv, RestOK
<1>6. proxy' \in Routes /\ discovering' \in BOOLEAN
  BY FailoverType DEF ResponseLimited, IInv
<1> QED
  BY <1>2, <1>4, <1>5, <1>6 DEF ResponseLimited, IInv, RestOK

\* The ladder of fallbacks, but for the direct attempt's end.
LEMMA LadderKeeps ==
    ASSUME IInv, NEW c \in Calls, Rotate(c) \/ FallBack(c) \/ SwitchProxy(c)
    PROVE  IInv'
<1>1. BreakerOK'
  BY StutterKeepsBreaker DEF Rotate, FallBack, SwitchProxy, IInv
<1>2. CASE FallBack(c)
  <2> DEFINE broken == call[c].why = "transport"
             x == [call[c] EXCEPT !.at = "enter", !.try = "direct", !.old = proxy,
                                  !.broken = broken]
  <2>1. x \in Call
    BY DEF IInv, RestOK, Call, Stage, Attempts
  <2>2. call' = [call EXCEPT ![c] = x]
    BY <1>2 DEF FallBack
  <2> HIDE DEF x
  <2>3. call' \in [Calls -> Call]
    BY <2>1, <2>2 DEF IInv, RestOK
  <2>4. proxy' \in Routes
    BY <1>2 DEF FallBack, Routes
  <2>5. Discovers(c) \in BOOLEAN
    BY DEF Discovers
  <2> QED
    BY <1>1, <1>2, <2>3, <2>4, <2>5 DEF FallBack, IInv, RestOK
<1>3. CASE SwitchProxy(c)
  <2>1. [call[c] EXCEPT !.at = "enter", !.try = "switched"] \in Call
    BY DEF IInv, RestOK, Call, Stage, Attempts
  <2>2. call' = [call EXCEPT ![c] = [call[c] EXCEPT !.at = "enter", !.try = "switched"]]
    BY <1>3 DEF SwitchProxy
  <2>3. call' \in [Calls -> Call]
    BY <2>1, <2>2 DEF IInv, RestOK
  <2>4. proxy' \in Routes
    BY <1>3 DEF SwitchProxy, Routes
  <2>5. pause' \in [Classes -> Pause]
    BY <1>3 DEF SwitchProxy, Pause
  <2> QED
    BY <1>1, <1>3, <2>3, <2>4, <2>5 DEF SwitchProxy, IInv, RestOK
<1>4. CASE Rotate(c)
  <2>1. call' \in [Calls -> Call]
    BY <1>4, GotoType DEF Rotate, Stage, IInv
  <2>2. proxy' \in Routes /\ discovering' \in BOOLEAN
    BY <1>4, FailoverType DEF Rotate, IInv
  <2> QED
    BY <1>1, <1>4, <2>1, <2>2 DEF Rotate, IInv, RestOK
<1> QED
  BY <1>2, <1>3, <1>4

LEMMA EndKeeps ==
    ASSUME IInv, NEW c \in Calls,
           Restore(c) \/ GiveUp(c) \/ Escape(c) \/ Cancelled(c) \/ CancelledFallback(c)
    PROVE  IInv'
<1>1. call[c].op \in Ops /\ call[c].old \in Routes
  BY DEF IInv, RestOK, Call
<1>2. Return(c)
  BY DEF Restore, GiveUp, Escape, Cancelled, CancelledFallback
<1>3. call' \in [Calls -> Call]
  BY <1>2, ReturnType DEF IInv
<1>4. RecordFailure(call[c].op) \/ UNCHANGED breaker
  BY DEF Restore, GiveUp, Escape, Cancelled, CancelledFallback, breaker
<1>5. BreakerOK'
  BY <1>1, <1>4, FailureKeepsBreaker, StutterKeepsBreaker DEF IInv
<1>6. proxy' \in Routes
  BY <1>1 DEF Restore, GiveUp, Escape, Cancelled, CancelledFallback, Routes, IInv, RestOK
<1>7. UNCHANGED <<pause, wentDirect>>
  BY DEF Restore, GiveUp, Escape, Cancelled, CancelledFallback
<1>8. discovering' \in BOOLEAN
  BY DEF Restore, GiveUp, Escape, Cancelled, CancelledFallback, Discovers, IInv, RestOK
<1> QED
  BY <1>3, <1>5, <1>6, <1>7, <1>8 DEF IInv, RestOK

LEMMA BackgroundKeeps ==
    ASSUME IInv,
           \/ \E op \in Ops : CircuitElapses(op)
           \/ \E k \in Classes : PauseElapses(k)
           \/ FailoverTask \/ DiscoveryEnds
    PROVE  IInv'
<1>1. ASSUME NEW op \in Ops, CircuitElapses(op) PROVE IInv'
  <2>1. BreakerOK'
    BY <1>1, ExpiryKeepsBreaker DEF IInv
  <2> QED
    BY <1>1, <2>1 DEF CircuitElapses, IInv, RestOK
<1>2. ASSUME NEW k \in Classes, PauseElapses(k) PROVE IInv'
  <2>1. BreakerOK'
    BY <1>2, StutterKeepsBreaker DEF PauseElapses, IInv
  <2>2. pause' \in [Classes -> Pause]
    BY <1>2 DEF PauseElapses, IInv, RestOK, Pause
  <2> QED
    BY <1>2, <2>1, <2>2 DEF PauseElapses, IInv, RestOK
<1>3. CASE FailoverTask
  <2>1. BreakerOK'
    BY <1>3 DEF FailoverTask, IInv, BreakerOK, HalfOpenIsExpired, OpensAtThreshold
  <2>2. proxy' \in Routes /\ discovering' \in BOOLEAN
    BY <1>3, FailoverType DEF FailoverTask, IInv
  <2> QED
    BY <1>3, <2>1, <2>2 DEF FailoverTask, IInv, RestOK
<1>4. CASE DiscoveryEnds
  <2>1. BreakerOK'
    BY <1>4, StutterKeepsBreaker DEF DiscoveryEnds, IInv
  <2>2. proxy' \in Routes /\ pause' \in [Classes -> Pause]
    BY <1>4 DEF DiscoveryEnds, Routes, Pause, IInv, RestOK
  <2> QED
    BY <1>4, <2>1, <2>2 DEF DiscoveryEnds, IInv, RestOK
<1> QED
  BY <1>1, <1>2, <1>3, <1>4

-----------------------------------------------------------------------------
(* The theorems.                                                           *)

LEMMA InitIInv == Init => IInv
<1> SUFFICES ASSUME Init PROVE IInv
  OBVIOUS
<1>1. Threshold \in [Ops -> Nat \ {0}] /\ StartProxy \in Routes
  BY ConstantsAssumption DEF Routes
<1>2. BreakerOK
  <2>1. OpensAtThreshold
    <3> SUFFICES ASSUME NEW op \in Ops PROVE failures[op] < Threshold[op]
      BY DEF OpensAtThreshold
    <3>1. failures[op] = 0
      BY DEF Init
    <3>2. Threshold[op] \in Nat /\ Threshold[op] > 0
      BY <1>1
    <3> QED
      BY <3>1, <3>2
  <2>2. HalfOpenIsExpired /\ halfOpen \subseteq Ops /\ rotating \in BOOLEAN
    BY DEF Init, HalfOpenIsExpired
  <2>3. failures \in [Ops -> Nat] /\ until \in [Ops -> Deadline]
    BY DEF Init, Deadline
  <2> QED
    BY <2>1, <2>2, <2>3 DEF BreakerOK
<1>3. call \in [Calls -> Call]
  BY NoCallType DEF Init
<1>4. pause \in [Classes -> Pause]
  BY DEF Init, Pause
<1>5. proxy \in Routes
  BY <1>1 DEF Init
<1>6. discovering \in BOOLEAN /\ wentDirect \in BOOLEAN
  BY DEF Init
<1> QED
  BY <1>2, <1>3, <1>4, <1>5, <1>6 DEF IInv, RestOK

LEMMA NextIInv == IInv /\ [Next]_vars => IInv'
<1> SUFFICES ASSUME IInv, [Next]_vars PROVE IInv'
  OBVIOUS
<1>1. ASSUME NEW c \in Calls, NEW op \in Ops, Begin(c, op) PROVE IInv'
  BY <1>1, BeginKeeps
<1>2. ASSUME NEW c \in Calls, CallStep(c) PROVE IInv'
  <2>1. CASE Refused(c) \/ Prepare(c) \/ Wake(c) \/ Send(c)
    BY <2>1, PrepareStageKeeps
  <2>2. CASE Admitted(c)
    BY <2>2, AdmittedKeeps
  <2>3. CASE \/ ResponseOk(c) \/ ResponseBroken(c)
             \/ \E why \in Causes : ResponseFails(c, why)
    BY <2>3, ResponseKeeps
  <2>4. ASSUME NEW retryAfter \in Pause,
               ResponseBanned(c, retryAfter) \/ ResponseLimited(c, retryAfter)
        PROVE IInv'
    BY <2>4, BannedKeeps, LimitedKeeps
  <2>5. CASE Rotate(c) \/ FallBack(c) \/ SwitchProxy(c)
    BY <2>5, LadderKeeps
  <2>6. CASE GiveUp(c) \/ Escape(c) \/ Restore(c)
    BY <2>6, EndKeeps
  <2> QED
    BY <1>2, <2>1, <2>2, <2>3, <2>4, <2>5, <2>6 DEF CallStep
<1>3. ASSUME NEW c \in Calls, Cancelled(c) \/ CancelledFallback(c) PROVE IInv'
  BY <1>3, EndKeeps
<1>4. CASE \/ \E op \in Ops : CircuitElapses(op)
           \/ \E k \in Classes : PauseElapses(k)
           \/ FailoverTask \/ DiscoveryEnds
  BY <1>4, BackgroundKeeps
<1>5. CASE UNCHANGED vars
  BY <1>5, StutterKeepsBreaker DEF vars, breaker, IInv, RestOK
<1>6. CASE Next
  <2>1. \/ \E c \in Calls : \E op \in Ops : Begin(c, op)
        \/ \E c \in Calls : CallStep(c)
        \/ \E c \in Calls : Cancelled(c) \/ CancelledFallback(c)
        \/ \/ \E op \in Ops : CircuitElapses(op)
           \/ \E k \in Classes : PauseElapses(k)
           \/ FailoverTask \/ DiscoveryEnds
    BY <1>6 DEF Next
  <2> QED
    BY <2>1, <1>1, <1>2, <1>3, <1>4
<1> QED
  BY <1>5, <1>6

LEMMA Invariance == Spec => []IInv
  BY InitIInv, NextIInv, PTL DEF Spec

\* Every variable keeps its type, the failure counters included.
THEOREM TypeCorrect == Spec => []TypeOK
<1>1. IInv => TypeOK
  BY DEF IInv, BreakerOK, RestOK, TypeOK
<1> QED
  BY <1>1, Invariance, PTL

\* _record_circuit_failure and _record_circuit_success together keep the probe
\* token from outliving a deadline that has been set again.
THEOREM HalfOpenOnlyExpired == Spec => []HalfOpenIsExpired
<1>1. IInv => HalfOpenIsExpired
  BY DEF IInv, BreakerOK
<1> QED
  BY <1>1, Invariance, PTL

\* However many calls are under way, no failure is counted beyond the threshold.
THEOREM NeverBeyondThreshold == Spec => []OpensAtThreshold
<1>1. IInv => OpensAtThreshold
  BY DEF IInv, BreakerOK
<1> QED
  BY <1>1, Invariance, PTL

-----------------------------------------------------------------------------
(* The ladder of fallbacks.  A step changes the record of one call only, and *)
(* an attempt that has failed is left by the fallbacks and by the returns.   *)

\* An attempt that is over and waits for a fallback or the return.
Ended(c) == call[c].at \in {"failed", "rotated"}

Descends(c) ==
    \/ call'[c].at = "idle"
    \/ At(c, "failed") /\ call'[c] = [call[c] EXCEPT !.at = "rotated"]
    \/ call'[c].op = call[c].op /\ Rung[call'[c].try] > Rung[call[c].try]

LEMMA LadderDescends ==
    ASSUME IInv, NEW c \in Calls, Ended(c), NEW d \in Calls,
           Rotate(d) \/ FallBack(d) \/ SwitchProxy(d), call'[c] # call[c]
    PROVE  Descends(c)
<1>1. CASE FallBack(d)
  <2> DEFINE x == [call[d] EXCEPT !.at = "enter", !.try = "direct", !.old = proxy,
                                  !.broken = call[d].why = "transport"]
  <2>1. call' = [call EXCEPT ![d] = x]
    BY <1>1 DEF FallBack
  <2>2. x.op = call[d].op /\ x.try = "direct"
    BY DEF IInv, RestOK, Call
  <2> HIDE DEF x
  <2>3. d = c
    BY <2>1 DEF IInv, RestOK
  <2>4. call'[c].op = call[c].op /\ call'[c].try = "direct"
    BY <2>1, <2>2, <2>3 DEF IInv, RestOK
  <2>5. call[c].try \in {"first", "switched"}
    BY <1>1, <2>3 DEF FallBack, Exhausted, IInv, RestOK, Call, Attempts
  <2> QED
    BY <2>4, <2>5 DEF Rung, Descends
<1>2. CASE SwitchProxy(d)
  <2>1. call' = [call EXCEPT ![d] = [call[d] EXCEPT !.at = "enter", !.try = "switched"]]
    BY <1>2 DEF SwitchProxy
  <2>2. d = c
    BY <2>1 DEF IInv, RestOK
  <2>3. call'[c].op = call[c].op /\ call'[c].try = "switched"
    BY <2>1, <2>2 DEF IInv, RestOK, Call
  <2>4. call[c].try = "first"
    BY <1>2, <2>2 DEF SwitchProxy
  <2> QED
    BY <2>3, <2>4 DEF Rung, Descends
<1>3. CASE Rotate(d)
  <2>1. call' = [call EXCEPT ![d] = [call[d] EXCEPT !.at = "rotated"]] /\ At(d, "failed")
    BY <1>3 DEF Rotate, Goto
  <2>2. d = c
    BY <2>1 DEF IInv, RestOK
  <2> QED
    BY <2>1, <2>2 DEF IInv, RestOK, Descends
<1> QED
  BY <1>1, <1>2, <1>3

LEMMA ReturnEnds ==
    ASSUME IInv, NEW c \in Calls, NEW d \in Calls, Return(d), call'[c] # call[c]
    PROVE  call'[c].at = "idle"
  BY DEF Return, IInv, RestOK, NoCall

LEMMA OnlyOneRecord ==
    ASSUME IInv, NEW d \in Calls, NEW c \in Calls, c # d,
           (\E stage \in Stage : Goto(d, stage)) \/ (\E why \in Causes : FailAs(d, why))
    PROVE  call'[c] = call[c]
  BY DEF Goto, FailAs, IInv, RestOK

\* Until it fails, an attempt is in a stage of its own, and other calls stay put.
LEMMA AttemptSparesFailed ==
    ASSUME IInv, NEW c \in Calls, Ended(c), NEW d \in Calls,
           \/ Refused(d) \/ Admitted(d) \/ Prepare(d) \/ Wake(d) \/ Send(d)
           \/ ResponseBroken(d)
           \/ \E why \in Causes : ResponseFails(d, why)
           \/ \E retryAfter \in Pause : ResponseBanned(d, retryAfter)
           \/ \E retryAfter \in Pause : ResponseLimited(d, retryAfter)
    PROVE  call'[c] = call[c]
<1>1. call[d].at \notin {"failed", "rotated"}
  <2>1. CASE Refused(d) \/ Admitted(d)
    BY <2>1 DEF Refused, Admitted, At
  <2>2. CASE Prepare(d) \/ Wake(d) \/ Send(d)
    BY <2>2 DEF Prepare, Wake, Send, At
  <2>3. CASE \/ ResponseBroken(d)
             \/ \E why \in Causes : ResponseFails(d, why)
             \/ \E retryAfter \in Pause : ResponseBanned(d, retryAfter)
             \/ \E retryAfter \in Pause : ResponseLimited(d, retryAfter)
    BY <2>3 DEF ResponseBroken, ResponseFails, ResponseBanned, ResponseLimited, Responds, At
  <2> QED
    BY <2>1, <2>2, <2>3
<1>2. d # c
  BY <1>1 DEF Ended
<1>3. {"sleep", "budget", "request"} \subseteq Stage
  BY DEF Stage
<1>4. Causes = {"refused", "other", "timeout", "banned", "transport"}
  BY DEF Causes
<1>5. CASE Admitted(d)
  BY <1>2, <1>5 DEF Admitted, IInv, RestOK
<1>6. CASE Refused(d)
  BY <1>2, <1>4, <1>6, OnlyOneRecord DEF Refused
<1>7. CASE Prepare(d)
  <2>1. Class(d) \in Classes
    BY ConstantsAssumption DEF Class, IInv, RestOK, Call
  <2>2. pause[Class(d)] \in {"none", "short", "long"}
    BY <2>1 DEF IInv, RestOK, Pause
  <2>3. Goto(d, "budget") \/ Goto(d, "sleep") \/ FailAs(d, "other")
    BY <1>7, <2>2 DEF Prepare
  <2> QED
    BY <1>2, <1>3, <1>4, <2>3, OnlyOneRecord
<1>8. CASE Wake(d) \/ Send(d)
  BY <1>2, <1>3, <1>8, OnlyOneRecord DEF Wake, Send
<1>9. CASE ResponseBroken(d) \/ \E why \in Causes : ResponseFails(d, why)
  BY <1>2, <1>4, <1>9, OnlyOneRecord DEF ResponseBroken, ResponseFails
<1>10. CASE \/ \E retryAfter \in Pause : ResponseBanned(d, retryAfter)
            \/ \E retryAfter \in Pause : ResponseLimited(d, retryAfter)
  BY <1>2, <1>4, <1>10, OnlyOneRecord DEF ResponseBanned, ResponseLimited
<1> QED
  BY <1>5, <1>6, <1>7, <1>8, <1>9, <1>10

LEMMA EndedStep ==
    ASSUME IInv, Next, NEW c \in Calls, Ended(c), call'[c] # call[c]
    PROVE  Descends(c)
<1>1. ASSUME NEW d \in Calls, NEW op \in Ops, Begin(d, op) PROVE FALSE
  <2>1. d # c
    BY <1>1 DEF Begin, At, Ended
  <2> QED
    BY <1>1, <2>1 DEF Begin, IInv, RestOK
<1>2. ASSUME NEW d \in Calls,
             \/ ResponseOk(d) \/ GiveUp(d) \/ Escape(d) \/ Restore(d)
             \/ Cancelled(d) \/ CancelledFallback(d)
      PROVE  Descends(c)
  <2>1. Return(d)
    BY <1>2 DEF ResponseOk, GiveUp, Escape, Restore, Cancelled, CancelledFallback
  <2> QED
    BY <2>1, ReturnEnds DEF Descends
<1>3. ASSUME NEW d \in Calls, CallStep(d) PROVE Descends(c)
  <2>1. CASE ResponseOk(d) \/ GiveUp(d) \/ Escape(d) \/ Restore(d)
    BY <2>1, <1>2
  <2>2. CASE Rotate(d) \/ FallBack(d) \/ SwitchProxy(d)
    BY <2>2, LadderDescends
  <2>3. CASE \/ Refused(d) \/ Admitted(d) \/ Prepare(d) \/ Wake(d) \/ Send(d)
             \/ ResponseBroken(d)
             \/ \E why \in Causes : ResponseFails(d, why)
             \/ \E retryAfter \in Pause : ResponseBanned(d, retryAfter)
             \/ \E retryAfter \in Pause : ResponseLimited(d, retryAfter)
    BY <2>3, AttemptSparesFailed
  <2> QED
    BY <1>3, <2>1, <2>2, <2>3 DEF CallStep
<1>4. CASE \/ \E op \in Ops : CircuitElapses(op)
           \/ \E k \in Classes : PauseElapses(k)
           \/ FailoverTask \/ DiscoveryEnds
  BY <1>4 DEF CircuitElapses, PauseElapses, FailoverTask, DiscoveryEnds
<1>5. \/ \E d \in Calls : \E op \in Ops : Begin(d, op)
      \/ \E d \in Calls : CallStep(d)
      \/ \E d \in Calls : Cancelled(d) \/ CancelledFallback(d)
      \/ \/ \E op \in Ops : CircuitElapses(op)
         \/ \E k \in Classes : PauseElapses(k)
         \/ FailoverTask \/ DiscoveryEnds
  BY DEF Next
<1> QED
  BY <1>1, <1>2, <1>3, <1>4, <1>5

\* _call_public_http_json ends after its ladder of at most three attempts, whatever
\* the other calls do to the proxy and the circuit meanwhile.
THEOREM BoundedFallbacks == Spec => FallbacksBounded
<1>1. IInv /\ [Next]_vars =>
        [\A c \in Calls : Ended(c) /\ call'[c] # call[c] => Descends(c)]_vars
  BY EndedStep DEF vars
<1> QED
  BY <1>1, Invariance, PTL DEF Spec, FallbacksBounded, Ended, Descends

-----------------------------------------------------------------------------
(* The probe of a half-open circuit, with all faults.  The call that will  *)
(* report is disturbed by its own steps only, and each of them reports,    *)
(* keeps the duty to report, or is one of the named exits.                 *)

LEMMA OneCallMoves ==
    ASSUME IInv, NEW c \in Calls, NEW d \in Calls, c # d,
           \/ CallStep(c) \/ Cancelled(c) \/ CancelledFallback(c)
           \/ \E op \in Ops : Begin(c, op)
    PROVE  call'[d] = call[d]
<1>1. CASE \/ ResponseOk(c) \/ GiveUp(c) \/ Escape(c) \/ Restore(c)
           \/ Cancelled(c) \/ CancelledFallback(c)
  <2>1. Return(c)
    BY <1>1 DEF ResponseOk, GiveUp, Escape, Restore, Cancelled, CancelledFallback
  <2> QED
    BY <2>1 DEF Return, IInv, RestOK
<1>2. CASE (\E op \in Ops : Begin(c, op)) \/ Admitted(c)
  BY <1>2 DEF Begin, Admitted, IInv, RestOK
<1>3. CASE \/ Refused(c) \/ Wake(c) \/ Send(c) \/ Rotate(c)
           \/ ResponseBroken(c) \/ \E why \in Causes : ResponseFails(c, why)
           \/ \E retryAfter \in Pause : ResponseBanned(c, retryAfter)
           \/ \E retryAfter \in Pause : ResponseLimited(c, retryAfter)
  <2>1. (\E stage \in Stage : Goto(c, stage)) \/ (\E why \in Causes : FailAs(c, why))
    BY <1>3 DEF Refused, Wake, Send, Rotate, ResponseBroken, ResponseFails,
                ResponseBanned, ResponseLimited, Stage, Causes
  <2> QED
    BY <2>1, OnlyOneRecord
<1>4. CASE Prepare(c)
  <2>1. Class(c) \in Classes
    BY ConstantsAssumption DEF Class, IInv, RestOK, Call
  <2>2. pause[Class(c)] \in {"none", "short", "long"}
    BY <2>1 DEF IInv, RestOK, Pause
  <2>3. Goto(c, "budget") \/ Goto(c, "sleep") \/ FailAs(c, "other")
    BY <1>4, <2>2 DEF Prepare
  <2> QED
    BY <2>3, OnlyOneRecord DEF Stage, Causes
<1>5. CASE FallBack(c) \/ SwitchProxy(c)
  BY <1>5 DEF FallBack, SwitchProxy, IInv, RestOK
<1> QED
  BY <1>1, <1>2, <1>3, <1>4, <1>5 DEF CallStep

\* Only the question about an expired circuit makes it half-open, and the call that
\* asked is let through.
LEMMA OnlyAdmissionProbes ==
    ASSUME IInv, Next, NEW op \in halfOpen', op \notin halfOpen
    PROVE  Probed(op)'
<1>1. \E c \in Calls : Admitted(c)
  <2>1. ASSUME NEW c \in Calls, CallStep(c), ~Admitted(c) PROVE halfOpen' \subseteq halfOpen
    BY <2>1 DEF CallStep, Refused, Prepare, Wake, Send, ResponseOk, ResponseBroken,
                ResponseFails, ResponseBanned, ResponseLimited, Rotate, FallBack,
                SwitchProxy, GiveUp, Escape, Restore, RecordFailure, RecordSuccess, breaker
  <2>2. ASSUME NEW c \in Calls,
               Cancelled(c) \/ CancelledFallback(c) \/ \E o \in Ops : Begin(c, o)
        PROVE  halfOpen' = halfOpen
    BY <2>2 DEF Cancelled, CancelledFallback, Begin, breaker
  <2>3. CASE \/ \E o \in Ops : CircuitElapses(o)
             \/ \E k \in Classes : PauseElapses(k)
             \/ FailoverTask \/ DiscoveryEnds
    BY <2>3 DEF CircuitElapses, PauseElapses, FailoverTask, DiscoveryEnds, breaker
  <2> QED
    BY <2>1, <2>2, <2>3 DEF Next
<1>2. PICK c \in Calls : Admitted(c)
  BY <1>1
<1>3. until[call[c].op] = "over" /\ op = call[c].op
  BY <1>2 DEF Admitted
<1> DEFINE x == [call[c] EXCEPT !.at = "prepare", !.probe = TRUE]
<1>4. call' = [call EXCEPT ![c] = x]
  BY <1>2, <1>3 DEF Admitted, IInv, RestOK, Call
<1>5. x.at = "prepare" /\ x.op = op /\ x.probe
  BY <1>3 DEF IInv, RestOK, Call
<1> HIDE DEF x
<1>6. call'[c].at = "prepare" /\ call'[c].op = op /\ call'[c].probe
  BY <1>4, <1>5 DEF IInv, RestOK
<1> QED
  BY <1>6 DEF Probed, WillReport

LEMMA StillReports ==
    ASSUME IInv, NEW c \in Calls, NEW op, NEW x, call' = [call EXCEPT ![c] = x],
           x.op = op, x.probe,
           \/ x.at \in {"prepare", "sleep", "budget", "request"}
           \/ x.at \in {"failed", "rotated"} /\ x.why = "transport"
           \/ x.at # "idle" /\ x.try = "direct" /\ x.broken
    PROVE  WillReport(c, op)'
<1>1. call'[c] = x
  BY DEF IInv, RestOK
<1> QED
  BY <1>1 DEF WillReport

LEMMA ProbeStep ==
    ASSUME IInv, NEW c \in Calls, NEW op \in halfOpen', WillReport(c, op),
           CallStep(c), ~LeavesUnrecorded(c)
    PROVE  WillReport(c, op)'
<1>1. call[c] \in Call /\ call[c].op = op /\ call[c].probe /\ call \in [Calls -> Call]
  BY DEF WillReport, IInv, RestOK
<1>2. ASSUME NEW stage \in Stage \ {"idle"}, Goto(c, stage),
             \/ stage \in {"prepare", "sleep", "budget", "request"}
             \/ call[c].at = "failed" /\ stage = "rotated"
      PROVE  WillReport(c, op)'
  <2> DEFINE x == [call[c] EXCEPT !.at = stage]
  <2>1. /\ x.at = stage /\ x.op = call[c].op /\ x.probe = call[c].probe
        /\ x.why = call[c].why /\ x.try = call[c].try /\ x.broken = call[c].broken
    BY <1>1 DEF Call
  <2>2. call' = [call EXCEPT ![c] = x]
    BY <1>2 DEF Goto
  <2> HIDE DEF x
  <2> QED
    BY <1>1, <1>2, <2>1, <2>2, StillReports DEF WillReport
<1>3. ASSUME NEW why \in Causes, FailAs(c, why),
             why = "transport" \/ call[c].at = "enter"
      PROVE  WillReport(c, op)'
  <2> DEFINE x == [call[c] EXCEPT !.at = "failed", !.why = why]
  <2>1. /\ x.at = "failed" /\ x.op = call[c].op /\ x.probe = call[c].probe
        /\ x.why = why /\ x.try = call[c].try /\ x.broken = call[c].broken
    BY <1>1 DEF Call
  <2>2. call' = [call EXCEPT ![c] = x]
    BY <1>3 DEF FailAs
  <2> HIDE DEF x
  <2> QED
    BY <1>1, <1>3, <2>1, <2>2, StillReports DEF WillReport
<1>4. CASE Refused(c)
  BY <1>3, <1>4 DEF Refused, At, Causes
<1>5. CASE Admitted(c)
  <2> DEFINE x == [call[c] EXCEPT !.at = "prepare",
                                  !.probe = @ \/ until[call[c].op] = "over"]
  <2>1. x.at = "prepare" /\ x.op = op /\ x.probe
    BY <1>1 DEF Call
  <2>2. call' = [call EXCEPT ![c] = x]
    BY <1>1, <1>5 DEF Admitted
  <2> HIDE DEF x
  <2> QED
    BY <2>1, <2>2, StillReports
<1>6. CASE Prepare(c)
  <2>1. Class(c) \in Classes
    BY <1>1, ConstantsAssumption DEF Class, Call
  <2>2. pause[Class(c)] \in {"none", "short", "long"}
    BY <2>1 DEF IInv, RestOK, Pause
  <2>3. CASE pause[Class(c)] = "long"
    <3>1. FailAs(c, "other")
      BY <1>6, <2>3 DEF Prepare
    <3>2. call'[c].at = "failed"
      BY <1>1, <3>1 DEF FailAs, Call
    <3> QED
      BY <1>6, <2>3, <3>2 DEF LeavesUnrecorded, Prepare
  <2>4. CASE pause[Class(c)] # "long"
    <3>1. Goto(c, "budget") \/ Goto(c, "sleep")
      BY <1>6, <2>2, <2>4 DEF Prepare
    <3> QED
      BY <1>2, <3>1 DEF Stage
  <2> QED
    BY <2>3, <2>4
<1>7. CASE Wake(c) \/ Send(c)
  BY <1>2, <1>7 DEF Wake, Send, Stage
<1>8. ~ResponseOk(c) /\ ~ (\E why \in Causes : ResponseFails(c, why))
  BY <1>1 DEF ResponseOk, ResponseFails, RecordSuccess, RecordFailure
<1>9. /\ ~ \E retryAfter \in Pause : ResponseBanned(c, retryAfter)
      /\ ~ \E retryAfter \in Pause : ResponseLimited(c, retryAfter)
  BY <1>1 DEF ResponseBanned, ResponseLimited, RecordFailure
<1>10. CASE ResponseBroken(c)
  BY <1>3, <1>10 DEF ResponseBroken, Causes
<1>11. CASE Rotate(c)
  BY <1>2, <1>11 DEF Rotate, At, Stage
<1>12. CASE FallBack(c)
  <2> DEFINE x == [call[c] EXCEPT !.at = "enter", !.try = "direct", !.old = proxy,
                                  !.broken = call[c].why = "transport"]
  <2>1. call[c].why = "transport"
    BY <1>12 DEF FallBack, Exhausted, WillReport
  <2>2. x.at = "enter" /\ x.try = "direct" /\ x.broken /\ x.op = op /\ x.probe
    BY <1>1, <2>1 DEF Call
  <2>3. call' = [call EXCEPT ![c] = x]
    BY <1>12 DEF FallBack
  <2> HIDE DEF x
  <2> QED
    BY <2>2, <2>3, StillReports
<1>13. ~SwitchProxy(c)
  BY DEF SwitchProxy, WillReport, At
<1>14. ~GiveUp(c)
  <2>1. GiveUp(c) => call[c].why = "transport"
    BY DEF GiveUp, Exhausted, WillReport
  <2> QED
    BY <1>1, <2>1 DEF GiveUp, RecordFailure
<1>15. ~Escape(c) /\ ~Restore(c)
  BY <1>1 DEF LeavesUnrecorded, Restore, RecordFailure
<1> QED
  BY <1>4, <1>5, <1>6, <1>7, <1>8, <1>9, <1>10, <1>11, <1>12, <1>13, <1>14, <1>15
     DEF CallStep

\* An admitted probe reports to the breaker, with whatever proxies, bans, limits,
\* transport failures and late answers of other calls: a half-open circuit loses it
\* without a record only in a cancellation, in front of a long pause, or when an
\* attempt that repeats an answered one breaks.
THEOREM ProbeLossIsNamed == Spec => ProbeLostUnrecordedOnly
<1> DEFINE Named(op) == \/ Probed(op)'
                        \/ op \in halfOpen /\ ~Probed(op)
                        \/ \E c \in Calls : WillReport(c, op) /\ LeavesUnrecorded(c)
<1>1. ASSUME IInv, Next, NEW op \in halfOpen' PROVE Named(op)
  <2>1. CASE op \notin halfOpen
    BY <1>1, <2>1, OnlyAdmissionProbes
  <2>2. CASE op \in halfOpen /\ Probed(op)
    <3>1. PICK c \in Calls : WillReport(c, op)
      BY <2>2 DEF Probed
    <3>2. CASE LeavesUnrecorded(c)
      BY <3>1, <3>2
    <3>3. CASE ~LeavesUnrecorded(c)
      <4>1. CASE CallStep(c)
        BY <1>1, <3>1, <3>3, <4>1, ProbeStep DEF Probed
      <4>2. CASE call'[c] = call[c]
        BY <3>1, <4>2 DEF Probed, WillReport
      <4>3. CASE \E d \in Calls : /\ d # c
                                  /\ \/ CallStep(d) \/ Cancelled(d) \/ CancelledFallback(d)
                                     \/ \E o \in Ops : Begin(d, o)
        BY <1>1, <4>2, <4>3, OneCallMoves
      <4>4. CASE \/ \E o \in Ops : CircuitElapses(o)
                 \/ \E k \in Classes : PauseElapses(k)
                 \/ FailoverTask \/ DiscoveryEnds
        BY <4>2, <4>4 DEF CircuitElapses, PauseElapses, FailoverTask, DiscoveryEnds
      <4>5. ~ (Cancelled(c) \/ CancelledFallback(c) \/ \E o \in Ops : Begin(c, o))
        BY <3>1, <3>3 DEF LeavesUnrecorded, Begin, At, WillReport
      <4> QED
        BY <1>1, <4>1, <4>3, <4>4, <4>5 DEF Next
    <3> QED
      BY <3>2, <3>3
  <2> QED
    BY <2>1, <2>2
<1>2. IInv /\ [Next]_vars => [\A op \in halfOpen' : Named(op)]_vars
  BY <1>1
<1> QED
  BY <1>2, Invariance, PTL DEF Spec, ProbeLostUnrecordedOnly
=============================================================================
