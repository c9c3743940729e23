----------------------------- MODULE RestClient -----------------------------
(***************************************************************************)
(* A public REST call of the market-data client: the circuit breaker of    *)
(* engine/market/_rest_circuit.py, the pauses after HTTP 418 and 429, and  *)
(* the proxy fallbacks around the attempts of _call_public_http_json in    *)
(* engine/market/rest_impl.py.                                             *)
(*                                                                         *)
(* Calls are asyncio tasks that share the breaker, the pauses and the      *)
(* active proxy; a step of a call ends where the code awaits.  Clocks are  *)
(* abstracted: a deadline is running or over, a pause is long (more than   *)
(* 120 s), short or none, and time moves them along.                       *)
(***************************************************************************)
EXTENDS Naturals, FiniteSets

CONSTANTS
    Calls,          \* concurrent tasks that call the client
    Ops,            \* REST operations
    ClassOf,        \* the pause an operation obeys
    Threshold,      \* failures that open its circuit: 3 if critical, else 15
    Proxies,        \* the proxy pool
    Direct,         \* "no proxy"
    StartProxy,     \* the proxy applied at startup
    Faults          \* the faults of the environment in this instance

Classes == {"general", "limited"}   \* limited: futures-data or funding quota

ASSUME ConstantsAssumption ==
    /\ Ops # {}
    /\ ClassOf \in [Ops -> Classes]
    /\ Threshold \in [Ops -> Nat \ {0}]
    /\ Direct \notin Proxies
    /\ StartProxy \in Proxies \union {Direct}
    /\ Faults \subseteq {"cancel", "ban", "limit", "transport", "discovery"}

VARIABLES
    failures,       \* _circuit_failures
    until,          \* _circuit_open_until: absent, running or over
    halfOpen,       \* _circuit_half_open
    pause,          \* _rate_limit_pause_until and its siblings
    proxy,          \* _proxy_url
    call,           \* what each task is doing
    discovering,    \* a background proxy discovery runs
    rotating,       \* a circuit_failover task is scheduled
    wentDirect      \* a call succeeded without the proxy and left it off

breaker == <<failures, until, halfOpen, rotating>>
vars == <<failures, until, halfOpen, rotating, pause, proxy, call, discovering,
          wentDirect>>

Routes == Proxies \union {Direct}
Deadline == {"absent", "running", "over"}
Pause == {"none", "short", "long"}
Stage == {"idle", "enter", "prepare", "sleep", "budget", "request", "failed",
          "rotated"}
Attempts == {"first", "switched", "direct"}     \* the attempt of the call
Causes == {"refused", "other", "timeout", "banned", "transport"}

Call == [at : Stage, op : Ops, try : Attempts, why : Causes,
         old : Routes,          \* the proxy a direct attempt puts back
         broken : BOOLEAN,      \* what led to it was a transport failure
         probe : BOOLEAN]       \* admitted to probe a half-open circuit

NoCall == [at |-> "idle", op |-> CHOOSE op \in Ops : TRUE, try |-> "first",
           why |-> "other", old |-> Direct, broken |-> FALSE,
           probe |-> FALSE]

Init ==
    /\ failures = [op \in Ops |-> 0]
    /\ until = [op \in Ops |-> "absent"]
    /\ halfOpen = {}
    /\ pause = [k \in Classes |-> "none"]
    /\ proxy = StartProxy
    /\ call = [c \in Calls |-> NoCall]
    /\ discovering = FALSE /\ rotating = FALSE /\ wentDirect = FALSE

At(c, stage) == call[c].at = stage
Goto(c, stage) == call' = [call EXCEPT ![c].at = stage]
FailAs(c, why) == call' = [call EXCEPT ![c].at = "failed", ![c].why = why]
Return(c) == call' = [call EXCEPT ![c] = NoCall]
Class(c) == ClassOf[call[c].op]

-----------------------------------------------------------------------------
(* The circuit breaker                                                     *)

\* _is_circuit_open: open, or half-open with its one probe given away.
IsCircuitOpen(op) ==
    \/ until[op] = "running"
    \/ until[op] = "over" /\ op \in halfOpen

RecordFailure_KeepProbe(op) ==      \* mutant: a failed probe stays half-open
    LET opens == op \in halfOpen \/ failures[op] + 1 >= Threshold[op]
    IN  /\ failures' = [failures EXCEPT ![op] = IF opens THEN 0 ELSE @ + 1]
        /\ until' = [until EXCEPT ![op] = IF opens THEN "running" ELSE @]
        /\ rotating' = (rotating \/ op \in halfOpen)
        /\ UNCHANGED halfOpen

RecordFailure_OffByOne(op) ==       \* mutant: > for >=
    LET opens == op \in halfOpen \/ failures[op] + 1 > Threshold[op]
    IN  /\ failures' = [failures EXCEPT ![op] = IF opens THEN 0 ELSE @ + 1]
        /\ until' = [until EXCEPT ![op] = IF opens THEN "running" ELSE @]
        /\ rotating' = (rotating \/ op \in halfOpen)
        /\ halfOpen' = halfOpen \ {op}

RecordFailure(op) ==
    LET opens == op \in halfOpen \/ failures[op] + 1 >= Threshold[op]
    IN  /\ failures' = [failures EXCEPT ![op] = IF opens THEN 0 ELSE @ + 1]
        /\ until' = [until EXCEPT ![op] = IF opens THEN "running" ELSE @]
        /\ rotating' = (rotating \/ op \in halfOpen)
        /\ halfOpen' = halfOpen \ {op}

RecordSuccess_Decay(op) ==          \* mutant: a success takes one failure back
    /\ failures' = [failures EXCEPT ![op] = @ - 1]
    /\ until' = [until EXCEPT ![op] = "absent"]
    /\ halfOpen' = halfOpen \ {op}
    /\ UNCHANGED rotating

RecordSuccess(op) ==
    /\ failures' = [failures EXCEPT ![op] = 0]
    /\ until' = [until EXCEPT ![op] = "absent"]
    /\ halfOpen' = halfOpen \ {op}
    /\ UNCHANGED rotating

CircuitElapses(op) ==
    /\ until[op] = "running"
    /\ until' = [until EXCEPT ![op] = "over"]
    /\ UNCHANGED <<failures, halfOpen, rotating, pause, proxy, call, discovering,
                   wentDirect>>

-----------------------------------------------------------------------------
(* _prepare_public_rest_call: the circuit, the quota of the class, the     *)
(* pause of the class, the weight budget                                   *)

Begin(c, op) ==
    /\ At(c, "idle")
    /\ call' = [call EXCEPT ![c] = [NoCall EXCEPT !.at = "enter", !.op = op]]
    /\ UNCHANGED <<breaker, pause, proxy, discovering, wentDirect>>

Refused(c) ==
    /\ At(c, "enter") /\ IsCircuitOpen(call[c].op)
    /\ FailAs(c, "refused")
    /\ UNCHANGED <<breaker, pause, proxy, discovering, wentDirect>>

\* Asking an expired circuit makes it half-open and lets this call through.
Admitted(c) ==
    LET probes == until[call[c].op] = "over"
    IN  /\ At(c, "enter") /\ ~IsCircuitOpen(call[c].op)
        /\ halfOpen' = IF probes THEN halfOpen \union {call[c].op} ELSE halfOpen
        /\ call' = [call EXCEPT ![c].at = "prepare", ![c].probe = @ \/ probes]
        /\ UNCHANGED <<failures, until, rotating, pause, proxy, discovering, wentDirect>>

\* A long pause raises without a word to the breaker.
Prepare(c) ==
    /\ At(c, "prepare")
    /\ CASE pause[Class(c)] = "none" -> Goto(c, "budget")
         [] pause[Class(c)] = "short" -> Goto(c, "sleep")
         [] pause[Class(c)] = "long" -> FailAs(c, "other")
    /\ UNCHANGED <<breaker, pause, proxy, discovering, wentDirect>>

\* After a short sleep the pause of a limited class is reset, whatever it has
\* become in the meantime.
Wake(c) ==
    /\ At(c, "sleep")
    /\ Goto(c, "budget")
    /\ pause' = IF Class(c) = "limited" THEN [pause EXCEPT !["limited"] = "none"]
                ELSE pause
    /\ UNCHANGED <<breaker, proxy, discovering, wentDirect>>

\* The weight budget lets the call send.
Send(c) ==
    /\ At(c, "budget")
    /\ Goto(c, "request")
    /\ UNCHANGED <<breaker, pause, proxy, discovering, wentDirect>>

PauseElapses(k) ==
    /\ pause[k] # "none"
    /\ pause' = [pause EXCEPT ![k] = IF @ = "long" THEN "short" ELSE "none"]
    /\ UNCHANGED <<breaker, proxy, call, discovering, wentDirect>>

-----------------------------------------------------------------------------
(* _call_public_http_json_attempt: what the response does                  *)

Longer(a, b) == IF "long" \in {a, b} THEN "long"
                ELSE IF "short" \in {a, b} THEN "short" ELSE "none"

Responds(c) == At(c, "request")

ResponseOk(c) ==
    /\ Responds(c)
    /\ RecordSuccess(call[c].op)
    /\ Return(c)
    /\ wentDirect' = (wentDirect \/ call[c].try = "direct")
    /\ UNCHANGED <<pause, proxy, discovering>>

ResponseFails_Unrecorded(c, why) == \* mutant: a timeout is not recorded
    /\ Responds(c) /\ why \in {"other", "timeout"}
    /\ IF why = "other" THEN RecordFailure(call[c].op) ELSE UNCHANGED breaker
    /\ FailAs(c, why)
    /\ UNCHANGED <<pause, proxy, discovering, wentDirect>>

\* Every error status, an unreadable body, the client's own timeout.
ResponseFails(c, why) ==
    /\ Responds(c) /\ why \in {"other", "timeout"}
    /\ RecordFailure(call[c].op)
    /\ FailAs(c, why)
    /\ UNCHANGED <<pause, proxy, discovering, wentDirect>>

\* 418: half an hour for the class; a Retry-After is charged to the general
\* pause because _capture_retry_after is not told the operation.
ResponseBanned(c, retryAfter) ==
    /\ Responds(c) /\ "ban" \in Faults
    /\ pause' = [k \in Classes |->
                   IF k = Class(c) THEN "long"
                   ELSE IF k = "general" THEN Longer(pause[k], retryAfter)
                   ELSE pause[k]]
    /\ RecordFailure(call[c].op)
    /\ FailAs(c, "banned")
    /\ UNCHANGED <<proxy, discovering, wentDirect>>

\* _try_failover_proxy: another proxy of the pool, or none when the last rotation is
\* recent; a pool that is small or exhausted starts an emergency discovery instead.
TryFailover ==
    \/ proxy # Direct /\ proxy' \in Proxies /\ UNCHANGED discovering
    \/ UNCHANGED <<proxy, discovering>>
    \/ proxy # Direct /\ discovering' = TRUE /\ UNCHANGED proxy

\* 429: at least a minute for a limited class, half an hour otherwise.
ResponseLimited(c, retryAfter) ==
    /\ Responds(c) /\ "limit" \in Faults
    /\ pause' = [pause EXCEPT ![Class(c)] =
                   IF Class(c) = "general" THEN "long"
                   ELSE Longer(@, Longer("short", retryAfter))]
    /\ RecordFailure(call[c].op)
    /\ FailAs(c, "other")
    /\ TryFailover
    /\ UNCHANGED wentDirect

\* aiohttp or the proxy fails: nothing is recorded here.
ResponseBroken(c) ==
    /\ Responds(c) /\ "transport" \in Faults
    /\ FailAs(c, "transport")
    /\ UNCHANGED <<breaker, pause, proxy, discovering, wentDirect>>

-----------------------------------------------------------------------------
(* _call_public_http_json: what the caller's attempts do about a failure   *)

\* A timeout or a transport failure of the first attempt rotates the proxy.
Rotates(c) == call[c].try = "first" /\ call[c].why \in {"timeout", "transport"}

Rotate(c) ==
    /\ At(c, "failed") /\ Rotates(c) /\ proxy # Direct
    /\ TryFailover
    /\ Goto(c, "rotated")
    /\ UNCHANGED <<breaker, pause, wentDirect>>

\* An attempt with nothing before the last resort any more.
Exhausted(c) ==
    /\ call[c].at \in {"failed", "rotated"} /\ call[c].try # "direct"
    /\ At(c, "failed") /\ Rotates(c) => proxy = Direct
    /\ ~ (call[c].try = "switched" /\ call[c].why = "transport")

\* A 418 starts a discovery unless switching proxies helped.
Discovers(c) == call[c].why = "banned" \/ call[c].try = "switched"

\* The last resort is to try without a proxy.
FallBack(c) ==
    /\ Exhausted(c) /\ proxy # Direct
    /\ call' = [call EXCEPT ![c].at = "enter", ![c].try = "direct",
                            ![c].old = proxy, ![c].broken = call[c].why = "transport"]
    /\ proxy' = Direct
    /\ discovering' = (discovering \/ Discovers(c))
    /\ UNCHANGED <<breaker, pause, wentDirect>>

\* The proxy comes back after a failed direct attempt, and only now a transport
\* failure counts against the circuit.
Restore_Retry(c) ==                 \* mutant: a failed direct attempt starts over
    /\ At(c, "failed") /\ call[c].try = "direct"
    /\ proxy' = call[c].old
    /\ IF call[c].broken THEN RecordFailure(call[c].op) ELSE UNCHANGED breaker
    /\ call' = [call EXCEPT ![c].at = "enter", ![c].try = "first"]
    /\ UNCHANGED <<pause, discovering, wentDirect>>

Restore(c) ==
    /\ At(c, "failed") /\ call[c].try = "direct"
    /\ proxy' = call[c].old
    /\ IF call[c].broken THEN RecordFailure(call[c].op) ELSE UNCHANGED breaker
    /\ Return(c)
    /\ UNCHANGED <<pause, discovering, wentDirect>>

\* A banned first attempt is repeated through another proxy, pauses lifted.
SwitchProxy(c) ==
    /\ At(c, "failed") /\ call[c].try = "first" /\ call[c].why = "banned"
    /\ \E p \in Proxies \ {proxy} : proxy' = p
    /\ pause' = [k \in Classes |-> "none"]
    /\ call' = [call EXCEPT ![c].at = "enter", ![c].try = "switched"]
    /\ UNCHANGED <<breaker, discovering, wentDirect>>

\* Without a proxy a first attempt is the last: the exception goes up.
GiveUp(c) ==
    /\ Exhausted(c) /\ proxy = Direct
    /\ IF call[c].why = "transport" THEN RecordFailure(call[c].op) ELSE UNCHANGED breaker
    /\ discovering' = (discovering \/ Discovers(c))
    /\ Return(c)
    /\ UNCHANGED <<pause, proxy, wentDirect>>

\* A transport failure of the repeated attempt escapes the handler.
Escape(c) ==
    /\ At(c, "failed") /\ call[c].try = "switched" /\ call[c].why = "transport"
    /\ Return(c)
    /\ UNCHANGED <<breaker, pause, proxy, discovering, wentDirect>>

\* asyncio cancels the task at an await (the wait_for of a warm-up or a cycle):
\* no handler of this code runs.
Cancelled(c) ==
    /\ "cancel" \in Faults
    /\ call[c].at \in {"enter", "prepare", "sleep", "budget", "request", "rotated"}
    /\ Return(c)
    /\ UNCHANGED <<breaker, pause, proxy, discovering, wentDirect>>

\* _apply_active_proxy sets the proxy before it awaits: a cancellation there leaves
\* out what follows, the lifting of the pauses or the record of the failure.
CancelledFallback(c) ==
    /\ "cancel" \in Faults /\ At(c, "failed")
    /\ \/ call[c].try = "direct" /\ proxy' = call[c].old
       \/ call[c].try = "first" /\ call[c].why = "banned" /\ proxy' \in Proxies \ {proxy}
       \/ Rotates(c) /\ proxy # Direct /\ UNCHANGED proxy
    /\ Return(c)
    /\ UNCHANGED <<breaker, pause, discovering, wentDirect>>

-----------------------------------------------------------------------------
(* The background tasks a failure starts                                   *)

\* _try_failover_proxy after a failed probe.
FailoverTask ==
    /\ rotating
    /\ rotating' = FALSE
    /\ TryFailover
    /\ UNCHANGED <<failures, until, halfOpen, pause, call, wentDirect>>

\* _auto_discover_and_apply_proxy: a proxy found lifts the pauses, or none is.
DiscoveryEnds ==
    /\ discovering
    /\ discovering' = FALSE
    /\ \/ /\ "discovery" \in Faults
          /\ proxy' \in Proxies
          /\ pause' = [k \in Classes |-> "none"]
       \/ UNCHANGED <<proxy, pause>>
    /\ UNCHANGED <<breaker, call, wentDirect>>

CallStep(c) ==
    \/ Refused(c) \/ Admitted(c) \/ Prepare(c) \/ Wake(c) \/ Send(c)
    \/ ResponseOk(c) \/ ResponseBroken(c)
    \/ \E why \in Causes : ResponseFails(c, why)
    \/ \E retryAfter \in Pause : ResponseBanned(c, retryAfter) \/ ResponseLimited(c, retryAfter)
    \/ Rotate(c) \/ FallBack(c) \/ SwitchProxy(c) \/ GiveUp(c) \/ Escape(c) \/ Restore(c)

Next ==
    \/ \E c \in Calls : \E op \in Ops : Begin(c, op)
    \/ \E c \in Calls : CallStep(c) \/ Cancelled(c) \/ CancelledFallback(c)
    \/ \E op \in Ops : CircuitElapses(op)
    \/ \E k \in Classes : PauseElapses(k)
    \/ FailoverTask
    \/ DiscoveryEnds

Spec == Init /\ [][Next]_vars

\* The client timeout ends every request, limiters and sleeps end, time passes.
FairSpec ==
    /\ Spec
    /\ \A c \in Calls : WF_vars(CallStep(c))
    /\ \A op \in Ops : WF_vars(CircuitElapses(op))

-----------------------------------------------------------------------------
(* Properties                                                              *)

TypeOK ==
    /\ failures \in [Ops -> Nat]
    /\ until \in [Ops -> Deadline]
    /\ halfOpen \subseteq Ops
    /\ pause \in [Classes -> Pause]
    /\ proxy \in Routes
    /\ call \in [Calls -> Call]
    /\ discovering \in BOOLEAN /\ rotating \in BOOLEAN /\ wentDirect \in BOOLEAN

\* A circuit is half-open only after its deadline is over: however late the
\* answers of older calls come in, no probe token outlives a re-opening, where
\* it would refuse the next probe.
HalfOpenIsExpired == \A op \in halfOpen : until[op] = "over"

\* A circuit opens with the failure that reaches its threshold, never later.
OpensAtThreshold == \A op \in Ops : failures[op] < Threshold[op]

\* The proxy is off only while a direct attempt is made, or because one worked.
ProxyKept ==
    proxy = Direct =>
        \/ StartProxy = Direct \/ wentDirect
        \/ \E c \in Calls : call[c].try = "direct"

\* A half-open circuit waits for a call that is still under way.  The code does not
\* keep it: see LeavesUnrecorded.
HalfOpenHasProbe ==
    \A op \in halfOpen :
        \E c \in Calls : call[c].at # "idle" /\ call[c].op = op /\ call[c].probe

\* A call that was let through and has still to report to the breaker.
WillReport(c, op) ==
    /\ call[c].at # "idle" /\ call[c].op = op /\ call[c].probe
    /\ \/ call[c].at \in {"prepare", "sleep", "budget", "request"}
       \/ call[c].at \in {"failed", "rotated"} /\ call[c].why = "transport"
       \/ call[c].try = "direct" /\ call[c].broken

Probed(op) == \E c \in Calls : WillReport(c, op)

\* The ways out between admission and answer that record nothing: the caller gives
\* up, the pause is too long to wait for, or an attempt that repeats one which had
\* an answer dies in the transport.
LeavesUnrecorded(c) ==
    \/ Cancelled(c) \/ CancelledFallback(c)
    \/ At(c, "prepare") /\ pause[Class(c)] = "long" /\ call'[c].at = "failed"
    \/ Escape(c)
    \/ Restore(c) /\ ~call[c].broken

\* A half-open circuit has a call under way that will close or re-open it, and
\* loses it in these ways only: in every other one, with whatever proxies, bans,
\* limits and answers of other calls, the outcome of the probe is recorded.
ProbeLostUnrecordedOnly ==
    [][\A op \in halfOpen' :
         \/ Probed(op)'
         \/ op \in halfOpen /\ ~Probed(op)
         \/ \E c \in Calls : WillReport(c, op) /\ LeavesUnrecorded(c)]_vars

\* No circuit stays half-open for ever: its probe closes or re-opens it.
HalfOpenResolves == \A op \in Ops : op \in halfOpen ~> op \notin halfOpen

\* The fallbacks of a call are bounded: a failed attempt is followed by one that
\* lies further down the ladder, or by the return to the caller, and no other
\* call, task or rotation sends it up again.
Rung == [first |-> 0, switched |-> 1, direct |-> 2]
FallbacksBounded ==
    [][\A c \in Calls : call[c].at \in {"failed", "rotated"} /\ call'[c] # call[c] =>
         \/ call'[c].at = "idle"
         \/ At(c, "failed") /\ call'[c] = [call[c] EXCEPT !.at = "rotated"]
         \/ call'[c].op = call[c].op /\ Rung[call'[c].try] > Rung[call[c].try]]_vars

\* The half hour after a ban is over when it has passed, or when another proxy
\* made it void.
BanHonoured ==
    [][\A k \in Classes : pause[k] = "long" /\ pause'[k] = "none"
         => proxy' # proxy \/ discovering' # discovering]_vars

\* No request leaves while its class is under the long pause of a ban.
SilentDuringBan ==
    [][\A c \in Calls : At(c, "budget") /\ call'[c].at = "request"
         => pause[Class(c)] # "long"]_vars

\* Putting a proxy back does not undo the proxy someone applied meanwhile.
RestoreUndoesNothing ==
    [][\A c \in Calls : At(c, "failed") /\ call[c].try = "direct" /\ call'[c].at = "idle"
         => proxy \in {Direct, call[c].old}]_vars
=============================================================================
