-------------------------- MODULE DeliveryPipeline --------------------------
(***************************************************************************)
(* DeliveryOrchestrator.select_and_deliver: symbol cycles of one asyncio   *)
(* process run it concurrently, over the same duplicate window, cooldowns, *)
(* counters, journal rows and Telegram sender (TelegramService).  A cycle  *)
(* first selects: it takes the signals of its batch one by one through     *)
(* checks with awaits between them and queues the survivors; then it       *)
(* delivers the queue one by one: caps, duplicate content, journal row,    *)
(* send, then cooldowns, or the row is cancelled.                          *)
(*                                                                         *)
(* A signal is one instance (tracking_id).  The checks whose verdict is a  *)
(* matter of data (contract, limit entry, confluence, tier, blacklist,     *)
(* quality monitor, portfolio) may reject any signal.  What the tracker    *)
(* does within one of its calls is SignalTracker; here each call is one    *)
(* step, but for the two that read a row, await, and write it back without *)
(* excluding each other: a review and cancel_pending_delivery.  The hashes *)
(* are the last 512 of this process; the model has fewer and no restart.   *)
(***************************************************************************)
EXTENDS TelegramService, Naturals, Sequences, FiniteSets

CONSTANTS
    Setup(_), Symbol(_), Direction(_), Content(_),
    Kinds,          \* the cooldowns in force, in the order in which they are read
    SessionCap,     \* action_cap_per_session
    BurstCap,       \* max_signals_per_minute
    MaxUpsets,      \* bound: faults, and windows that run out
    MaxReviews,     \* bound: rows under review at once
    Faults          \* "arm_timeout", "send_timeout", "cycle_timeout", "supersede_fails"

ASSUME NoneAssumption == None \notin Texts \union Replies

\* Both caps are ge=0 in the settings; zero turns a cap off.  Cycles run under
\* _analysis_semaphore, the emergency scan beside them: they are finitely many.
ASSUME CapsAssumption == SessionCap \in Nat /\ BurstCap \in Nat /\ IsFiniteSet(Clients)

\* The message of a signal carries its reference: no two have the same text.
Signals == Texts
Cycles == Clients

VARIABLES
    cycle,          \* each run of select_and_deliver
    row,            \* the journal row of each signal; "reopened" is pending again,
                    \* written back by a review that had read it before it was closed
    copy,           \* the row as a review has read it, until the review is done with it
    dedup,          \* keys of _dedup_timestamps that are within the window
    cooling,        \* cooldown keys in force
    hashes,         \* _recent_content_hashes
    used,           \* _session_action_delivered
    burst,          \* entries of _delivery_burst_times within the minute
    end,            \* how the cycle left each signal
    upsets          \* faults so far and windows that have run out

windows == <<dedup, cooling, hashes, used, burst>>  \* what all cycles share
pipeVars == <<cycle, row, copy, windows, end, upsets>>
vars == <<serviceVars, pipeVars>>

Resting == [at |-> "idle", todo |-> <<>>, ready |-> <<>>, setups |-> {}, kind |-> 0,
            tier |-> None, via |-> None]

Init ==
    /\ ServiceInit
    /\ cycle = [c \in Cycles |-> Resting]
    /\ row = [s \in Signals |-> "none"] /\ copy = [s \in Signals |-> "none"]
    /\ dedup = {} /\ cooling = {} /\ hashes = {}
    /\ used = 0 /\ burst = 0 /\ upsets = 0
    /\ end = [s \in Signals |-> "none"]

DedupKey(s) == <<Setup(s), Symbol(s), Direction(s)>>

CoolKey(k, s) == CASE k = "symbol_direction" -> <<k, Symbol(s), Direction(s)>>
                   [] k = "setup_interval" -> <<k, Setup(s)>>
                   [] OTHER -> <<k, Setup(s), Symbol(s)>>

Upset == upsets < MaxUpsets /\ upsets' = upsets + 1

Waiting(s) == row[s] \in {"pending", "reopened"}
IsOpen(s) == Waiting(s) \/ row[s] = "active"
At(c, stage) == cycle[c].at = stage
Cur(c) == Head(cycle[c].todo)       \* the signal being selected
Out(c) == Head(cycle[c].ready)      \* the signal being delivered

-----------------------------------------------------------------------------
(* Selection.                                                              *)

\* The signals a cycle is working on.
Holds(c) == {cycle[c].todo[i] : i \in DOMAIN cycle[c].todo}
                \union {cycle[c].ready[i] : i \in DOMAIN cycle[c].ready}
Fresh == {s \in Signals : end[s] = "none"} \ UNION {Holds(c) : c \in Cycles}

\* MetaSignalMerger leaves one signal per symbol in a batch.
Begin(c) ==
    /\ At(c, "idle")
    /\ \E a \in Fresh, b \in Fresh :
          /\ a = b \/ Symbol(a) # Symbol(b)
          /\ cycle' = [cycle EXCEPT ![c].at = "select",
                            ![c].todo = IF a = b THEN <<a>> ELSE <<a, b>>]
    /\ UNCHANGED <<serviceVars, row, windows, end, upsets>>

\* A rejected signal is gone; the loop goes on with the next one.
Rejected(c) ==
    /\ cycle' = [cycle EXCEPT ![c].at = "select", ![c].todo = Tail(@), ![c].kind = 0,
                              ![c].via = None]
    /\ end' = [end EXCEPT ![Cur(c)] = "dropped"]
    /\ UNCHANGED <<serviceVars, row, windows>>

\* Up to the first await: the duplicate window and the quota of the setup.
Check(c) ==
    /\ At(c, "select") /\ cycle[c].todo # <<>>
    /\ \/ Rejected(c) /\ UNCHANGED upsets
       \/ /\ DedupKey(Cur(c)) \notin dedup
          /\ Setup(Cur(c)) \notin cycle[c].setups
          /\ cycle' = [cycle EXCEPT ![c].at = "look"]
          /\ UNCHANGED <<serviceVars, row, windows, end, upsets>>

OpenRows(s) == {t \in Signals : IsOpen(t) /\ Symbol(t) = Symbol(s)}

\* get_active_signals and what is decided from its answer.
Look(c) ==
    LET s == Cur(c)
        same == {t \in OpenRows(s) : Setup(t) = Setup(s)}
    IN  /\ At(c, "look")
        /\ \/ /\ \E t \in same : Waiting(t)
              /\ cycle' = [cycle EXCEPT ![c].at = "supersede", ![c].via = "same"]
              /\ UNCHANGED end
           \/ /\ OpenRows(s) = {}
              /\ cycle' = [cycle EXCEPT ![c].at = "cool", ![c].kind = 1]
              /\ UNCHANGED end
           \/ /\ OpenRows(s) # {}
              /\ cycle' = [cycle EXCEPT ![c].at = "select", ![c].todo = Tail(@)]
              /\ end' = [end EXCEPT ![s] = "dropped"]
        /\ UNCHANGED <<serviceVars, row, windows, upsets>>

\* One is_cooldown_active after the other; the last of them, the one of the
\* setup and symbol, may still be overcome by superseding an open signal.
ReadCooldown(c) ==
    LET k == Kinds[cycle[c].kind]
        last == cycle[c].kind = Len(Kinds)
    IN  /\ At(c, "cool")
        /\ \/ /\ CoolKey(k, Cur(c)) \in cooling /\ ~last
              /\ Rejected(c) /\ UNCHANGED upsets
           \/ /\ CoolKey(k, Cur(c)) \in cooling => last
              /\ cycle' = [cycle EXCEPT
                    ![c].at = IF ~last THEN "cool"
                              ELSE IF CoolKey(k, Cur(c)) \in cooling THEN "supersede"
                              ELSE "queue",
                    ![c].kind = IF last THEN 0 ELSE @ + 1,
                    ![c].via = IF last THEN "cooldown" ELSE @]
              /\ UNCHANGED <<serviceVars, row, windows, end, upsets>>

\* What close_superseded_signal returned: on the way of the cooldown the
\* signal needs something closed, on the other way it does not.
Resume(c, closed) ==
    \/ /\ cycle[c].via = "same" \/ closed # {}
       /\ row' = [t \in Signals |-> IF t \in closed THEN "closed" ELSE row[t]]
       /\ cycle' = [cycle EXCEPT ![c].at = "queue"]
       /\ UNCHANGED <<serviceVars, windows, end>>
    \/ /\ cycle[c].via = "cooldown" /\ closed = {}
       /\ Rejected(c)

\* supersede_open_signal closes what is still pending under the symbol lock, which
\* reviews take as well.
Supersede(c) ==
    LET s == Cur(c)
    IN  /\ At(c, "supersede")
        /\ \A t \in Signals : Symbol(t) = Symbol(s) => copy[t] = "none"
        /\ Resume(c, {t \in OpenRows(s) : Setup(t) = Setup(s) /\ Waiting(t)})
        /\ UNCHANGED upsets

\* Its failure counts as "nothing was closed".
SupersedeFails(c) ==
    /\ At(c, "supersede") /\ "supersede_fails" \in Faults /\ Upset
    /\ Resume(c, {})

\* _queue_ready_signal, after the update about the superseded one was sent:
\* the duplicate window starts here, before anything is delivered.
Queue(c) ==
    LET s == Cur(c)
    IN  /\ At(c, "queue")
        /\ \/ Rejected(c) /\ UNCHANGED upsets   \* quality monitor, portfolio caps
           \/ /\ dedup' = dedup \union {DedupKey(s)}
              /\ cycle' = [cycle EXCEPT ![c].at = "select", ![c].todo = Tail(@),
                    ![c].ready = Append(@, s), ![c].via = None,
                    ![c].setups = @ \union {Setup(s)}]
              /\ UNCHANGED <<serviceVars, row, cooling, hashes, used, burst, end, upsets>>

EndSelection(c) ==
    /\ At(c, "select") /\ cycle[c].todo = <<>>
    /\ cycle' = [cycle EXCEPT ![c].at = "head"]
    /\ UNCHANGED <<serviceVars, row, windows, end, upsets>>
-----------------------------------------------------------------------------
(* Delivery.                                                               *)

\* The signal leaves the queue; the cycle turns to the next one.
Left(c, e) ==
    /\ cycle' = [cycle EXCEPT ![c].at = "head", ![c].ready = Tail(@), ![c].tier = None,
                              ![c].kind = 0]
    /\ end' = [end EXCEPT ![Out(c)] = e]

\* Mutant: the content is not recorded before the awaits of the delivery.
DeliverHead_NoRecord(c) ==
    /\ At(c, "head") /\ cycle[c].ready # <<>>
    /\ Content(Out(c)) \notin hashes
    /\ cycle' = [cycle EXCEPT ![c].at = "arm", ![c].tier = "watch"]
    /\ UNCHANGED <<serviceVars, row, windows, end, upsets>>

\* Up to the first await.  The content counts as seen before it is sent, and
\* also when the burst cap then rejects it.  (cancel_pending_delivery on the
\* two cap paths finds no row: it is not armed yet.)
DeliverHead(c) ==
    LET s == Out(c)
        capped == SessionCap > 0 /\ used >= SessionCap
        full == BurstCap > 0 /\ burst >= BurstCap
    IN  /\ At(c, "head") /\ cycle[c].ready # <<>>
        /\ \/ capped /\ Left(c, "dropped") /\ UNCHANGED hashes
           \/ /\ Content(s) \in hashes
              /\ Left(c, "dropped") /\ UNCHANGED hashes
           \/ /\ Content(s) \notin hashes /\ full
              /\ hashes' = hashes \union {Content(s)}
              /\ Left(c, "dropped")
           \/ /\ Content(s) \notin hashes /\ ~full
              /\ hashes' = hashes \union {Content(s)}
              /\ \E tier \in {"action", "watch"} :
                    /\ capped => tier = "watch"
                    /\ cycle' = [cycle EXCEPT ![c].at = "arm", ![c].tier = tier]
              /\ UNCHANGED end
        /\ UNCHANGED <<serviceVars, row, dedup, cooling, used, burst, upsets>>

Arm(c) ==
    /\ At(c, "arm")
    /\ row' = [row EXCEPT ![Out(c)] = "pending"]
    /\ cycle' = [cycle EXCEPT ![c].at = "deliver"]
    /\ UNCHANGED <<serviceVars, windows, end, upsets>>

\* _wait_noncritical gives up on arm_signals before or after the row is stored.
ArmTimeout(c) ==
    /\ "arm_timeout" \in Faults /\ Upset
    /\ At(c, "arm")
    /\ row' \in {row, [row EXCEPT ![Out(c)] = "pending"]}
    /\ Left(c, "arm_timeout")
    /\ UNCHANGED <<serviceVars, windows>>

\* DeliveryService.deliver: the message, or a row to cancel at once
\* (rejected_contract, format_error).
Deliver(c) ==
    /\ At(c, "deliver")
    /\ \/ /\ Start(c, Out(c))
          /\ cycle' = [cycle EXCEPT ![c].at = "sending"]
       \/ /\ cycle' = [cycle EXCEPT ![c].at = "cancel"]
          /\ UNCHANGED serviceVars
    /\ UNCHANGED <<row, windows, end, upsets>>

\* "sent": the counters; the cooldowns are set in awaits that follow.
Delivered(c) ==
    /\ At(c, "sending") /\ request[c].reply = "sent" /\ Leave(c)
    /\ used' = IF cycle[c].tier = "action" THEN used + 1 ELSE used
    /\ cycle' = [cycle EXCEPT ![c].at = "cooldowns", ![c].kind = 1]
    /\ UNCHANGED <<row, dedup, cooling, hashes, burst, end, upsets>>

\* Any other answer, or none within the timeout of the delivery.
NotSent(c) ==
    /\ At(c, "sending") /\ Leave(c)
    /\ \/ request[c].reply \in {"buffered_circuit_open", "suppressed_duplicate", "failed"}
          /\ UNCHANGED upsets
       \/ request[c].reply = None /\ "send_timeout" \in Faults /\ Upset
    /\ cycle' = [cycle EXCEPT ![c].at = "cancel"]
    /\ UNCHANGED <<row, windows, end>>

\* Mutant: the row of an unsent signal stays open.
CancelPendingDelivery_Skipped(c) ==
    /\ At(c, "cancel")
    /\ Left(c, "dropped")
    /\ UNCHANGED <<serviceVars, row, windows, upsets>>

\* cancel_pending_delivery reads the row, without the symbol lock, and has nothing to
\* do if it was activated or closed meanwhile.
CancelPendingDelivery(c) ==
    /\ At(c, "cancel")
    /\ IF Waiting(Out(c))
         THEN cycle' = [cycle EXCEPT ![c].at = "closing"] /\ UNCHANGED end
         ELSE Left(c, "dropped")
    /\ UNCHANGED <<serviceVars, row, windows, upsets>>

\* It closes the row it has read, whatever has become of it.
CloseCancelled(c) ==
    /\ At(c, "closing")
    /\ row' = [row EXCEPT ![Out(c)] = "closed"]
    /\ Left(c, "dropped")
    /\ UNCHANGED <<serviceVars, windows, upsets>>

\* set_cooldown: setup and symbol first, the others after it, then the burst
\* record.  outcome_sl is set by the tracker when a stop loss closes a row.
PostKinds == SelectSeq(<<"setup", "setup_interval", "symbol_direction", "family">>,
                       LAMBDA k : \E i \in DOMAIN Kinds : Kinds[i] = k)

SetCooldown(c) ==
    /\ At(c, "cooldowns") /\ cycle[c].kind <= Len(PostKinds)
    /\ cooling' = cooling \union {CoolKey(PostKinds[cycle[c].kind], Out(c))}
    /\ cycle' = [cycle EXCEPT ![c].kind = @ + 1]
    /\ UNCHANGED <<serviceVars, row, dedup, hashes, used, burst, end, upsets>>

RecordBurst(c) ==
    /\ At(c, "cooldowns") /\ cycle[c].kind > Len(PostKinds)
    /\ burst' = burst + 1
    /\ Left(c, "delivered")
    /\ UNCHANGED <<serviceVars, row, dedup, cooling, hashes, used, upsets>>

EndCycle(c) ==
    /\ At(c, "head") /\ cycle[c].ready = <<>>
    /\ cycle' = [cycle EXCEPT ![c] = Resting]
    /\ UNCHANGED <<serviceVars, row, windows, end, upsets>>

-----------------------------------------------------------------------------
(* What ends a cycle early: its remaining signals are dropped and the row  *)
(* of the one under way stays as it is.                                    *)

Abort(c) ==
    /\ cycle' = [cycle EXCEPT ![c] = Resting]
    /\ end' = [s \in Signals |-> IF s \in Holds(c) THEN "aborted" ELSE end[s]]
    /\ UNCHANGED <<windows>>

\* An exception outside DEFENSIVE_EXC comes through deliver and
\* _wait_noncritical and leaves select_and_deliver.
Raised(c) ==
    /\ At(c, "sending") /\ request[c].reply = "raised" /\ Leave(c)
    /\ Abort(c)
    /\ UNCHANGED <<row, upsets>>

\* The timeout of the kline handler cancels the cycle at whatever await.
CycleTimeout(c) ==
    /\ "cycle_timeout" \in Faults /\ Upset
    /\ ~At(c, "idle") /\ Abort(c)
    /\ IF At(c, "sending") THEN Leave(c) ELSE UNCHANGED serviceVars
    /\ \/ UNCHANGED row
       \/ At(c, "arm") /\ row' = [row EXCEPT ![Out(c)] = "pending"]
       \/ At(c, "closing") /\ row' = [row EXCEPT ![Out(c)] = "closed"]

Select(c) == Begin(c) \/ Check(c) \/ Look(c) \/ ReadCooldown(c) \/ Supersede(c)
             \/ SupersedeFails(c) \/ Queue(c) \/ EndSelection(c)

Dispatch(c) == DeliverHead(c) \/ Arm(c) \/ Deliver(c) \/ Delivered(c) \/ NotSent(c)
               \/ CancelPendingDelivery(c) \/ CloseCancelled(c) \/ SetCooldown(c)
               \/ RecordBurst(c) \/ EndCycle(c)

Interrupt(c) == ArmTimeout(c) \/ Raised(c) \/ CycleTimeout(c)

\* The sender at work on the cycle's message.
Sending(c) ==
    /\ \/ (Show(c) \/ \E r \in Replies \ {"raised"} : Finish(c, r)) /\ UNCHANGED upsets
       \/ Finish(c, "raised") /\ Upset
    /\ UNCHANGED <<cycle, row, windows, end>>

-----------------------------------------------------------------------------
(* Everybody else: reviews activate and close rows, windows run out, the   *)
(* sender drains its buffer.                                               *)

\* A review reads an open row; it holds the symbol lock while copy stands.
ReviewReads ==
    /\ \E s \in Signals :
          /\ IsOpen(s) /\ copy[s] = "none"
          /\ Cardinality({t \in Signals : copy[t] # "none"}) < MaxReviews
          /\ copy' = [copy EXCEPT ![s] = row[s]]
    /\ UNCHANGED <<serviceVars, cycle, row, windows, end, upsets>>

\* What the review stores in place of the row, whatever it has become meanwhile: the
\* row it read, a later state of it.  A stop loss also starts the outcome_sl cooldown.
ReviewWrites ==
    /\ \E s \in Signals, st \in {"same", "active", "closed"} :
          /\ copy[s] # "none"
          /\ row' = [row EXCEPT ![s] = IF st # "same" THEN st
                                       ELSE IF copy[s] = "pending" /\ row[s] # "pending"
                                       THEN "reopened" ELSE copy[s]]
          /\ copy' = [copy EXCEPT ![s] = IF st = "active" THEN st ELSE "none"]
          /\ \/ UNCHANGED cooling
             \/ /\ copy[s] = "active" /\ st = "closed"
                /\ \E i \in DOMAIN Kinds : Kinds[i] = "outcome_sl"
                /\ cooling' = cooling \union {CoolKey("outcome_sl", s)}
    /\ UNCHANGED <<serviceVars, cycle, dedup, hashes, used, burst, end, upsets>>

\* One of the windows in force runs out.
WindowLapses ==
    /\ Upset
    /\ \/ \E k \in dedup : dedup' = dedup \ {k} /\ UNCHANGED <<cooling, burst>>
       \/ \E k \in cooling : cooling' = cooling \ {k} /\ UNCHANGED <<dedup, burst>>
       \/ burst > 0 /\ burst' = burst - 1 /\ UNCHANGED <<dedup, cooling>>
    /\ UNCHANGED <<serviceVars, cycle, row, copy, hashes, used, end>>

LateShow == ShowKept /\ UNCHANGED pipeVars

Others == ReviewReads \/ ReviewWrites \/ WindowLapses \/ LateShow

Next ==
    \/ /\ \E c \in Cycles : Select(c) \/ Dispatch(c) \/ Interrupt(c) \/ Sending(c)
       /\ UNCHANGED copy
    \/ Others

Spec == Init /\ [][Next]_vars

-----------------------------------------------------------------------------
(* Properties.                                                             *)

Owned(s) == \E c \in Cycles : s \in Holds(c)

\* Journal and channel agree as far as the code makes them: what counts as
\* delivered has been shown; nothing is shown without a row; and a row that
\* is open although nobody will show it belongs to a signal whose arming
\* timed out or whose cycle was cut short, the two paths that cancel nothing
\* (select_and_deliver), or it was cancelled and a review that had read it
\* before has written it back (cancel_pending_delivery takes no symbol lock).
JournalAgreesWithChannel ==
    \A s \in Signals :
        /\ end[s] = "delivered" => s \in posted
        /\ s \in posted => row[s] # "none"
        /\ Waiting(s) /\ s \notin posted /\ ~Owned(s)
              => end[s] \in {"arm_timeout", "aborted"} \/ row[s] = "reopened"

\* No two signals of the same content get as far as a journal row, whatever
\* cycles run at once: test and record of _is_content_duplicate have no await
\* between them.
ContentArmedOnce ==
    \A s, t \in Signals :
        s # t /\ Content(s) = Content(t) => row[s] = "none" \/ row[t] = "none"

\* The caps are tested before the awaits of a delivery and the counters raised
\* after them, so cycles under way at once exceed a cap: by one delivery for each
\* cycle but one, and never by more, however long they run.
CapOvershootBounded ==
    /\ SessionCap > 0 => used < SessionCap + Cardinality(Cycles)
    /\ BurstCap > 0 => burst < BurstCap + Cardinality(Cycles)

\* "Max ACTION deliveries per bot session (0 = unlimited)", the description of
\* action_cap_per_session.  The code does not keep it.
SessionCapKept == SessionCap > 0 => used <= SessionCap
=============================================================================
