------------------------------ MODULE EventBus ------------------------------
(***************************************************************************)
(* The in-process event bus of engine/core/event_bus.py: publish_nowait    *)
(* schedules _enqueue_event on the asyncio loop, a bounded queue of tokens *)
(* points into a dictionary of pending events, at most one per coalescing  *)
(* key, and the dispatch loop of run() turns every pending event into a    *)
(* handler task.                                                           *)
(*                                                                         *)
(* An event is its key and a version: the n-th event published for the     *)
(* key.  run() never awaits between two pops, so once it is scheduled it   *)
(* empties the queue in one step.                                          *)
(***************************************************************************)
EXTENDS Naturals, Sequences, FiniteSets, FiniteSetsExt, SequencesExt

CONSTANTS
    Keys,           \* what an event may be about
    KindOf,         \* the event type of a key
    MaxSize,        \* capacity of the queue (512 in the code)
    MaxVersion      \* bound: how many events of each key are published

Kinds == {"kline", "ticker", "shortlist", "reconnect"}

ASSUME ConstantsAssumption ==
    /\ KindOf \in [Keys -> Kinds]
    /\ MaxSize \in Nat \ {0}
    /\ MaxVersion \in [Keys -> Nat]
    /\ Keys \cap Nat = {}

VARIABLES
    calls,          \* events scheduled with loop.call_soon, in order
    queue,          \* _queue: tokens, oldest first
    pending,        \* _pending_events: the event of each queued token
    coalescing,     \* _coalescing_keys
    ready,          \* the asyncio.Event _ready
    loop,           \* where the dispatch task stands
    sequence,       \* _sequence: tokens made for events that do not coalesce
    handlers,       \* _handler_tasks: the events handler tasks are serving
    coalesced,      \* _coalesced_count
    dropped,        \* _dropped_count
    published,      \* events published of each key
    delivered,      \* the newest version of each key given to handlers
    dispatched      \* events given to handlers

counters == <<coalesced, dropped>>
vars == <<calls, queue, pending, coalescing, ready, loop, sequence, handlers,
          coalesced, dropped, published, delivered, dispatched>>

Version == {0} \cup UNION {1 .. MaxVersion[k] : k \in Keys}
Event == [key : Keys, ver : Version]
Token == Keys \union Nat        \* a coalescing key, or ("queued", _sequence)
Loop == {"off", "waiting", "stopping", "stopped"}

Kind(e) == KindOf[e.key]
Coalesces(e) == Kind(e) # "reconnect"

NoEvents == [t \in {} |-> t]    \* an empty dictionary

Init ==
    /\ calls = <<>> /\ queue = <<>> /\ pending = NoEvents /\ coalescing = {}
    /\ ready = FALSE /\ loop = "off" /\ sequence = 0 /\ handlers = {}
    /\ coalesced = 0 /\ dropped = 0 /\ dispatched = 0
    /\ published = [k \in Keys |-> 0]
    /\ delivered = [k \in Keys |-> 0]

-----------------------------------------------------------------------------
(* publish_nowait and _enqueue_event                                       *)

Publish(k) ==
    /\ published[k] < MaxVersion[k]
    /\ published' = [published EXCEPT ![k] = @ + 1]
    /\ calls' = Append(calls, [key |-> k, ver |-> published[k] + 1])
    /\ UNCHANGED <<queue, pending, coalescing, ready, loop, sequence, handlers,
                   counters, delivered, dispatched>>

Supersede_NotCounted(e) ==      \* mutant: a replacement is not counted
    /\ Coalesces(e) /\ e.key \in DOMAIN pending
    /\ pending' = [pending EXCEPT ![e.key] = e]
    /\ ready' = TRUE
    /\ UNCHANGED <<queue, coalescing, sequence, counters>>

\* An event whose key is already waiting replaces the waiting one in place.
Supersede(e) ==
    /\ Coalesces(e) /\ e.key \in DOMAIN pending
    /\ pending' = [pending EXCEPT ![e.key] = e]
    /\ coalesced' = coalesced + 1
    /\ ready' = TRUE
    /\ UNCHANGED <<queue, coalescing, sequence, dropped>>

Store_KeepVictim(e, rest, gone) ==    \* mutant: the victim's event is not forgotten
    LET token == IF Coalesces(e) THEN e.key ELSE sequence
    IN  /\ queue' = Append(rest, token)
        /\ pending' = [t \in DOMAIN pending \union {token} |->
                         IF t = token THEN e ELSE pending[t]]
        /\ coalescing' = coalescing \union (IF Coalesces(e) THEN {token} ELSE {})
        /\ sequence' = IF Coalesces(e) THEN sequence ELSE sequence + 1
        /\ ready' = TRUE

Store_NoWakeup(e, rest, gone) ==      \* mutant: _ready.set() is missing
    LET token == IF Coalesces(e) THEN e.key ELSE sequence
        kept == DOMAIN pending \ gone
    IN  /\ queue' = Append(rest, token)
        /\ pending' = [t \in kept \union {token} |->
                         IF t = token THEN e ELSE pending[t]]
        /\ coalescing' = (coalescing \ gone)
                            \union (IF Coalesces(e) THEN {token} ELSE {})
        /\ sequence' = IF Coalesces(e) THEN sequence ELSE sequence + 1
        /\ UNCHANGED ready

\* What is queued once the tokens `gone` have left, `rest` is what they leave of the
\* queue, and `e` is appended.
Store(e, rest, gone) ==
    LET token == IF Coalesces(e) THEN e.key ELSE sequence
        kept == DOMAIN pending \ gone
    IN  /\ queue' = Append(rest, token)
        /\ pending' = [t \in kept \union {token} |->
                         IF t = token THEN e ELSE pending[t]]
        /\ coalescing' = (coalescing \ gone)
                            \union (IF Coalesces(e) THEN {token} ELSE {})
        /\ sequence' = IF Coalesces(e) THEN sequence ELSE sequence + 1
        /\ ready' = TRUE

QueuedOf(K) == {t \in Range(queue) : Kind(pending[t]) \in K}

\* The tokens _make_room_for searches first, and those it falls back to: a
\* candle close displaces anything else, then another close; any other event
\* displaces its own type, then whatever coalesces, candle closes included.
FirstChoice(e) ==
    IF Kind(e) = "kline" THEN QueuedOf(Kinds \ {"kline"}) ELSE QueuedOf({Kind(e)})
Fallback(e) ==
    IF Kind(e) = "kline" THEN QueuedOf({"kline"}) ELSE coalescing
Displaceable(e) == IF FirstChoice(e) # {} THEN FirstChoice(e) ELSE Fallback(e)

\* Where the first token of T stands in the queue.
OldestOf(T) == CHOOSE i \in DOMAIN queue :
                 /\ queue[i] \in T
                 /\ \A j \in 1 .. (i - 1) : queue[j] \notin T

IsNew(e) == ~ (Coalesces(e) /\ e.key \in DOMAIN pending)

Admit(e) ==
    /\ IsNew(e) /\ Len(queue) < MaxSize
    /\ Store(e, queue, {})
    /\ UNCHANGED counters

Displace_EvictThenReject(e) ==  \* mutant: the victim goes and `e` is dropped too
    /\ IsNew(e) /\ Len(queue) >= MaxSize
    /\ Displaceable(e) # {}
    /\ LET index == OldestOf(Displaceable(e))
           victim == queue[index]
       IN  /\ queue' = RemoveAt(queue, index)
           /\ pending' = [t \in DOMAIN pending \ {victim} |-> pending[t]]
           /\ coalescing' = coalescing \ {victim}
    /\ dropped' = dropped + 2
    /\ UNCHANGED <<sequence, ready, coalesced>>

\* A close that displaces a close is counted as coalesced, whatever symbol
\* the displaced one is about; every other displacement is a drop.
Displace(e) ==
    /\ IsNew(e) /\ Len(queue) >= MaxSize
    /\ Displaceable(e) # {}
    /\ LET index == OldestOf(Displaceable(e))
           victim == queue[index]
           merged == Kind(e) = "kline" /\ Kind(pending[victim]) = "kline"
       IN  /\ Store(e, RemoveAt(queue, index), {victim})
           /\ coalesced' = IF merged THEN coalesced + 1 ELSE coalesced
           /\ dropped' = IF merged THEN dropped ELSE dropped + 1

\* _record_drop: _enqueue_event returns before it sets _ready.
Reject(e) ==
    /\ IsNew(e) /\ Len(queue) >= MaxSize
    /\ Displaceable(e) = {}
    /\ dropped' = dropped + 1
    /\ UNCHANGED <<queue, pending, coalescing, ready, sequence, coalesced>>

Enqueue ==
    /\ calls # <<>>
    /\ LET e == Head(calls) IN Supersede(e) \/ Admit(e) \/ Displace(e) \/ Reject(e)
    /\ calls' = Tail(calls)
    /\ UNCHANGED <<loop, handlers, published, delivered, dispatched>>

-----------------------------------------------------------------------------
(* run                                                                     *)

\* The events in the order they are popped.
Batch == [i \in DOMAIN queue |-> pending[queue[i]]]

\* A turn of the loop: its first, or one that _ready wakes.  Pop until the
\* queue is empty, then _ready.clear() and wait.
Turn == loop = "off" \/ (loop = "waiting" /\ ready)

Dispatch_KeepPending ==         \* mutant: _pending_events.pop is missing
    /\ Turn
    /\ loop' = "waiting"
    /\ handlers' = handlers \union Range(Batch)
    /\ delivered' = [k \in Keys |->
                       Max({delivered[k]} \union
                           {e.ver : e \in {f \in Range(Batch) : f.key = k}})]
    /\ dispatched' = dispatched + Len(queue)
    /\ queue' = <<>>
    /\ coalescing' = {}
    /\ ready' = FALSE
    /\ UNCHANGED <<calls, pending, sequence, counters, published>>

Dispatch ==
    /\ Turn
    /\ loop' = "waiting"
    /\ handlers' = handlers \union Range(Batch)
    /\ delivered' = [k \in Keys |->
                       Max({delivered[k]} \union
                           {e.ver : e \in {f \in Range(Batch) : f.key = k}})]
    /\ dispatched' = dispatched + Len(queue)
    /\ queue' = <<>>
    /\ pending' = NoEvents
    /\ coalescing' = {}
    /\ ready' = FALSE
    /\ UNCHANGED <<calls, sequence, counters, published>>

HandlerEnds_NotCancelled(e) ==  \* mutant: shutdown forgets task.cancel()
    /\ e \in handlers /\ loop # "stopping"
    /\ handlers' = handlers \ {e}
    /\ UNCHANGED <<calls, queue, pending, coalescing, ready, loop, sequence,
                   counters, published, delivered, dispatched>>

\* _safe_call: a handler ends, whether it returned, raised or was cancelled.
HandlerEnds(e) ==
    /\ e \in handlers
    /\ handlers' = handlers \ {e}
    /\ UNCHANGED <<calls, queue, pending, coalescing, ready, loop, sequence,
                   counters, published, delivered, dispatched>>

\* run_forever cancels the dispatch task, which cancels the handler tasks ...
Stop ==
    /\ loop = "waiting"
    /\ loop' = "stopping"
    /\ UNCHANGED <<calls, queue, pending, coalescing, ready, sequence, handlers,
                   counters, published, delivered, dispatched>>

\* ... and gathers them.  What is queued stays queued.
Stopped ==
    /\ loop = "stopping" /\ handlers = {}
    /\ loop' = "stopped"
    /\ UNCHANGED <<calls, queue, pending, coalescing, ready, sequence, handlers,
                   counters, published, delivered, dispatched>>

Next ==
    \/ \E k \in Keys : Publish(k)
    \/ Enqueue
    \/ Dispatch
    \/ \E e \in handlers : HandlerEnds(e)
    \/ Stop
    \/ Stopped

Spec == Init /\ [][Next]_vars

\* The asyncio loop runs every scheduled callback and every ready task, and a
\* cancelled handler ends; one that is not cancelled may take for ever.
FairSpec ==
    /\ Spec
    /\ WF_vars(Enqueue) /\ WF_vars(Dispatch) /\ WF_vars(Stopped)
    /\ \A e \in Event : WF_vars(loop = "stopping" /\ HandlerEnds(e))

-----------------------------------------------------------------------------
(* Properties                                                              *)

TypeOK ==
    /\ calls \in Seq(Event)
    /\ queue \in Seq(Token)
    /\ DOMAIN pending \subseteq Token
    /\ \A t \in DOMAIN pending : pending[t] \in Event
    /\ coalescing \subseteq Keys
    /\ ready \in BOOLEAN /\ loop \in Loop
    /\ sequence \in Nat /\ coalesced \in Nat /\ dropped \in Nat /\ dispatched \in Nat
    /\ handlers \subseteq Event
    /\ published \in [Keys -> Version] /\ delivered \in [Keys -> Version]

\* Well typed, and the three containers of the bus agree whatever was displaced: the queue
\* lists each pending event once, never holds more than MaxSize, and
\* _coalescing_keys is the set of the coalescing events that wait.
QueueMatchesPending ==
    /\ TypeOK
    /\ Len(queue) <= MaxSize
    /\ Range(queue) = DOMAIN pending
    /\ IsInjective(queue)
    /\ coalescing = {t \in DOMAIN pending : Coalesces(pending[t])}
    /\ \A t \in coalescing : pending[t].key = t

\* Where an event may be: scheduled, queued, given to handlers, or in a counter of
\* stats() as replaced or lost.
Total == Len(calls) + Len(queue) + dispatched + coalesced + dropped

\* No event vanishes or is counted twice, whatever way it leaves the bus: a
\* publication adds one to that sum, every other step leaves it alone, shutdown
\* included.
NothingVanishes ==
    [][Total' = IF published' = published THEN Total ELSE Total + 1]_vars

\* No key goes back in time: what waits is newer than what handlers have seen and
\* is popped in the order of publication, what is scheduled is newer than what waits.
PerKeyOrder ==
    /\ \A t \in DOMAIN pending :
         delivered[pending[t].key] < pending[t].ver
    /\ \A i, j \in DOMAIN queue :
         i < j /\ pending[queue[i]].key = pending[queue[j]].key
           => pending[queue[i]].ver < pending[queue[j]].ver
    /\ \A i \in DOMAIN calls :
         /\ delivered[calls[i].key] < calls[i].ver
         /\ calls[i].ver <= published[calls[i].key]
         /\ \A t \in DOMAIN pending :
              pending[t].key = calls[i].key => pending[t].ver < calls[i].ver
    /\ \A i, j \in DOMAIN calls :
         i < j /\ calls[i].key = calls[j].key => calls[i].ver < calls[j].ver
    /\ \A k \in Keys : delivered[k] <= published[k]
    /\ \A t \in DOMAIN pending : pending[t].ver <= published[pending[t].key]

Mailbox == INSTANCE EventMailbox WITH
    Versions <- Version,
    inbox <- {pending[t] : t \in DOMAIN pending},
    delivered <- delivered

\* The bus is a mailbox: whatever the queue displaces, subscribers get each
\* key's events in order and lose at most one event per accepted one.
ImplementsMailbox == Mailbox!Spec

\* While the loop runs, no backlog is forever: queued events are dispatched.
BacklogDrains == queue # <<>> ~> (queue = <<>> \/ loop \in {"stopping", "stopped"})

\* Shutdown ends: a cancelled dispatch task gets past its gather.
ShutdownEnds == loop = "stopping" ~> loop = "stopped"

\* A candle close is given up only for another candle close; lesser events are
\* what is evicted (event_bus.py:190 calls them non-critical).  The code
\* also displaces closes for a ticker of a symbol that has none queued.
CriticalOutlivesTicker ==
    [][\A t \in DOMAIN pending :
         Kind(pending[t]) = "kline" /\ t \notin DOMAIN pending' /\ queue' # <<>>
           => \E u \in DOMAIN pending' \ DOMAIN pending : Kind(pending'[u]) = "kline"]_vars

\* What coalesced_count counts has been replaced by a newer event of its key.
\* The code also counts a close displaced by the close of another symbol.
CoalescedWasSuperseded ==
    [][coalesced' > coalesced =>
         \A t \in DOMAIN pending : t \in DOMAIN pending']_vars
=============================================================================
