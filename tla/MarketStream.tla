---------------------------- MODULE MarketStream ----------------------------
(***************************************************************************)
(* FuturesWSManager (engine/market/ws.py, _ws_connection.py): the market   *)
(* endpoint of the WebSocket manager and its candle caches.  The endpoint  *)
(* loop connects, subscribes again and reads; subscribe() changes the set  *)
(* of symbols and sends commands over whatever connection there is; a      *)
(* candle that closes is appended to the cache of its symbol; a gap, a new *)
(* symbol, a reconnect or a stale cache start a backfill, which fetches    *)
(* the history over REST and puts it in place of the cache.                *)
(*                                                                         *)
(* One interval is kept in full; what a backfill does for the other        *)
(* intervals of the symbol, and for the other symbols of its batch, is the *)
(* stage "others".  No coroutine waits while it holds _data_lock or _lock, *)
(* so what they guard is one step here.  A candle is its number, "now" is  *)
(* the candle still open.  Assumed of the environment: the loop reads the  *)
(* close of a candle before the next one closes.                           *)
(***************************************************************************)
EXTENDS Naturals, SequencesExt

CONSTANTS
    Symbols,
    Listed,         \* the symbols start() is called with
    Lists,          \* the lists subscribe() is called with
    Callers,        \* who calls subscribe(): shortlist refreshes, the operator
    LastCandle,     \* bound: candles that close
    StaleAfter,     \* intervals after which a cache is stale: 6
    StreamCap,      \* symbols beyond which a connection has too many streams
    MaxCalls,       \* bound: calls of subscribe()
    MaxFaults       \* bound: failed fetches and lost connections

ASSUME ListedAssumption == Listed \subseteq Symbols /\ Lists \subseteq SUBSET Symbols
ASSUME BoundsAssumption ==
    {LastCandle, StaleAfter, StreamCap, MaxCalls, MaxFaults} \subseteq Nat

VARIABLES
    symbols,        \* _symbols
    klines,         \* _klines: candles cached per symbol
    fill,           \* the backfills of a symbol: who started it, how far it is
    cooldown,       \* symbols in _backfill_cooldowns
    link,           \* the endpoint loop and its connection
    plan,           \* the streams resubscribe_all is about to ask for
    server,         \* the streams the exchange sends on this connection
    socket,         \* symbols whose last closed candle is not read yet
    call,           \* each call of subscribe()
    now,
    calls, faults,  \* counted against the bounds
    neglected,      \* history: symbols whose repair failed or was turned away
    astray          \* history: symbols whose streams may be missing

caches == <<klines, fill, cooldown, neglected>>
streams == <<link, plan, server, socket>>
vars == <<symbols, caches, streams, call, now, calls, faults, astray>>

\* A backfill is scheduled (and registered in _backfill_symbols_inflight),
\* run by the endpoint loop after a disconnect, or by its health monitor.
Starters == {"scheduled", "loop", "health"}
NoFill == [at |-> "none", snap |-> 0]
Starting == [at |-> "start", snap |-> 0]
NoCall == [at |-> "idle", removed |-> {}, added |-> {}]

\* Right after start().
Init ==
    /\ symbols = Listed /\ klines = [s \in Symbols |-> <<>>]
    /\ fill = [w \in Starters |-> [s \in Symbols |->
                 IF w = "scheduled" /\ s \in Listed THEN Starting ELSE NoFill]]
    /\ cooldown = {} /\ neglected = {} /\ astray = {}
    /\ link = "connecting" /\ plan = {} /\ server = {} /\ socket = {}
    /\ call = [c \in Callers |-> NoCall]
    /\ now = 1 /\ calls = 0 /\ faults = 0

Fault == faults < MaxFaults /\ faults' = faults + 1

-----------------------------------------------------------------------------
(* Backfills.                                                              *)

\* The fills after starter w has begun to fill the symbols in S;
\* _schedule_backfill leaves out those it has in flight.
StartFill(w, S) ==
    fill' = [fill EXCEPT ![w] = [s \in Symbols |->
                IF s \in S /\ @[s].at = "none" THEN Starting ELSE @[s]]]

Step(w, s, stage) == fill' = [fill EXCEPT ![w][s].at = stage]

\* _backfill: a symbol in cooldown is skipped.
BeginFill(w, s) ==
    /\ fill[w][s].at = "start"
    /\ \/ s \notin cooldown /\ Step(w, s, "fetch") /\ UNCHANGED neglected
       \/ s \in cooldown /\ Step(w, s, "others") /\ neglected' = neglected \union {s}
    /\ UNCHANGED <<symbols, klines, cooldown, streams, call, now, calls, faults, astray>>

\* The exchange takes the closed candles of the answer.
Snapshot(w, s) ==
    /\ fill[w][s].at = "fetch"
    /\ fill' = [fill EXCEPT ![w][s] = [at |-> "answered", snap |-> now - 1]]
    /\ UNCHANGED <<symbols, klines, cooldown, neglected, streams, call, now, calls,
                   faults, astray>>

\* _backfill_one: the answer takes the place of the cache, whatever the cache
\* has got meanwhile and whether the symbol is still subscribed; an empty answer
\* changes nothing.
WriteFill(w, s) ==
    /\ fill[w][s].at = "answered"
    /\ Step(w, s, "others")
    /\ IF fill[w][s].snap = 0
       THEN neglected' = neglected \union {s} /\ UNCHANGED <<klines, cooldown>>
       ELSE /\ klines' = [klines EXCEPT ![s] = [n \in 1 .. fill[w][s].snap |-> n]]
            /\ cooldown' = cooldown \ {s}
            /\ neglected' = neglected \ {s}
    /\ UNCHANGED <<symbols, streams, call, now, calls, faults, astray>>

\* The fetch fails.  The other intervals may clear the cooldown again.
FetchFails(w, s) ==
    /\ Fault /\ fill[w][s].at \in {"fetch", "answered"}
    /\ Step(w, s, "others")
    /\ cooldown' \in {cooldown, cooldown \union {s}}
    /\ neglected' = neglected \union {s}
    /\ UNCHANGED <<symbols, klines, streams, call, now, calls, astray>>

EndFill(w, s) ==
    /\ fill[w][s].at = "others"
    /\ fill' = [fill EXCEPT ![w][s] = NoFill]
    /\ UNCHANGED <<symbols, klines, cooldown, neglected, streams, call, now, calls,
                   faults, astray>>

CooldownElapses(s) ==
    /\ s \in cooldown /\ cooldown' = cooldown \ {s}
    /\ UNCHANGED <<symbols, klines, fill, neglected, streams, call, now, calls, faults,
                   astray>>

Filling(w) == \E s \in Symbols : fill[w][s].at # "none"

\* A cache that ends too long ago is stale, and so is an empty one.
Behind(s) == klines[s] # <<>> /\ (now - 1) - Last(klines[s]) > StaleAfter
Stale(s) == klines[s] = <<>> \/ Behind(s)

-----------------------------------------------------------------------------
(* Candles.                                                                *)

\* The open candle closes; the exchange tells whoever is subscribed.
Close ==
    /\ now <= LastCandle /\ socket = {}
    /\ now' = now + 1
    /\ socket' = server
    /\ UNCHANGED <<symbols, caches, link, plan, server, call, calls, faults, astray>>

\* A missed candle schedules a backfill; one that is under way and has
\* written this interval already turns the request away.
RepairGap(s, gap) ==
    IF ~gap THEN UNCHANGED <<fill, neglected>>
    ELSE /\ StartFill("scheduled", {s})
         /\ neglected' = IF fill["scheduled"][s].at = "others" THEN neglected \union {s}
                         ELSE neglected

Read(s) == link = "reading" /\ s \in socket /\ socket' = socket \ {s}
Heard(s) == symbols = {} \/ s \in symbols

\* Mutant: a single missed candle is no gap.
HandleKline_LateGap(s) ==
    LET n == now - 1
        old == klines[s]
    IN  /\ Read(s) /\ Heard(s)
        /\ RepairGap(s, old # <<>> /\ n > Last(old) + 2)
        /\ klines' = [klines EXCEPT
              ![s] = IF old # <<>> /\ Last(old) = n THEN old ELSE Append(old, n)]
        /\ UNCHANGED <<symbols, cooldown, link, plan, server, call, now, calls, faults,
                       astray>>

\* Mutant: a candle that is already cached is appended again.
HandleKline_Twice(s) ==
    LET n == now - 1
        old == klines[s]
    IN  /\ Read(s) /\ Heard(s)
        /\ RepairGap(s, old # <<>> /\ n > Last(old) + 1)
        /\ klines' = [klines EXCEPT ![s] = Append(old, n)]
        /\ UNCHANGED <<symbols, cooldown, link, plan, server, call, now, calls, faults,
                       astray>>

HandleKline(s) ==
    LET n == now - 1
        old == klines[s]
    IN  /\ Read(s) /\ Heard(s)
        /\ RepairGap(s, old # <<>> /\ n > Last(old) + 1)
        /\ klines' = [klines EXCEPT
              ![s] = IF old # <<>> /\ Last(old) = n THEN old ELSE Append(old, n)]
        /\ UNCHANGED <<symbols, cooldown, link, plan, server, call, now, calls, faults,
                       astray>>

DropKline(s) ==
    /\ Read(s) /\ ~Heard(s)
    /\ UNCHANGED <<symbols, caches, link, plan, server, call, now, calls, faults, astray>>

-----------------------------------------------------------------------------
(* subscribe().                                                            *)

Idle(c) == call[c].at = "idle"
Removing == UNION {call[c].removed : c \in Callers}

\* The new list, and the caches of the symbols that left.
Subscribe(c) ==
    /\ Idle(c) /\ calls < MaxCalls /\ calls' = calls + 1
    /\ \E wanted \in Lists :
          LET removed == symbols \ wanted
              added == wanted \ symbols
          IN  /\ wanted # symbols /\ symbols' = wanted
              /\ \/ \* validate_endpoint_stream_limits raises after the list is replaced
                    /\ Cardinality(wanted) > StreamCap
                    /\ astray' = astray \union added
                    /\ UNCHANGED <<klines, call>>
                 \/ /\ Cardinality(wanted) <= StreamCap
                    /\ astray' = (astray \ removed) \union (added \intersect Removing)
                    /\ klines' = [s \in Symbols |->
                          IF s \in removed THEN <<>> ELSE klines[s]]
                    /\ call' = [call EXCEPT ![c] =
                          [at |-> "unsubscribe", removed |-> removed, added |-> added]]
    /\ UNCHANGED <<fill, cooldown, neglected, streams, now, faults>>

\* Commands go over the connection of the moment; without one they are
\* dropped, for a reconnect asks for all streams.  A command is one step:
\* its chunks of 100 streams and a failed send that is swallowed are left out.
Connected == link \in {"resubscribing", "reading"}

SendUnsubscribe(c) ==
    /\ call[c].at = "unsubscribe"
    /\ server' = IF Connected THEN server \ call[c].removed ELSE server
    /\ call' = [call EXCEPT ![c].at = "subscribe", ![c].removed = {}]
    /\ UNCHANGED <<symbols, caches, link, plan, socket, now, calls, faults, astray>>

\* Mutant: nothing is sent before the connection has subscribed again.
SendSubscribe_Waiting(c) ==
    /\ call[c].at = "subscribe"
    /\ server' = IF link = "reading" THEN server \union call[c].added ELSE server
    /\ link' = IF link = "dead" /\ call[c].added # {} THEN "connecting" ELSE link
    /\ call' = [call EXCEPT ![c].at = "backfill"]
    /\ UNCHANGED <<symbols, caches, plan, socket, now, calls, faults, astray>>

\* A loop that has ended is started again.
SendSubscribe(c) ==
    /\ call[c].at = "subscribe"
    /\ server' = IF Connected THEN server \union call[c].added ELSE server
    /\ link' = IF link = "dead" /\ call[c].added # {} THEN "connecting" ELSE link
    /\ call' = [call EXCEPT ![c].at = "backfill"]
    /\ UNCHANGED <<symbols, caches, plan, socket, now, calls, faults, astray>>

ScheduleNew(c) ==
    /\ call[c].at = "backfill"
    /\ StartFill("scheduled", call[c].added)
    /\ call' = [call EXCEPT ![c] = NoCall]
    /\ UNCHANGED <<symbols, klines, cooldown, neglected, streams, now, calls, faults, astray>>

-----------------------------------------------------------------------------
(* The endpoint loop.                                                      *)

\* After its sleep the loop repairs the caches that are stale, all of them
\* or none: how the session ended, how long it took and whether a symbol has
\* no cache decide.  It connects only when that is done.
Wake ==
    /\ link = "down"
    /\ link' = "connecting"
    /\ LET stale == {s \in symbols : Stale(s)}
       IN  \/ StartFill("loop", stale)
           \/ UNCHANGED fill
    /\ UNCHANGED <<symbols, klines, cooldown, neglected, plan, server, socket, call, now,
                   calls, faults, astray>>

\* apply_connected_state; resubscribe_all takes the list once, here.
Connect ==
    /\ link = "connecting" /\ ~Filling("loop")
    /\ link' = "resubscribing" /\ plan' = symbols
    /\ UNCHANGED <<symbols, caches, server, socket, call, now, calls, faults, astray>>

Resubscribe ==
    /\ link = "resubscribing"
    /\ link' = "reading" /\ plan' = {}
    /\ server' = server \union plan
    /\ astray' = astray \ (plan \ Removing)
    /\ UNCHANGED <<symbols, caches, socket, call, now, calls, faults>>

\* The exchange, the network or the health monitor ends the connection; what
\* is unread is lost.
Disconnect ==
    /\ Fault /\ Connected
    /\ link' = "down" /\ server' = {} /\ socket' = {} /\ plan' = {}
    /\ UNCHANGED <<symbols, caches, call, now, calls, astray>>

\* A handshake error that neither handler of the loop names ends its task.
LoopDies ==
    /\ Fault /\ link = "connecting" /\ ~Filling("loop")
    /\ link' = "dead"
    /\ UNCHANGED <<symbols, caches, plan, server, socket, call, now, calls, astray>>

\* evaluate_endpoint_health: caches that are behind are filled again.
Health ==
    /\ link = "reading" /\ ~Filling("health")
    /\ \E s \in symbols : Behind(s)
    /\ StartFill("health", {s \in symbols : Behind(s)})
    /\ UNCHANGED <<symbols, klines, cooldown, neglected, streams, call, now, calls, faults,
                   astray>>

Fill(w, s) == BeginFill(w, s) \/ Snapshot(w, s) \/ WriteFill(w, s) \/ FetchFails(w, s)
              \/ EndFill(w, s)
Command(c) == Subscribe(c) \/ SendUnsubscribe(c) \/ SendSubscribe(c) \/ ScheduleNew(c)
Loop == Wake \/ Connect \/ Resubscribe \/ Disconnect \/ LoopDies \/ Health

Next ==
    \/ \E w \in Starters, s \in Symbols : Fill(w, s)
    \/ \E s \in Symbols : HandleKline(s) \/ DropKline(s) \/ CooldownElapses(s)
    \/ \E c \in Callers : Command(c)
    \/ Loop \/ Close

Spec == Init /\ [][Next]_vars

-----------------------------------------------------------------------------
(* Properties.                                                             *)

\* A cache lists its candles in the order of time, each once, whichever
\* backfills put an older or newer history in its place between two closes
\* (_handle_kline, _backfill_one).
CacheOrdered ==
    \A s \in Symbols : \A i \in 1 .. Len(klines[s]) - 1 : klines[s][i] < klines[s][i + 1]

Hole(s) == \E i \in 1 .. Len(klines[s]) - 1 : klines[s][i + 1] > klines[s][i] + 1

\* A candle that is missing in the middle of a cache is being fetched, unless
\* a fetch for the symbol failed, was skipped in its cooldown, or the gap was
\* found while the backfill in flight had already passed this interval; these
\* gaps nobody looks for again (_handle_kline, _schedule_backfill).
HoleUnderRepair ==
    \A s \in Symbols : Hole(s) => s \in neglected \/ fill["scheduled"][s].at # "none"

\* When the loop reads and no subscribe() is under way, every symbol of the
\* list has its stream, however calls, disconnects and the resubscription
\* interleave, except a symbol that came back while another call had still to
\* unsubscribe it, or came with a list the stream limit refused (subscribe,
\* send_subscription_command, resubscribe_all).
StreamsFollowList ==
    link = "reading" /\ (\A c \in Callers : Idle(c)) => symbols \ server \subseteq astray
=============================================================================
