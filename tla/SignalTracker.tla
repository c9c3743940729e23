---------------------------- MODULE SignalTracker ----------------------------
(***************************************************************************)
(* The journal of delivered signals kept by bot/persistence/tracking.py:   *)
(* one SQLite row per tracking id (active_signals), one outcome row per    *)
(* tracking id (signal_outcomes), and the asyncio tasks that read rows,    *)
(* decide on their snapshots and write whole rows back.                    *)
(*                                                                         *)
(* Every await of the code is a boundary between two steps.  A task holds  *)
(* a snapshot of the rows it read; save_active_signal overwrites the whole *)
(* row from that snapshot without looking at what the row has become.      *)
(* What protects a snapshot is the per-symbol asyncio.Lock, which some     *)
(* entry points take (on_agg_trade, the per-symbol review,                 *)
(* supersede_open_signal) and others do not (the expiry sweep of           *)
(* review_open_signals, force_close_tracking_ids,                          *)
(* update_signal_message_ids, cancel_pending_delivery).                    *)
(*                                                                         *)
(* Prices are abstracted to the verdicts a review can reach on a row; the  *)
(* module TrackedReview models how prices select the verdict.              *)
(***************************************************************************)
EXTENDS Naturals, Sequences, FiniteSets

CONSTANTS
    Tasks,          \* concurrent asyncio tasks
    Signals,        \* tracking ids that may be delivered
    Symbols,        \* trading symbols
    Setups,         \* strategy setups
    SymbolOf,       \* the symbol of a signal
    SetupOf,        \* the setup of a signal
    None,           \* "no task", "no signal", "no reason"
    Ops,            \* the entry points this instance exercises
    Exits,          \* the ways an active row may end in this instance
    Faults,         \* the faults of the environment in this instance
    MaxBatch        \* rows reconcile_closed_outcomes looks at (50 in the code)

LockedOps == {"trade", "review", "supersede"}
UnlockedOps == {"sweep", "force", "link", "cancel"}
AllOps == LockedOps \union UnlockedOps \union {"deliver"}

PendingReasons == {"expired", "unactivated_close", "superseded",
                   "delivery_not_sent"}
ActiveReasons == {"tp1_hit", "tp2_hit", "stop_loss", "ambiguous_exit"}
Reasons == PendingReasons \union ActiveReasons
                \union {"emergency_exit", "startup_cleanup"}

ASSUME ConstantsAssumption ==
    /\ SymbolOf \in [Signals -> Symbols]
    /\ SetupOf \in [Signals -> Setups]
    /\ None \notin Tasks \union Signals \union Reasons \union Symbols
    /\ Ops \subseteq AllOps
    /\ Exits \subseteq ActiveReasons
    /\ Faults \subseteq {"crash", "timeout", "cycle", "save_fails"}
    /\ MaxBatch \in Nat \ {0}

VARIABLES
    row,        \* active_signals: the stored row of each tracking id
    outcome,    \* signal_outcomes: the reason stored for each tracking id
    born,       \* the tracking ids in order of creation
    expired,    \* the ids whose pending_expires_at has passed
    fate,       \* what became of the Telegram post of each id
    phase,      \* start() has closed stale rows / reconciled / is done;
                \* "degraded": up, but the reconciliation has failed
    lock,       \* _symbol_review_locks: the holder of each symbol's lock
    queued,     \* _pending_outcomes: outcome payloads not yet flushed
    op,         \* the operation each task runs
    pc,         \* where in that operation the task is suspended
    sym,        \* the symbol of the lock it holds or waits for
    todo,       \* rows of its snapshot it still has to process
    snap,       \* the rows it read
    late,       \* ids expired at the "now" the operation captured
    mine,       \* the signal a delivering task delivers
    cur,        \* the row whose processing has begun and not ended
    batch,      \* payloads a task took out of queued and is saving
    dirty,      \* the operation has to persist when its rows are done
    syms,       \* symbols a sweep still has to review under their lock
    closures,   \* terminal events emitted per id (saturates at 2)
    acts        \* activation events emitted per id (saturates at 2)

db == <<row, outcome, born, expired, fate, phase>>
local == <<op, pc, sym, todo, snap, late, mine, cur, batch, dirty, syms>>
vars == <<db, lock, queued, local, closures, acts>>

Status == {"none", "pending", "active", "closed"}
Row == [st : Status, tp1 : BOOLEAN, msg : BOOLEAN, why : Reasons \union {None}]
NoRow == [st |-> "none", tp1 |-> FALSE, msg |-> FALSE, why |-> None]
Payload == [id : Signals, why : Reasons]

IsOpen(r) == r.st \in {"pending", "active"}
OpenRows == {s \in Signals : IsOpen(row[s])}
OpenOf(y) == {s \in OpenRows : SymbolOf[s] = y}
Ids(payloads) == {p.id : p \in payloads}
Bump(n) == IF n < 2 THEN n + 1 ELSE n

PCs == {"idle", "lock", "read", "row", "queue", "flush", "batch",
        "end", "endBatch", "done", "save", "send"}

TypeOK ==
    /\ row \in [Signals -> Row]
    /\ outcome \in [Signals -> Reasons \union {None}]
    /\ born \in Seq(Signals)
    /\ expired \subseteq Signals
    /\ fate \in [Signals -> {"new", "offered", "sent", "unsent"}]
    /\ phase \in {"boot", "reconcile", "up", "degraded"}
    /\ lock \in [Symbols -> Tasks \union {None}]
    /\ queued \subseteq Payload
    /\ op \in [Tasks -> AllOps \union {"adverse", "arm", "none"}]
    /\ pc \in [Tasks -> PCs]
    /\ sym \in [Tasks -> Symbols \union {None}]
    /\ todo \in [Tasks -> SUBSET Signals]
    /\ snap \in [Tasks -> [Signals -> Row]]
    /\ late \in [Tasks -> SUBSET Signals]
    /\ mine \in [Tasks -> Signals \union {None}]
    /\ cur \in [Tasks -> Signals \union {None}]
    /\ batch \in [Tasks -> SUBSET Payload]
    /\ dirty \in [Tasks -> BOOLEAN]
    /\ syms \in [Tasks -> SUBSET Symbols]
    /\ closures \in [Signals -> 0..2]
    /\ acts \in [Signals -> 0..2]

Init ==
    /\ row = [s \in Signals |-> NoRow]
    /\ outcome = [s \in Signals |-> None]
    /\ born = <<>>
    /\ expired = {}
    /\ fate = [s \in Signals |-> "new"]
    /\ phase = "up"
    /\ lock = [y \in Symbols |-> None]
    /\ queued = {}
    /\ op = [t \in Tasks |-> "none"]
    /\ pc = [t \in Tasks |-> "idle"]
    /\ sym = [t \in Tasks |-> None]
    /\ todo = [t \in Tasks |-> {}]
    /\ snap = [t \in Tasks |-> [s \in Signals |-> NoRow]]
    /\ late = [t \in Tasks |-> {}]
    /\ mine = [t \in Tasks |-> None]
    /\ cur = [t \in Tasks |-> None]
    /\ batch = [t \in Tasks |-> {}]
    /\ dirty = [t \in Tasks |-> FALSE]
    /\ syms = [t \in Tasks |-> {}]
    /\ closures = [s \in Signals |-> 0]
    /\ acts = [s \in Signals |-> 0]

\* start() comes up whether or not the reconciliation went through.
Running == phase \in {"up", "degraded"}

\* A task past AcquireLock of a locked operation.
Holding(t) ==
    /\ op[t] \in LockedOps \union {"adverse"}
    /\ pc[t] \notin {"idle", "lock"}

-----------------------------------------------------------------------------
(* Entry points: a task begins an operation.                               *)

Reset(t) ==
    /\ op' = [op EXCEPT ![t] = "none"]
    /\ pc' = [pc EXCEPT ![t] = "idle"]
    /\ sym' = [sym EXCEPT ![t] = None]
    /\ todo' = [todo EXCEPT ![t] = {}]
    /\ snap' = [snap EXCEPT ![t] = [s \in Signals |-> NoRow]]
    /\ late' = [late EXCEPT ![t] = {}]
    /\ mine' = [mine EXCEPT ![t] = None]
    /\ cur' = [cur EXCEPT ![t] = None]
    /\ batch' = [batch EXCEPT ![t] = {}]
    /\ dirty' = [dirty EXCEPT ![t] = FALSE]
    /\ syms' = [syms EXCEPT ![t] = {}]

\* on_agg_trade and review_open_signals_for_symbol: "now" is taken before the
\* lock is awaited, the rows are read after it is held.
BeginLocked(t, o, y) ==
    /\ Running /\ pc[t] = "idle" /\ o \in Ops
    /\ op' = [op EXCEPT ![t] = o]
    /\ pc' = [pc EXCEPT ![t] = "lock"]
    /\ sym' = [sym EXCEPT ![t] = y]
    /\ late' = [late EXCEPT ![t] = expired]
    /\ UNCHANGED <<db, lock, queued, todo, snap, mine, cur, batch, dirty, syms,
                   closures, acts>>

OnAggTrade(t, y) == BeginLocked(t, "trade", y)
ReviewForSymbol(t, y) == BeginLocked(t, "review", y)

ReviewOpenSignals(t) ==
    /\ Running /\ pc[t] = "idle" /\ "sweep" \in Ops
    /\ op' = [op EXCEPT ![t] = "sweep"]
    /\ pc' = [pc EXCEPT ![t] = "read"]
    /\ UNCHANGED <<db, lock, queued, sym, todo, snap, late, mine, cur, batch,
                   dirty, syms, closures, acts>>

ForceClose(t, wanted) ==
    /\ Running /\ pc[t] = "idle" /\ "force" \in Ops
    /\ op' = [op EXCEPT ![t] = "force"]
    /\ pc' = [pc EXCEPT ![t] = "read"]
    /\ todo' = [todo EXCEPT ![t] = wanted]
    /\ UNCHANGED <<db, lock, queued, sym, snap, late, mine, cur, batch, dirty,
                   syms, closures, acts>>

\* One signal of the delivery loop: superseding comes first when the setup's
\* cooldown is active, otherwise the signal goes straight to the journal.
SelectAndDeliver(t, s) ==
    /\ Running /\ pc[t] = "idle" /\ "deliver" \in Ops
    /\ fate[s] = "new"
    /\ fate' = [fate EXCEPT ![s] = "offered"]
    /\ born' = Append(born, s)
    /\ mine' = [mine EXCEPT ![t] = s]
    /\ \/ /\ op' = [op EXCEPT ![t] = "arm"]
          /\ pc' = [pc EXCEPT ![t] = "save"]
          /\ UNCHANGED sym
       \/ /\ "supersede" \in Ops
          /\ op' = [op EXCEPT ![t] = "supersede"]
          /\ pc' = [pc EXCEPT ![t] = "lock"]
          /\ sym' = [sym EXCEPT ![t] = SymbolOf[s]]
    /\ UNCHANGED <<row, outcome, expired, phase, lock, queued, todo, snap, late,
                   cur, batch, dirty, syms, closures, acts>>

-----------------------------------------------------------------------------
(* Reading rows: the snapshot an operation works on.                       *)

\* Mutant: two operations may be inside the symbol's review at once.
AcquireLock_NotExclusive(t) ==
    /\ pc[t] = "lock"
    /\ lock' = [lock EXCEPT ![sym[t]] = t]
    /\ pc' = [pc EXCEPT ![t] = "read"]
    /\ UNCHANGED <<db, queued, op, sym, todo, snap, late, mine, cur, batch, dirty,
                   syms, closures, acts>>

AcquireLock(t) ==
    /\ pc[t] = "lock" /\ lock[sym[t]] = None
    /\ lock' = [lock EXCEPT ![sym[t]] = t]
    /\ pc' = [pc EXCEPT ![t] = "read"]
    /\ UNCHANGED <<db, queued, op, sym, todo, snap, late, mine, cur, batch, dirty,
                   syms, closures, acts>>

\* Take the rows in "work"; without any, the operation returns early.
ReadWork(t, work, persist) ==
    /\ snap' = [snap EXCEPT ![t] = row]
    /\ todo' = [todo EXCEPT ![t] = work]
    /\ dirty' = [dirty EXCEPT ![t] = persist]
    /\ pc' = [pc EXCEPT ![t] = "row"]
    /\ UNCHANGED <<db, lock, queued, sym, mine, cur, batch, closures, acts>>

ReadSymbol(t) ==
    /\ pc[t] = "read" /\ op[t] \in {"trade", "review"}
    /\ LET open == OpenOf(sym[t])
       IN  ReadWork(t, open, op[t] = "review" /\ open # {})
    /\ UNCHANGED <<op, late, syms>>

\* _check_adverse_event: the candles show a flash crash; pending rows are left
\* alone, every active row of the symbol is closed.
ReadAdverse(t) ==
    /\ pc[t] = "read" /\ op[t] = "review" /\ OpenOf(sym[t]) # {}
    /\ ReadWork(t, {s \in OpenOf(sym[t]) : row[s].st = "active"}, TRUE)
    /\ op' = [op EXCEPT ![t] = "adverse"]
    /\ UNCHANGED <<late, syms>>

ReadSuperseded(t) ==
    /\ pc[t] = "read" /\ op[t] = "supersede"
    /\ ReadWork(t, {s \in OpenOf(sym[t]) : /\ row[s].st = "pending"
                                           /\ SetupOf[s] = SetupOf[mine[t]]},
                FALSE)
    /\ UNCHANGED <<op, late, syms>>

ReadSweep(t) ==
    /\ pc[t] = "read" /\ op[t] = "sweep"
    /\ LET stale == {s \in OpenRows : row[s].st = "pending" /\ s \in expired}
       IN  /\ ReadWork(t, stale, FALSE)
           /\ syms' = [syms EXCEPT ![t] = {SymbolOf[s] : s \in OpenRows \ stale}]
    /\ late' = [late EXCEPT ![t] = expired]
    /\ UNCHANGED op

ReadForced(t) ==
    /\ pc[t] = "read" /\ op[t] = "force"
    /\ ReadWork(t, todo[t] \intersect OpenRows, OpenRows # {})
    /\ UNCHANGED <<op, late, syms>>

ReadForLink(t) ==
    /\ pc[t] = "read" /\ op[t] = "link"
    /\ ReadWork(t, {mine[t]} \intersect OpenRows, TRUE)
    /\ UNCHANGED <<op, late, syms>>

ReadForCancel(t) ==
    /\ pc[t] = "read" /\ op[t] = "cancel"
    /\ ReadWork(t, {s \in OpenRows : /\ s = mine[t] /\ row[s].st = "pending"
                                     /\ ~row[s].msg}, FALSE)
    /\ UNCHANGED <<op, late, syms>>

-----------------------------------------------------------------------------
(* Processing one row: the verdict is written back over the stored row.    *)

Processing(t, s) ==
    pc[t] = "row" /\ s \in todo[t] /\ cur[t] \in {None, s}

Put(t, s, r) ==
    /\ row' = [row EXCEPT ![s] = r]
    /\ snap' = [snap EXCEPT ![t][s] = r]
    /\ UNCHANGED <<outcome, born, expired, fate, phase, lock, queued, op, sym,
                   late, mine, batch, syms>>

Activate(t, s) ==
    /\ Processing(t, s) /\ op[t] \in {"trade", "review"}
    /\ snap[t][s].st = "pending"
    /\ op[t] = "trade" => s \notin late[t]
    /\ Put(t, s, [snap[t][s] EXCEPT !.st = "active"])
    /\ acts' = [acts EXCEPT ![s] = Bump(@)]
    /\ cur' = [cur EXCEPT ![t] = s]
    /\ dirty' = [dirty EXCEPT ![t] = TRUE]
    /\ UNCHANGED <<pc, todo, closures>>

MarkTp1(t, s) ==
    /\ Processing(t, s) /\ op[t] \in {"trade", "review"}
    /\ snap[t][s].st = "active" /\ ~snap[t][s].tp1
    /\ Put(t, s, [snap[t][s] EXCEPT !.tp1 = TRUE])
    /\ cur' = [cur EXCEPT ![t] = s]
    /\ dirty' = [dirty EXCEPT ![t] = TRUE]
    /\ UNCHANGED <<pc, todo, closures, acts>>

\* Nothing happened to the row, yet the whole snapshot is stored again.
MarkChecked(t, s) ==
    /\ Processing(t, s) /\ op[t] \in {"trade", "review"}
    /\ snap[t][s].st = "pending" => s \notin late[t]
    /\ Put(t, s, snap[t][s])
    /\ todo' = [todo EXCEPT ![t] = @ \ {s}]
    /\ cur' = [cur EXCEPT ![t] = None]
    /\ UNCHANGED <<pc, dirty, closures, acts>>

\* _close_signal: every close writes the snapshot with its terminal fields.
CloseRow(t, s, reason, rest, next) ==
    /\ Put(t, s, [snap[t][s] EXCEPT !.st = "closed", !.why = reason,
                                    !.tp1 = @ \/ reason = "tp1_hit"])
    /\ closures' = [closures EXCEPT ![s] = Bump(@)]
    /\ todo' = [todo EXCEPT ![t] = rest]
    /\ dirty' = [dirty EXCEPT ![t] = TRUE]
    /\ pc' = [pc EXCEPT ![t] = next]
    /\ UNCHANGED acts

\* Mutant: the closed row stays among the rows to process.
CloseEvent_KeepsRow(t, s, reason) ==
    /\ CloseRow(t, s, reason, todo[t], "queue")
    /\ cur' = [cur EXCEPT ![t] = s]

\* _close_event goes on to the outcome of the row it closed.  An error raised
\* between the stored close and the queued outcome (the model has none) would
\* send the review to its time fallback with the row closed but not counted.
CloseEvent(t, s, reason) ==
    /\ CloseRow(t, s, reason,
                IF op[t] = "trade" THEN {} ELSE todo[t] \ {s}, "queue")
    /\ cur' = [cur EXCEPT ![t] = s]

ClosePending(t, s) ==
    /\ Processing(t, s) /\ op[t] \in {"trade", "review"}
    /\ snap[t][s].st = "pending"
    /\ \/ s \in late[t] /\ CloseEvent(t, s, "expired")
       \/ /\ op[t] = "trade" => s \notin late[t]
          /\ CloseEvent(t, s, "unactivated_close")

CloseActive(t, s, reason) ==
    /\ Processing(t, s) /\ op[t] \in {"trade", "review"}
    /\ snap[t][s].st = "active"
    /\ reason = "tp2_hit" => snap[t][s].tp1
    /\ reason = "ambiguous_exit" => op[t] = "review"
    /\ CloseEvent(t, s, reason)

CloseEmergency(t, s) ==
    /\ Processing(t, s) /\ op[t] \in {"adverse", "force"}
    /\ CloseEvent(t, s, "emergency_exit")

CloseSuperseded(t, s) ==
    /\ Processing(t, s) /\ op[t] = "supersede"
    /\ CloseEvent(t, s, "superseded")

CloseExpired(t, s) ==
    /\ Processing(t, s) /\ op[t] = "sweep"
    /\ CloseEvent(t, s, "expired")

LinkMessage(t, s) ==
    /\ Processing(t, s) /\ op[t] = "link"
    /\ Put(t, s, [snap[t][s] EXCEPT !.msg = TRUE])
    /\ todo' = [todo EXCEPT ![t] = {}]
    /\ UNCHANGED <<pc, cur, dirty, closures, acts>>

\* cancel_pending_delivery closes the row without an outcome.
CancelRow(t, s) ==
    /\ Processing(t, s) /\ op[t] = "cancel"
    /\ CloseRow(t, s, "delivery_not_sent", {}, "row")
    /\ UNCHANGED cur

EndRows(t) ==
    /\ pc[t] = "row" /\ todo[t] = {} /\ cur[t] = None
    /\ pc' = [pc EXCEPT ![t] = IF dirty[t] THEN "end" ELSE "done"]
    /\ UNCHANGED <<db, lock, queued, op, sym, todo, snap, late, mine, cur, batch,
                   dirty, syms, closures, acts>>

-----------------------------------------------------------------------------
(* Outcomes: queue, then flush everybody's queue, then save the batch.     *)

QueueOutcome(t) ==
    /\ pc[t] = "queue"
    /\ queued' = queued \union {[id |-> cur[t], why |-> snap[t][cur[t]].why]}
    /\ pc' = [pc EXCEPT ![t] = "flush"]
    /\ UNCHANGED <<db, lock, op, sym, todo, snap, late, mine, cur, batch, dirty,
                   syms, closures, acts>>

\* After a flush: the close event returns to the rows, the final persist ends.
AfterFlush(t) ==
    /\ pc' = [pc EXCEPT ![t] = IF @ \in {"flush", "batch"} THEN "row" ELSE "done"]
    /\ cur' = [cur EXCEPT ![t] = None]

\* _flush_pending_outcomes: an empty queue returns at once, even when another
\* task has taken the payloads and is still saving them.
FlushNothing(t) ==
    /\ pc[t] \in {"flush", "end"} /\ queued = {}
    /\ AfterFlush(t)
    /\ UNCHANGED <<db, lock, queued, op, sym, todo, snap, late, mine, batch, dirty,
                   syms, closures, acts>>

\* Mutant: the task saves its own payload and clears everybody's.
FlushTake_OwnOnly(t) ==
    /\ pc[t] \in {"flush", "end"} /\ queued # {}
    /\ batch' = [batch EXCEPT ![t] = {p \in queued : p.id = cur[t]}]
    /\ queued' = {}
    /\ pc' = [pc EXCEPT ![t] = IF @ = "flush" THEN "batch" ELSE "endBatch"]
    /\ UNCHANGED <<db, lock, op, sym, todo, snap, late, mine, cur, dirty, syms,
                   closures, acts>>

FlushTake(t) ==
    /\ pc[t] \in {"flush", "end"} /\ queued # {}
    /\ batch' = [batch EXCEPT ![t] = queued]
    /\ queued' = {}
    /\ pc' = [pc EXCEPT ![t] = IF @ = "flush" THEN "batch" ELSE "endBatch"]
    /\ UNCHANGED <<db, lock, op, sym, todo, snap, late, mine, cur, dirty, syms,
                   closures, acts>>

\* save_signal_outcomes_batch upserts by tracking id: of two payloads of one
\* row the later in the list stays.
SaveBatch(t) ==
    /\ pc[t] \in {"batch", "endBatch"}
    /\ \E last \in [Ids(batch[t]) -> {p.why : p \in batch[t]}] :
          /\ \A s \in Ids(batch[t]) : [id |-> s, why |-> last[s]] \in batch[t]
          /\ outcome' = [s \in Signals |-> IF s \in Ids(batch[t]) THEN last[s]
                                                                  ELSE outcome[s]]
    /\ batch' = [batch EXCEPT ![t] = {}]
    /\ AfterFlush(t)
    /\ UNCHANGED <<row, born, expired, fate, phase, lock, queued, op, sym, todo,
                   snap, late, mine, dirty, syms, closures, acts>>

\* The batch has left the queue before it is saved: a failing save is logged.
SaveBatchFails(t) ==
    /\ "save_fails" \in Faults /\ pc[t] \in {"batch", "endBatch"}
    /\ batch' = [batch EXCEPT ![t] = {}]
    /\ AfterFlush(t)
    /\ UNCHANGED <<db, lock, queued, op, sym, todo, snap, late, mine, dirty, syms,
                   closures, acts>>

-----------------------------------------------------------------------------
(* The end of an operation, and what the task does next.                   *)

\* Mutant: the early return for a symbol without open rows keeps the lock.
ReleaseLock_LeakOnReturn(t) ==
    lock' = IF op[t] \in LockedOps \union {"adverse"} /\ dirty[t]
            THEN [lock EXCEPT ![sym[t]] = None] ELSE lock

ReleaseLock(t) ==
    lock' = IF op[t] \in LockedOps \union {"adverse"}
            THEN [lock EXCEPT ![sym[t]] = None] ELSE lock

Finish(t) ==
    /\ pc[t] = "done"
    /\ op[t] \in {"trade", "review", "adverse", "sweep", "force", "link", "cancel"}
    /\ syms[t] = {}
    /\ ReleaseLock(t) /\ Reset(t)
    /\ UNCHANGED <<db, queued, closures, acts>>

\* review_open_signals: on to the next symbol of the rows that had not expired.
ReviewNextSymbol(t) ==
    /\ pc[t] = "done" /\ op[t] \in {"sweep", "review", "adverse"}
    /\ ReleaseLock(t)
    /\ \E y \in syms[t] :
          /\ sym' = [sym EXCEPT ![t] = y]
          /\ syms' = [syms EXCEPT ![t] = @ \ {y}]
    /\ op' = [op EXCEPT ![t] = "review"]
    /\ pc' = [pc EXCEPT ![t] = "lock"]
    /\ snap' = [snap EXCEPT ![t] = [s \in Signals |-> NoRow]]
    /\ dirty' = [dirty EXCEPT ![t] = FALSE]
    /\ UNCHANGED <<db, queued, todo, late, mine, cur, batch, closures, acts>>

\* supersede_open_signal closed a row: the new signal may take its place.
SupersededReady(t) ==
    /\ pc[t] = "done" /\ op[t] = "supersede" /\ dirty[t]
    /\ ReleaseLock(t)
    /\ op' = [op EXCEPT ![t] = "arm"]
    /\ pc' = [pc EXCEPT ![t] = "save"]
    /\ sym' = [sym EXCEPT ![t] = None]
    /\ snap' = [snap EXCEPT ![t] = [s \in Signals |-> NoRow]]
    /\ UNCHANGED <<db, queued, todo, late, mine, cur, batch, dirty, syms, closures,
                   acts>>

\* Nothing was superseded: the signal is rejected as cooldown_active.
CooldownReject(t) ==
    /\ pc[t] = "done" /\ op[t] = "supersede" /\ ~dirty[t]
    /\ fate' = [fate EXCEPT ![mine[t]] = "unsent"]
    /\ ReleaseLock(t) /\ Reset(t)
    /\ UNCHANGED <<row, outcome, born, expired, phase, queued, closures, acts>>

-----------------------------------------------------------------------------
(* Delivery: arm the journal row, post, then link the post or cancel.      *)

\* Mutant: the journal row is armed as if the entry had been filled.
ArmSignal_Active(t) ==
    /\ pc[t] = "save" /\ op[t] = "arm"
    /\ row' = [row EXCEPT ![mine[t]] = [NoRow EXCEPT !.st = "active"]]
    /\ pc' = [pc EXCEPT ![t] = "end"]
    /\ UNCHANGED <<outcome, born, expired, fate, phase, lock, queued, op, sym, todo,
                   snap, late, mine, cur, batch, dirty, syms, closures, acts>>

ArmSignal(t) ==
    /\ pc[t] = "save" /\ op[t] = "arm"
    /\ row' = [row EXCEPT ![mine[t]] = [NoRow EXCEPT !.st = "pending"]]
    /\ pc' = [pc EXCEPT ![t] = "end"]
    /\ UNCHANGED <<outcome, born, expired, fate, phase, lock, queued, op, sym, todo,
                   snap, late, mine, cur, batch, dirty, syms, closures, acts>>

Armed(t) ==
    /\ pc[t] = "done" /\ op[t] = "arm"
    /\ pc' = [pc EXCEPT ![t] = "send"]
    /\ UNCHANGED <<db, lock, queued, op, sym, todo, snap, late, mine, cur, batch,
                   dirty, syms, closures, acts>>

Then(t, o) ==
    /\ op' = [op EXCEPT ![t] = o]
    /\ pc' = [pc EXCEPT ![t] = "read"]
    /\ UNCHANGED <<sym, todo, snap, late, mine, cur, batch, dirty, syms>>

\* deliver returned "sent" with a message id, or a success without one.
Sent(t) ==
    /\ pc[t] = "send"
    /\ fate' = [fate EXCEPT ![mine[t]] = "sent"]
    /\ \/ "link" \in Ops /\ Then(t, "link")
       \/ Reset(t)
    /\ UNCHANGED <<row, outcome, born, expired, phase, lock, queued, closures, acts>>

\* deliver returned any other status, returned nothing or ran into its timeout.
NotSent(t) ==
    /\ pc[t] = "send" /\ "cancel" \in Ops
    /\ fate' = [fate EXCEPT ![mine[t]] = "unsent"]
    /\ Then(t, "cancel")
    /\ UNCHANGED <<row, outcome, born, expired, phase, lock, queued, closures, acts>>

\* _wait_noncritical cancels arm_signals at any of its awaits: the row may or
\* may not be stored, the batch it was saving is gone, and the delivery loop
\* goes on to its next signal without cancelling the row.
ArmTimeout(t) ==
    /\ "timeout" \in Faults
    /\ op[t] = "arm" /\ pc[t] \in {"save", "end", "endBatch"}
    /\ fate' = [fate EXCEPT ![mine[t]] = "unsent"]
    /\ Reset(t)
    /\ UNCHANGED <<row, outcome, born, expired, phase, lock, queued, closures, acts>>

LinkTimeout(t) ==
    /\ "timeout" \in Faults
    /\ op[t] = "link" /\ pc[t] \in {"read", "row", "end", "endBatch"}
    /\ Reset(t)
    /\ UNCHANGED <<db, lock, queued, closures, acts>>

\* The cycle timeout of KlineHandler cancels the task at whatever await it
\* stands: "async with" gives the lock back, what was not yet written is not
\* written, and a post that was being sent may or may not have arrived.
CycleTimeout(t) ==
    /\ "cycle" \in Faults
    /\ pc[t] # "idle"
    /\ op[t] \in {"review", "adverse", "supersede", "arm", "link", "cancel"}
    /\ \E f \in {"sent", "unsent"} :
          fate' = [s \in Signals |-> IF s # mine[t] \/ fate[s] # "offered" THEN fate[s]
                                    ELSE IF pc[t] = "send" THEN f ELSE "unsent"]
    /\ IF Holding(t) THEN lock' = [lock EXCEPT ![sym[t]] = None] ELSE lock' = lock
    /\ Reset(t)
    /\ UNCHANGED <<row, outcome, born, expired, phase, queued, closures, acts>>

-----------------------------------------------------------------------------
(* Time, crashes and the start of the bot.                                 *)

Expire(s) ==
    /\ fate[s] # "new" /\ s \notin expired
    /\ expired' = expired \union {s}
    /\ UNCHANGED <<row, outcome, born, fate, phase, lock, queued, local, closures,
                   acts>>

Crash ==
    /\ "crash" \in Faults
    /\ phase' = "boot"
    /\ lock' = [y \in Symbols |-> None]
    /\ queued' = {}
    /\ op' = [t \in Tasks |-> "none"]
    /\ pc' = [t \in Tasks |-> "idle"]
    /\ sym' = [t \in Tasks |-> None]
    /\ todo' = [t \in Tasks |-> {}]
    /\ snap' = [t \in Tasks |-> [s \in Signals |-> NoRow]]
    /\ late' = [t \in Tasks |-> {}]
    /\ mine' = [t \in Tasks |-> None]
    /\ cur' = [t \in Tasks |-> None]
    /\ batch' = [t \in Tasks |-> {}]
    /\ dirty' = [t \in Tasks |-> FALSE]
    /\ syms' = [t \in Tasks |-> {}]
    /\ fate' = [s \in Signals |-> IF fate[s] = "offered" THEN "unsent" ELSE fate[s]]
    /\ UNCHANGED <<row, outcome, born, expired, closures, acts>>

\* Mutant: the update writes the reason into the status column.
CleanupOnStartup_Status ==
    /\ phase = "boot"
    /\ phase' = "reconcile"
    /\ row' = [s \in Signals |-> IF IsOpen(row[s])
                                THEN [row[s] EXCEPT !.st = "startup_cleanup"]
                                ELSE row[s]]
    /\ UNCHANGED <<outcome, born, expired, fate, lock, queued, local, closures, acts>>

\* Mutant: the bot is up before the closed rows were reconciled.
CleanupOnStartup_NoReconcile ==
    /\ phase = "boot"
    /\ phase' = "up"
    /\ row' = [s \in Signals |->
                 IF IsOpen(row[s])
                 THEN [row[s] EXCEPT !.st = "closed", !.why = "startup_cleanup"]
                 ELSE row[s]]
    /\ UNCHANGED <<outcome, born, expired, fate, lock, queued, local, closures, acts>>

CleanupOnStartup ==
    /\ phase = "boot"
    /\ phase' = "reconcile"
    /\ row' = [s \in Signals |->
                 IF IsOpen(row[s])
                 THEN [row[s] EXCEPT !.st = "closed", !.why = "startup_cleanup"]
                 ELSE row[s]]
    /\ UNCHANGED <<outcome, born, expired, fate, lock, queued, local, closures, acts>>

ClosedRows == {s \in Signals : row[s].st = "closed"}
BornAfter(s) == {q \in Signals : \E i, j \in DOMAIN born :
                                    i < j /\ born[i] = s /\ born[j] = q}

\* reconcile_closed_outcomes keeps the newest MaxBatch closed rows and only
\* then drops those that have an outcome already.
Unreconciled ==
    {s \in ClosedRows : /\ Cardinality(BornAfter(s) \intersect ClosedRows) < MaxBatch
                       /\ outcome[s] = None}

RecordRows(S) ==
    /\ outcome' = [s \in Signals |-> IF s \in S THEN row[s].why ELSE outcome[s]]
    /\ UNCHANGED <<row, born, expired, fate, lock, queued, local, closures, acts>>

Reconcile ==
    /\ phase = "reconcile"
    /\ phase' = "up"
    /\ RecordRows(Unreconciled)

\* start() logs a reconciliation that raises and comes up all the same; a row
\* that does not parse is skipped.  Until the next start nobody tries again.
ReconcileFails ==
    /\ "save_fails" \in Faults
    /\ phase = "reconcile"
    /\ phase' = "degraded"
    /\ \E saved \in SUBSET Unreconciled : RecordRows(saved)

-----------------------------------------------------------------------------
ReadStep(t) ==
    \/ ReadSymbol(t) \/ ReadAdverse(t) \/ ReadSuperseded(t) \/ ReadSweep(t)
    \/ ReadForced(t) \/ ReadForLink(t) \/ ReadForCancel(t)

RowStep(t, s) ==
    \/ Activate(t, s) \/ MarkTp1(t, s) \/ MarkChecked(t, s)
    \/ ClosePending(t, s) \/ \E reason \in Exits : CloseActive(t, s, reason)
    \/ CloseEmergency(t, s) \/ CloseSuperseded(t, s) \/ CloseExpired(t, s)
    \/ LinkMessage(t, s) \/ CancelRow(t, s)

FlushStep(t) ==
    QueueOutcome(t) \/ FlushNothing(t) \/ FlushTake(t) \/ SaveBatch(t)

EndStep(t) ==
    \/ EndRows(t) \/ Finish(t) \/ ReviewNextSymbol(t) \/ SupersededReady(t)
    \/ CooldownReject(t) \/ ArmSignal(t) \/ Armed(t) \/ Sent(t) \/ NotSent(t)

\* What the code does once an operation has begun.
Progress(t) ==
    \/ AcquireLock(t) \/ ReadStep(t) \/ (\E s \in Signals : RowStep(t, s))
    \/ FlushStep(t) \/ EndStep(t)

\* What the market, the clock, the network and the operator decide.
Environment ==
    \/ \E t \in Tasks, y \in Symbols : OnAggTrade(t, y) \/ ReviewForSymbol(t, y)
    \/ \E t \in Tasks : ReviewOpenSignals(t)
    \/ \E t \in Tasks, wanted \in SUBSET Signals \ {{}} : ForceClose(t, wanted)
    \/ \E t \in Tasks, s \in Signals : SelectAndDeliver(t, s)
    \/ \E t \in Tasks : SaveBatchFails(t) \/ ArmTimeout(t) \/ LinkTimeout(t)
                        \/ CycleTimeout(t)
    \/ \E s \in Signals : Expire(s)
    \/ Crash \/ ReconcileFails

Startup == CleanupOnStartup \/ Reconcile

Next == Environment \/ Startup \/ \E t \in Tasks : Progress(t)

Spec == Init /\ [][Next]_vars

\* The event loop runs every ready task again, database calls return, and
\* asyncio.Lock wakes its waiters first in, first out.
FairSpec ==
    /\ Spec /\ WF_vars(Startup)
    /\ \A t \in Tasks : WF_vars(Progress(t)) /\ SF_vars(AcquireLock(t))

-----------------------------------------------------------------------------
(* Properties.                                                             *)

\* The per-symbol lock does what asyncio.Lock promises in every path through
\* the operations: the tasks inside a locked operation are exactly the holders
\* of the lock of their symbol, so no early return leaks it and no unlocked
\* operation releases somebody else's.
LockMatchesHolder ==
    /\ \A t \in Tasks : Holding(t) => lock[sym[t]] = t
    /\ \A y \in Symbols : lock[y] # None => Holding(lock[y]) /\ sym[lock[y]] = y

\* Where an operation may be suspended, and what it then knows: the inductive
\* strengthening of LockMatchesHolder and TypeOK.
Shape ==
    \A t \in Tasks :
        /\ op[t] \in LockedOps \union {"adverse"} => sym[t] \in Symbols
        /\ pc[t] = "lock" => op[t] \in LockedOps
        /\ pc[t] = "send" => op[t] = "arm"
        /\ pc[t] = "queue" => cur[t] \in Signals /\ snap[t][cur[t]].why \in Reasons

LockInv == TypeOK /\ Shape /\ LockMatchesHolder

\* Lost updates: the rows a lock holder is still going to write back from its
\* snapshot have not changed since it read them (save_active_signal writes the
\* whole row, so a stale snapshot would undo somebody else's transition).
SnapshotCurrent ==
    \A t \in Tasks : Holding(t) =>
        \A s \in todo[t] : snap[t][s] = row[s] /\ IsOpen(row[s])

\* A signal is closed by one terminal event: no second outcome notification,
\* statistics increment or cooldown for the same row.
ClosedOnce == \A s \in Signals : closures[s] <= 1

OnItsWay(s) ==
    \/ s \in Ids(queued)
    \/ \E t \in Tasks : s \in Ids(batch[t]) \/ (pc[t] = "queue" /\ cur[t] = s)

\* No close is lost to analytics while the bot runs: the outcome of a row closed
\* by a close event or by the startup cleanup is stored, queued or being saved,
\* whichever task flushes the shared queue and however often the bot crashed.
OutcomeNotLost ==
    phase = "up" =>
        \A s \in ClosedRows : \/ row[s].why = "delivery_not_sent"
                             \/ outcome[s] # None
                             \/ OnItsWay(s)

\* "Those rows must still be visible to performance analytics": once a start
\* has reconciled, every row a startup cleanup ever closed has an outcome, the
\* rows that earlier starts failed to reconcile included.  After a failed
\* reconciliation ("degraded") the rows it did not save stay without one.
CleanedRowsVisible ==
    phase = "up" => \A s \in ClosedRows :
        row[s].why = "startup_cleanup" => outcome[s] # None

\* "Persist outcome before returning the close event".
OutcomeBeforeEvent ==
    [][\A t \in Tasks : pc[t] \in {"flush", "batch"} /\ pc'[t] = "row" =>
            outcome'[cur[t]] # None]_vars

\* "On non-sent delivery, cancel_pending_delivery closes the pending journal
\* row": when the delivery of an unsent signal is over its row is not pending.
UnsentNotPending ==
    \A s \in Signals : fate[s] = "unsent" /\ (\A t \in Tasks : mine[t] # s) =>
        row[s].st # "pending"

\* Every operation that has begun ends, and gives its symbol lock back.
OperationsEnd == \A t \in Tasks : pc[t] # "idle" ~> pc[t] = "idle"

Lifecycle == INSTANCE SignalLifecycle WITH
    status <- [s \in Signals |-> row[s].st],
    why <- [s \in Signals |-> row[s].why],
    outcome <- outcome

\* Under the locks the journal is a SignalLifecycle: every write, of every
\* interleaving, is one forward step of it or none.
ImplementsLifecycle == Lifecycle!Spec
=============================================================================
