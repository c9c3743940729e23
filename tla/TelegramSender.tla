--------------------------- MODULE TelegramSender ---------------------------
(***************************************************************************)
(* TelegramBroadcaster (engine/telegram.py): every coroutine of the bot    *)
(* sends through one broadcaster.  A lock lets one call at a time through; *)
(* a circuit breaker buffers messages after repeated failures and the next *)
(* success drains the buffer; a hash window suppresses repeated texts; and *)
(* one message is attempted up to Attempts times within one call.          *)
(*                                                                         *)
(* Telegram may accept a message, accept it while the answer gets lost, or *)
(* refuse it.  An exception outside DEFENSIVE_EXC ("raised": edit_html has *)
(* a second handler for them, the exceptions of the aiogram library) goes  *)
(* through all handlers of send_html and is counted by none; one inside    *)
(* DEFENSIVE_EXC that tells how long to wait ("limited") is neither        *)
(* counted nor retried.  Pacing sleeps happen under the lock and have no   *)
(* effect on the state kept here; pictures and the plain-text fallback are *)
(* left out, and so is a message that the channel shows only after its     *)
(* attempt was given up or cancelled: nothing here would ever hear of it.  *)
(***************************************************************************)
EXTENDS Naturals, Sequences

CONSTANTS
    Clients,        \* the coroutines that send
    Texts,          \* the messages
    None,
    Attempts,       \* stop_after_attempt of _telegram_retry: 3
    Threshold,      \* failures that open the circuit: 5
    BufferSize,     \* maxlen of _send_buffer: 50
    Failures        \* which of "counted", "limited", "raised" happen

Replies == {"sent", "buffered_circuit_open", "suppressed_duplicate", "failed", "raised"}

ASSUME NoneAssumption == None \notin Clients \union Texts \union Replies
ASSUME LimitsAssumption ==
    Attempts \in Nat \ {0} /\ Threshold \in Nat \ {0} /\ BufferSize \in Nat \ {0}
ASSUME FailuresAssumption == Failures \subseteq {"counted", "limited", "raised"}

VARIABLES
    holder,         \* who holds _send_lock
    circuit,        \* _circuit_state
    failures,       \* _failure_count, counted up to Threshold
    due,            \* has _circuit_reset_time passed?
    recent,         \* texts whose hash is in _recent_message_hashes
    buffer,         \* _send_buffer
    call,           \* the send_html call of each client
    posted,         \* texts that Telegram has shown
    kept            \* texts that were ever in the buffer

vars == <<holder, circuit, failures, due, recent, buffer, call, posted, kept>>

Idle == [at |-> "idle", text |-> None, out |-> None, tries |-> 0, arrived |-> FALSE,
         shown |-> FALSE, reply |-> None]

Stages == {"idle", "waiting", "sending", "draining", "flushing", "answered"}

Init ==
    /\ holder = None
    /\ circuit = "closed" /\ failures = 0 /\ due = FALSE
    /\ recent = {} /\ buffer = <<>>
    /\ call = [c \in Clients |-> Idle]
    /\ posted = {} /\ kept = {}

SendHtml(c, t) ==
    /\ call[c].at = "idle"
    /\ call' = [call EXCEPT ![c].at = "waiting", ![c].text = t]
    /\ UNCHANGED <<holder, circuit, failures, due, recent, buffer, posted, kept>>

\* send_html answers; the lock is given back.
Answer(c, r) ==
    /\ call' = [call EXCEPT ![c].at = "answered", ![c].reply = r]
    /\ holder' = None

\* The caller takes the answer.
Return(c) ==
    /\ call[c].at = "answered"
    /\ call' = [call EXCEPT ![c] = Idle]
    /\ UNCHANGED <<holder, circuit, failures, due, recent, buffer, posted, kept>>

-----------------------------------------------------------------------------
(* Under the lock: the circuit, the duplicate window, the first attempt.   *)

Blocked == circuit = "open" /\ ~due
Probing == IF circuit = "open" THEN "half_open" ELSE circuit

Enters(c) == call[c].at = "waiting" /\ holder = None

\* The deque drops its oldest text when it is full.
EnterBlocked(c) ==
    /\ Enters(c) /\ Blocked
    /\ buffer' = Append(IF Len(buffer) < BufferSize THEN buffer ELSE Tail(buffer),
                        call[c].text)
    /\ kept' = kept \union {call[c].text}
    /\ Answer(c, "buffered_circuit_open")
    /\ UNCHANGED <<circuit, failures, due, recent, posted>>

\* Mutant: a suppressed duplicate counts as sent.
EnterDuplicate_Sent(c) ==
    /\ Enters(c) /\ ~Blocked
    /\ circuit' = Probing
    /\ call[c].text \in recent
    /\ Answer(c, "sent")
    /\ UNCHANGED <<failures, due, recent, buffer, posted, kept>>

EnterDuplicate(c) ==
    /\ Enters(c) /\ ~Blocked
    /\ circuit' = Probing
    /\ call[c].text \in recent
    /\ Answer(c, "suppressed_duplicate")
    /\ UNCHANGED <<failures, due, recent, buffer, posted, kept>>

EnterSending(c) ==
    /\ Enters(c) /\ ~Blocked
    /\ circuit' = Probing
    /\ call[c].text \notin recent
    /\ holder' = c
    /\ call' = [call EXCEPT ![c].at = "sending", ![c].out = call[c].text, ![c].tries = 1]
    /\ UNCHANGED <<failures, due, recent, buffer, posted, kept>>

-----------------------------------------------------------------------------
(* _send_immediate, for the call's own text and for a buffered one.        *)

Trying(c) == call[c].at \in {"sending", "flushing"}

\* Telegram shows the message of the attempt under way.
Arrive(c) ==
    /\ Trying(c) /\ ~call[c].arrived
    /\ posted' = posted \union {call[c].out}
    /\ call' = [call EXCEPT ![c].arrived = TRUE,
                            ![c].shown = @ \/ call[c].at = "sending"]
    /\ UNCHANGED <<holder, circuit, failures, due, recent, buffer, kept>>

\* Its answer comes back: _record_send_success.
Accepted(c) ==
    /\ Trying(c) /\ call[c].arrived
    /\ failures' = 0 /\ circuit' = "closed" /\ due' = FALSE
    /\ recent' = recent \union {call[c].out}
    /\ call' = [call EXCEPT ![c].at = "draining", ![c].arrived = FALSE]
    /\ UNCHANGED <<holder, buffer, posted, kept>>

\* _record_send_failure, when the circuit is in state "state".
RecordSendFailure(state) ==
    LET n == IF failures < Threshold THEN failures + 1 ELSE failures
        opens == state = "half_open" \/ n = Threshold
    IN  /\ failures' = n
        /\ circuit' = IF opens THEN "open" ELSE state
        /\ due' = IF opens THEN FALSE ELSE due

\* An attempt ends with an exception of kind f.
Fails(c, f) ==
    /\ Trying(c)
    /\ \/ f = "counted" /\ RecordSendFailure(circuit)
       \/ f \in {"limited", "raised"} /\ UNCHANGED <<failures, circuit, due>>

Retry(c, f) ==
    /\ Fails(c, f) /\ f # "limited" /\ call[c].tries < Attempts
    /\ call' = [call EXCEPT ![c].tries = @ + 1, ![c].arrived = FALSE]
    /\ UNCHANGED <<holder, recent, buffer, posted, kept>>

\* Flood control is not retried, whether its exception is "limited" or "raised".
Final(c, f) == call[c].tries = Attempts \/ f \in {"limited", "raised"}

GiveUp(c, f) ==
    /\ call[c].at = "sending" /\ Fails(c, f) /\ Final(c, f)
    /\ Answer(c, IF f = "raised" THEN "raised" ELSE "failed")
    /\ UNCHANGED <<recent, buffer, posted, kept>>

\* Mutant: the drain goes on after a failure (no break).
GiveUpFlush_NoBreak(c, f) ==
    /\ call[c].at = "flushing" /\ Fails(c, f) /\ Final(c, f)
    /\ call' = [call EXCEPT ![c].at = "draining", ![c].arrived = FALSE]
    /\ UNCHANGED <<holder, recent, buffer, posted, kept>>

\* A buffered text goes back to the head.  An exception that passes the
\* handler loses it, and with it the answer "sent" of the call's own text.
GiveUpFlush(c, f) ==
    /\ call[c].at = "flushing" /\ Fails(c, f) /\ Final(c, f)
    /\ buffer' = IF f = "raised" THEN buffer ELSE <<call[c].out>> \o buffer
    /\ Answer(c, IF f = "raised" THEN "raised" ELSE "sent")
    /\ UNCHANGED <<recent, posted, kept>>

DrainOne(c) ==
    /\ call[c].at = "draining" /\ buffer # <<>>
    /\ buffer' = Tail(buffer)
    /\ \/ Head(buffer) \in recent /\ UNCHANGED call
       \/ /\ Head(buffer) \notin recent
          /\ call' = [call EXCEPT ![c].at = "flushing", ![c].out = Head(buffer),
                                  ![c].tries = 1]
    /\ UNCHANGED <<holder, circuit, failures, due, recent, posted, kept>>

Drained(c) ==
    /\ call[c].at = "draining" /\ buffer = <<>>
    /\ Answer(c, "sent")
    /\ UNCHANGED <<circuit, failures, due, recent, buffer, posted, kept>>

\* The caller's timeout cancels the call at whatever await it stands: the
\* lock is given back, a buffered text that was taken out is lost.
CancelSend(c) ==
    /\ call[c].at \in {"waiting", "sending", "draining", "flushing"}
    /\ call' = [call EXCEPT ![c] = Idle]
    /\ holder' = IF holder = c THEN None ELSE holder
    /\ UNCHANGED <<circuit, failures, due, recent, buffer, posted, kept>>

Enter(c) == EnterBlocked(c) \/ EnterDuplicate(c) \/ EnterSending(c)
Attempt(c) == Arrive(c) \/ Accepted(c) \/ \E f \in Failures : Retry(c, f) \/ GiveUp(c, f)
Drain(c) == DrainOne(c) \/ Drained(c) \/ \E f \in Failures : GiveUpFlush(c, f)

-----------------------------------------------------------------------------
(* The other users of the circuit, and time.                               *)

\* edit_html runs under the same lock and counts one failure for all its
\* attempts; one that is not counted leaves the probe undecided.
EditHtml ==
    /\ holder = None /\ ~Blocked
    /\ \/ failures' = 0 /\ circuit' = "closed" /\ due' = FALSE
       \/ "counted" \in Failures /\ RecordSendFailure(Probing)
       \/ Failures \ {"counted"} # {} /\ circuit' = Probing /\ UNCHANGED <<failures, due>>
    /\ UNCHANGED <<holder, recent, buffer, call, posted, kept>>

ResetTimePasses ==
    /\ Blocked /\ due' = TRUE
    /\ UNCHANGED <<holder, circuit, failures, recent, buffer, call, posted, kept>>

\* _prune_recent_hashes, which only a call that has just taken the lock runs.
HashExpires ==
    /\ holder = None
    /\ \E t \in recent : recent' = recent \ {t}
    /\ UNCHANGED <<holder, circuit, failures, due, buffer, call, posted, kept>>

Next ==
    \/ \E c \in Clients :
          \/ \E t \in Texts : SendHtml(c, t)
          \/ Enter(c) \/ Attempt(c) \/ Drain(c) \/ CancelSend(c) \/ Return(c)
    \/ EditHtml \/ ResetTimePasses \/ HashExpires

Spec == Init /\ [][Next]_vars

-----------------------------------------------------------------------------
(* Properties.                                                             *)

Call == [at : Stages, text : Texts \union {None}, out : Texts \union {None},
         tries : 0 .. Attempts, arrived : BOOLEAN, shown : BOOLEAN,
         reply : Replies \union {None}]

TypeOK ==
    /\ holder \in Clients \union {None}
    /\ circuit \in {"closed", "open", "half_open"}
    /\ failures \in 0 .. Threshold
    /\ due \in BOOLEAN
    /\ recent \subseteq Texts /\ posted \subseteq Texts /\ kept \subseteq Texts
    /\ buffer \in Seq(Texts)
    /\ call \in [Clients -> Call]

\* Only the call that holds the lock sends, and while the circuit is open it
\* sends nothing but the retries of the very attempt that opened it: no new
\* message, own or buffered, is started against an open circuit, whichever
\* callers are cancelled in between (send_html: the lock, the test of the
\* circuit before the first attempt, the drain after a success only).
OpenOnlyRetries ==
    /\ \A c \in Clients :
          call[c].at \in {"sending", "draining", "flushing"} <=> holder = c
    /\ \A c \in Clients :
          holder = c /\ circuit = "open" => Trying(c) /\ call[c].tries > 1
    /\ circuit = "closed" => failures < Threshold

\* The sender keeps the promise the callers rely on: "sent" only for a text
\* that was shown, and no text shown that is neither of a call under way nor
\* one put aside (TelegramService).
Service == INSTANCE TelegramService WITH
    request <- [c \in Clients |->
        [text |-> call[c].text, shown |-> call[c].shown, reply |-> call[c].reply]]

ImplementsService == Service!ServiceSpec
=============================================================================
