------------------------ MODULE TelegramSenderProofs ------------------------
(***************************************************************************)
(* For any clients, texts and limits: TypeOK and OpenOnlyRetries, by the   *)
(* inductive invariant IInv; and that the broadcaster implements           *)
(* TelegramService, by the inductive invariant ServeInv.                   *)
(***************************************************************************)
EXTENDS TelegramSender, TLAPS

\* What a stage says about the fields the next step reads.
CallsOK ==
    \A c \in Clients :
        /\ call[c].at = "waiting" => call[c].text \in Texts
        /\ Trying(c) => call[c].out \in Texts /\ call[c].tries >= 1

IInv == TypeOK /\ CallsOK /\ OpenOnlyRetries

\* IInv holds at the start.
LEMMA InitIInv == Init => IInv
<1> SUFFICES ASSUME Init PROVE IInv
  OBVIOUS
<1>1. Idle \in Call
  BY LimitsAssumption DEF Idle, Call, Stages, Replies
<1>2. TypeOK
  <2>1. <<>> \in Seq(Texts) /\ 0 \in 0 .. Threshold
    BY LimitsAssumption
  <2>2. call \in [Clients -> Call]
    BY <1>1 DEF Init
  <2> QED
    BY <2>1, <2>2 DEF Init, TypeOK
<1>3. \A c \in Clients : call[c].at = "idle"
  BY DEF Init, Idle
<1>4. CallsOK
  BY <1>3 DEF CallsOK, Trying
<1>5. OpenOnlyRetries
  BY <1>3, NoneAssumption, LimitsAssumption DEF Init, OpenOnlyRetries
<1> QED
  BY <1>2, <1>4, <1>5 DEF IInv

\* A call is made.
LEMMA SendHtmlStep ==
  ASSUME IInv, NEW c \in Clients, NEW t \in Texts, SendHtml(c, t)
  PROVE  IInv'
<1> USE DEF IInv
<1>1. [call[c] EXCEPT !.at = "waiting", !.text = t] \in Call
  BY DEF TypeOK, Call, Stages
<1>2. call' = [call EXCEPT ![c] = [call[c] EXCEPT !.at = "waiting", !.text = t]]
  BY DEF SendHtml
<1>3. TypeOK'
  BY <1>1, <1>2 DEF TypeOK, SendHtml
<1>4. CallsOK'
  BY <1>2 DEF TypeOK, Call, CallsOK, Trying
<1>5. OpenOnlyRetries'
  BY <1>2 DEF TypeOK, Call, OpenOnlyRetries, Trying, SendHtml
<1> QED
  BY <1>3, <1>4, <1>5

\* An answer gives the lock back: nobody is sending any more.
LEMMA AnswerStep ==
  ASSUME IInv, NEW c \in Clients, NEW r \in Replies, holder \in {None, c}, Answer(c, r),
         /\ circuit' \in {"closed", "open", "half_open"}
         /\ failures' \in 0 .. Threshold
         /\ circuit' = "closed" => failures' < Threshold,
         due' \in BOOLEAN,
         recent' \subseteq Texts, posted' \subseteq Texts, kept' \subseteq Texts,
         buffer' \in Seq(Texts)
  PROVE  IInv'
<1> USE DEF IInv
<1>1. [call[c] EXCEPT !.at = "answered", !.reply = r] \in Call
  BY DEF TypeOK, Call, Stages
<1>2. call' = [call EXCEPT ![c] = [call[c] EXCEPT !.at = "answered", !.reply = r]]
  BY DEF Answer
<1>3. TypeOK'
  BY <1>1, <1>2 DEF TypeOK, Answer
<1>4. CallsOK'
  BY <1>2 DEF TypeOK, Call, CallsOK, Trying
<1>5. OpenOnlyRetries'
  BY <1>2, NoneAssumption DEF TypeOK, Call, OpenOnlyRetries, Trying, Answer
<1> QED
  BY <1>3, <1>4, <1>5
\* A call turned away by the open circuit.
LEMMA EnterBlockedStep ==
  ASSUME IInv, NEW c \in Clients, EnterBlocked(c)
  PROVE  IInv'
<1> USE DEF IInv
<1>1. call[c].text \in Texts
  BY DEF EnterBlocked, Enters, CallsOK
<1>2. ASSUME Len(buffer) >= BufferSize
      PROVE  Tail(buffer) \in Seq(Texts)
  BY <1>2, LimitsAssumption DEF TypeOK
<1>3. (IF Len(buffer) < BufferSize THEN buffer ELSE Tail(buffer)) \in Seq(Texts)
  BY <1>2, LimitsAssumption DEF TypeOK
<1>4. buffer' \in Seq(Texts)
  BY <1>1, <1>3 DEF EnterBlocked
<1>5. circuit = "closed" => failures < Threshold
  BY DEF OpenOnlyRetries
<1>6. kept' \subseteq Texts
  BY <1>1 DEF TypeOK, EnterBlocked
<1> QED
  BY <1>4, <1>5, <1>6, AnswerStep DEF EnterBlocked, Enters, TypeOK, Replies

\* A call turned away by the window of recent texts.
LEMMA EnterDuplicateStep ==
  ASSUME IInv, NEW c \in Clients, EnterDuplicate(c)
  PROVE  IInv'
<1> USE DEF IInv
<1>1. circuit' \in {"closed", "open", "half_open"} /\ (circuit' = "closed" => failures < Threshold)
  BY DEF EnterDuplicate, Probing, TypeOK, OpenOnlyRetries
<1> QED
  BY <1>1, AnswerStep DEF EnterDuplicate, Enters, TypeOK, Replies

\* A call that starts its first attempt.
LEMMA EnterSendingStep ==
  ASSUME IInv, NEW c \in Clients, EnterSending(c)
  PROVE  IInv'
<1> USE DEF IInv
<1>1. [call[c] EXCEPT !.at = "sending", !.out = call[c].text, !.tries = 1] \in Call
  <2>1. 1 \in 0 .. Attempts
    BY LimitsAssumption
  <2>2. call[c] \in Call
    BY DEF TypeOK
  <2> QED
    BY <2>1, <2>2 DEF Call, Stages
<1>2. call' = [call EXCEPT ![c] = [call[c] EXCEPT !.at = "sending", !.out = call[c].text, !.tries = 1]]
  BY DEF EnterSending
<1>3. TypeOK'
  BY <1>1, <1>2 DEF TypeOK, CallsOK, Call, EnterSending, Enters, Blocked, Probing
<1>4. CallsOK'
  BY <1>2 DEF TypeOK, Call, CallsOK, Trying, EnterSending, Enters, Blocked, Probing
<1>5. OpenOnlyRetries'
  BY <1>2, NoneAssumption DEF TypeOK, Call, CallsOK, OpenOnlyRetries, Trying, EnterSending, Enters, Blocked, Probing
<1> QED
  BY <1>3, <1>4, <1>5

\* Telegram shows the message of an attempt.
LEMMA ArriveStep ==
  ASSUME IInv, NEW c \in Clients, Arrive(c)
  PROVE  IInv'
<1> USE DEF IInv
<1>1. [call[c] EXCEPT !.arrived = TRUE, !.shown = @ \/ call[c].at = "sending"] \in Call
  BY DEF TypeOK, Call
<1>2. call' = [call EXCEPT ![c] = [call[c] EXCEPT !.arrived = TRUE, !.shown = @ \/ call[c].at = "sending"]]
  BY DEF Arrive
<1>3. TypeOK'
  BY <1>1, <1>2 DEF TypeOK, CallsOK, Call, Arrive, Trying
<1>4. CallsOK'
  BY <1>2 DEF TypeOK, Call, CallsOK, Trying, Arrive
<1>5. OpenOnlyRetries'
  BY <1>2, NoneAssumption DEF TypeOK, Call, CallsOK, OpenOnlyRetries, Trying, Arrive
<1> QED
  BY <1>3, <1>4, <1>5

\* An attempt succeeds: the circuit closes.
LEMMA AcceptedStep ==
  ASSUME IInv, NEW c \in Clients, Accepted(c)
  PROVE  IInv'
<1> USE DEF IInv
<1>1. [call[c] EXCEPT !.at = "draining", !.arrived = FALSE] \in Call
  BY DEF TypeOK, Call, Stages
<1>2. call' = [call EXCEPT ![c] = [call[c] EXCEPT !.at = "draining", !.arrived = FALSE]]
  BY DEF Accepted
<1>3. TypeOK'
  <2>1. call[c].out \in Texts
    BY DEF CallsOK, Accepted
  <2>2. 0 \in 0 .. Threshold
    BY LimitsAssumption
  <2>3. call' \in [Clients -> Call]
    BY <1>1, <1>2 DEF TypeOK
  <2> QED
    BY <2>1, <2>2, <2>3 DEF TypeOK, Accepted
<1>4. CallsOK'
  BY <1>2 DEF TypeOK, Call, CallsOK, Trying, Accepted
<1>5. OpenOnlyRetries'
  BY <1>2, NoneAssumption, LimitsAssumption DEF TypeOK, Call, CallsOK, OpenOnlyRetries, Trying, Accepted
<1> QED
  BY <1>3, <1>4, <1>5

\* What a counted failure does to the circuit.
LEMMA FailureStep ==
  ASSUME TypeOK, NEW state \in {"closed", "open", "half_open"},
         state = "closed" => failures < Threshold, RecordSendFailure(state)
  PROVE  /\ circuit' \in {"closed", "open", "half_open"}
         /\ failures' \in 0 .. Threshold
         /\ due' \in BOOLEAN
         /\ circuit' = "closed" => failures' < Threshold
<1> DEFINE n == IF failures < Threshold THEN failures + 1 ELSE failures
<1>1. n \in 0 .. Threshold
  BY LimitsAssumption DEF TypeOK
<1>2. CASE state = "half_open" \/ n = Threshold
  <2>1. failures' = n /\ circuit' = "open" /\ due' = FALSE
    BY <1>2 DEF RecordSendFailure
  <2> QED
    BY <2>1, <1>1
<1>3. CASE ~(state = "half_open" \/ n = Threshold)
  <2>1. failures' = n /\ circuit' = state /\ due' = due
    BY <1>3 DEF RecordSendFailure
  <2>2. n # Threshold /\ n < Threshold
    BY <1>1, <1>3, LimitsAssumption
  <2> QED
    BY <2>1, <2>2, <1>1 DEF TypeOK
<1> QED
  BY <1>2, <1>3

\* The same for an attempt that fails with any exception.
LEMMA FailsStep ==
  ASSUME IInv, NEW c \in Clients, NEW f \in Failures, Fails(c, f)
  PROVE  /\ circuit' \in {"closed", "open", "half_open"}
         /\ failures' \in 0 .. Threshold
         /\ due' \in BOOLEAN
         /\ circuit' = "closed" => failures' < Threshold
<1> USE DEF IInv
<1>1. CASE f = "counted" /\ RecordSendFailure(circuit)
  <2>1. circuit \in {"closed", "open", "half_open"} /\ (circuit = "closed" => failures < Threshold)
    BY DEF TypeOK, OpenOnlyRetries
  <2> QED
    BY <1>1, <2>1, FailureStep
<1>2. CASE f \in {"limited", "raised"} /\ UNCHANGED <<failures, circuit, due>>
  BY <1>2 DEF TypeOK, OpenOnlyRetries
<1> QED
  BY <1>1, <1>2 DEF Fails

\* An attempt fails and the next one starts.
LEMMA RetryStep ==
  ASSUME IInv, NEW c \in Clients, NEW f \in Failures, Retry(c, f)
  PROVE  IInv'
<1> USE DEF IInv
<1>1. [call[c] EXCEPT !.tries = @ + 1, !.arrived = FALSE] \in Call
  <2>1. call[c] \in Call
    BY DEF TypeOK
  <2>2. call[c].tries + 1 \in 0 .. Attempts
    BY <2>1, LimitsAssumption DEF Call, Retry
  <2> QED
    BY <2>1, <2>2 DEF Call
<1>2. call' = [call EXCEPT ![c] = [call[c] EXCEPT !.tries = @ + 1, !.arrived = FALSE]]
  BY DEF Retry
<1>3. Trying(c)
  BY DEF Retry, Fails
<1>4. /\ circuit' \in {"closed", "open", "half_open"}
      /\ failures' \in 0 .. Threshold
      /\ due' \in BOOLEAN
      /\ circuit' = "closed" => failures' < Threshold
  BY FailsStep DEF Retry
<1>5. TypeOK'
  BY <1>1, <1>2, <1>4 DEF TypeOK, Retry
<1>6. call[c].tries \in Nat /\ call[c].tries >= 1 /\ call[c].out \in Texts
  BY <1>3 DEF TypeOK, Call, CallsOK
<1>7. CallsOK'
  BY <1>2, <1>6 DEF TypeOK, Call, CallsOK, Trying
<1>8. OpenOnlyRetries'
  BY <1>2, <1>3, <1>4, <1>6, NoneAssumption DEF TypeOK, Call, OpenOnlyRetries, Trying, Retry
<1> QED
  BY <1>5, <1>7, <1>8

\* The last attempt of the call's own text fails.
LEMMA GiveUpStep ==
  ASSUME IInv, NEW c \in Clients, NEW f \in Failures, GiveUp(c, f)
  PROVE  IInv'
<1> USE DEF IInv
<1>1. holder = c
  BY DEF GiveUp, OpenOnlyRetries
<1>2. (IF f = "raised" THEN "raised" ELSE "failed") \in Replies
  BY DEF Replies
<1> QED
  BY <1>1, <1>2, FailsStep, AnswerStep DEF GiveUp, TypeOK

\* The last attempt of a buffered text fails.
LEMMA GiveUpFlushStep ==
  ASSUME IInv, NEW c \in Clients, NEW f \in Failures, GiveUpFlush(c, f)
  PROVE  IInv'
<1> USE DEF IInv
<1>1. holder = c
  BY DEF GiveUpFlush, OpenOnlyRetries
<1>2. (IF f = "raised" THEN "raised" ELSE "sent") \in Replies
  BY DEF Replies
<1>3. call[c].out \in Texts
  BY DEF GiveUpFlush, CallsOK, Trying
<1>4. buffer' \in Seq(Texts)
  <2>1. <<call[c].out>> \o buffer \in Seq(Texts)
    BY <1>3 DEF TypeOK
  <2> QED
    BY <2>1 DEF GiveUpFlush, TypeOK
<1> QED
  BY <1>1, <1>2, <1>4, FailsStep, AnswerStep DEF GiveUpFlush, TypeOK

\* The drain takes the next buffered text.
LEMMA DrainOneStep ==
  ASSUME IInv, NEW c \in Clients, DrainOne(c)
  PROVE  IInv'
<1> USE DEF IInv
<1>1. Head(buffer) \in Texts /\ buffer' \in Seq(Texts)
  BY DEF DrainOne, TypeOK
<1>2. holder = c /\ circuit # "open"
  BY DEF DrainOne, OpenOnlyRetries, Trying
<1>3. CASE UNCHANGED call
  <2>1. TypeOK'
    BY <1>1, <1>3 DEF DrainOne, TypeOK
  <2> QED
    BY <1>3, <2>1 DEF DrainOne, CallsOK, OpenOnlyRetries, Trying
<1>4. CASE call' = [call EXCEPT ![c].at = "flushing", ![c].out = Head(buffer), ![c].tries = 1]
  <2>1. call[c] \in Call /\ 1 \in 0 .. Attempts
    BY LimitsAssumption DEF TypeOK
  <2>2. [call[c] EXCEPT !.at = "flushing", !.out = Head(buffer), !.tries = 1] \in Call
    BY <1>1, <2>1 DEF Call, Stages
  <2>3. call' = [call EXCEPT ![c] =
                    [call[c] EXCEPT !.at = "flushing", !.out = Head(buffer), !.tries = 1]]
    BY <1>4
  <2>4. TypeOK'
    BY <1>1, <2>2, <2>3 DEF DrainOne, TypeOK
  <2>5. CallsOK'
    BY <1>1, <2>3 DEF TypeOK, Call, CallsOK, Trying
  <2>6. OpenOnlyRetries'
    BY <1>2, <2>3, NoneAssumption DEF TypeOK, Call, OpenOnlyRetries, Trying, DrainOne
  <2> QED
    BY <2>4, <2>5, <2>6
<1> QED
  BY <1>3, <1>4 DEF DrainOne

\* The buffer is empty: the call is answered.
LEMMA DrainedStep ==
  ASSUME IInv, NEW c \in Clients, Drained(c)
  PROVE  IInv'
<1> USE DEF IInv
<1>1. holder = c
  BY DEF Drained, OpenOnlyRetries
<1>2. circuit = "closed" => failures < Threshold
  BY DEF OpenOnlyRetries
<1> QED
  BY <1>1, <1>2, AnswerStep DEF Drained, TypeOK, Replies

\* A call that ends, answered or cancelled, leaves an idle client.
LEMMA IdleStep ==
  ASSUME IInv, NEW c \in Clients, call' = [call EXCEPT ![c] = Idle],
         holder' = IF holder = c THEN None ELSE holder,
         UNCHANGED <<circuit, failures, due, recent, buffer, posted, kept>>
  PROVE  IInv'
<1> USE DEF IInv
<1>1. Idle \in Call
  BY LimitsAssumption DEF Idle, Call, Stages, Replies
<1>2. Idle.at = "idle"
  BY DEF Idle
<1>3. TypeOK'
  BY <1>1 DEF TypeOK
<1>4. CallsOK'
  BY <1>2 DEF TypeOK, CallsOK, Trying
<1>5. OpenOnlyRetries'
  BY <1>2, NoneAssumption DEF TypeOK, OpenOnlyRetries, Trying
<1> QED
  BY <1>3, <1>4, <1>5

\* The caller's timeout.
LEMMA CancelSendStep ==
  ASSUME IInv, NEW c \in Clients, CancelSend(c)
  PROVE  IInv'
BY IdleStep DEF CancelSend

\* The caller takes its answer.
LEMMA ReturnStep ==
  ASSUME IInv, NEW c \in Clients, Return(c)
  PROVE  IInv'
<1>1. holder # c
  BY DEF IInv, Return, OpenOnlyRetries
<1> QED
  BY <1>1, IdleStep DEF Return

\* Nobody sends while the lock is free: what edit_html, the clock and the
\* pruning of the window change is the circuit and the window only.
LEMMA OthersStep ==
  ASSUME IInv, EditHtml \/ ResetTimePasses \/ HashExpires
  PROVE  IInv'
<1> USE DEF IInv
<1>1. CASE EditHtml
  <2>1. UNCHANGED <<holder, recent, buffer, call, posted, kept>> /\ holder = None
    BY <1>1 DEF EditHtml
  <2>2. Probing \in {"closed", "open", "half_open"} /\ (Probing = "closed" => failures < Threshold)
    BY DEF Probing, TypeOK, OpenOnlyRetries
  <2>3. /\ circuit' \in {"closed", "open", "half_open"}
        /\ failures' \in 0 .. Threshold /\ due' \in BOOLEAN
        /\ circuit' = "closed" => failures' < Threshold
    <3>1. CASE failures' = 0 /\ circuit' = "closed" /\ due' = FALSE
      <4>1. 0 \in 0 .. Threshold /\ 0 < Threshold
        BY LimitsAssumption
      <4> QED
        BY <3>1, <4>1
    <3>2. CASE RecordSendFailure(Probing)
      BY <3>2, <2>2, FailureStep
    <3>3. CASE circuit' = Probing /\ UNCHANGED <<failures, due>>
      BY <3>3, <2>2 DEF TypeOK
    <3> QED
      BY <1>1, <3>1, <3>2, <3>3 DEF EditHtml
  <2>4. TypeOK'
    BY <2>1, <2>3 DEF TypeOK
  <2>5. CallsOK'
    BY <2>1 DEF CallsOK, Trying
  <2>6. OpenOnlyRetries'
    BY <2>1, <2>3, NoneAssumption DEF OpenOnlyRetries, Trying
  <2> QED
    BY <2>4, <2>5, <2>6
<1>2. CASE ResetTimePasses
  BY <1>2 DEF ResetTimePasses, TypeOK, CallsOK, OpenOnlyRetries, Trying
<1>3. CASE HashExpires
  BY <1>3 DEF HashExpires, TypeOK, CallsOK, OpenOnlyRetries, Trying
<1> QED
  BY <1>1, <1>2, <1>3

\* IInv is inductive.
LEMMA NextIInv == IInv /\ [Next]_vars => IInv'
<1> SUFFICES ASSUME IInv, [Next]_vars PROVE IInv'
  OBVIOUS
<1>1. ASSUME NEW c \in Clients, NEW t \in Texts, SendHtml(c, t) PROVE IInv'
  BY <1>1, SendHtmlStep
<1>2. ASSUME NEW c \in Clients, Enter(c) PROVE IInv'
  BY <1>2, EnterBlockedStep, EnterDuplicateStep, EnterSendingStep DEF Enter
<1>3. ASSUME NEW c \in Clients, Attempt(c) PROVE IInv'
  BY <1>3, ArriveStep, AcceptedStep, RetryStep, GiveUpStep DEF Attempt
<1>4. ASSUME NEW c \in Clients, Drain(c) PROVE IInv'
  BY <1>4, DrainOneStep, DrainedStep, GiveUpFlushStep DEF Drain
<1>5. ASSUME NEW c \in Clients, CancelSend(c) \/ Return(c) PROVE IInv'
  BY <1>5, CancelSendStep, ReturnStep
<1>6. CASE UNCHANGED vars
  BY <1>6 DEF vars, IInv, TypeOK, CallsOK, OpenOnlyRetries, Trying
<1> QED
  BY <1>1, <1>2, <1>3, <1>4, <1>5, <1>6, OthersStep DEF Next

\* The inductive invariant holds in every reachable state.
LEMMA InvariantIInv == Spec => []IInv
BY InitIInv, NextIInv, PTL DEF Spec

\* Type correctness of the broadcaster (engine/telegram.py, class
\* TelegramBroadcaster) for any number of callers, texts and any limits.
THEOREM TypeCorrect == Spec => []TypeOK
<1>1. IInv => TypeOK
  BY DEF IInv
<1> QED
  BY <1>1, InvariantIInv, PTL

\* At most one call sends at a time, the one that holds _send_lock, and no
\* new message is started against an open circuit: neither after a
\* cancellation in between nor by the drain of the buffer; a closed circuit
\* has counted fewer failures than its limit (send_html, _send_immediate,
\* _record_send_failure).
THEOREM OnlyRetriesWhileOpen == Spec => []OpenOnlyRetries
<1>1. IInv => OpenOnlyRetries
  BY DEF IInv
<1> QED
  BY <1>1, InvariantIInv, PTL

-----------------------------------------------------------------------------
(* The broadcaster implements TelegramService.                             *)

\* What a call knows of its own text, and of the buffered text it flushes.
CallServes(c) ==
    LET k == call[c]
    IN  /\ k.at = "idle" => k = Idle
        /\ k.at \in {"waiting", "sending", "draining", "flushing"} =>
             k.text \in Texts /\ k.reply = None
        /\ k.at = "waiting" => ~k.shown
        /\ k.at = "sending" => k.out = k.text /\ (k.arrived => k.shown)
        /\ k.at \in {"draining", "flushing"} => k.shown
        /\ k.at = "flushing" => k.out \in kept
        /\ k.at \in {"sending", "flushing"} /\ k.arrived => k.out \in posted
        /\ k.at = "answered" => k.reply # None
        /\ k.at \in {"waiting", "draining"} => ~k.arrived

\* The window knows only texts that were shown, the buffer only texts put aside.
ServeInv ==
    /\ IInv
    /\ \A c \in Clients : CallServes(c)
    /\ recent \subseteq posted
    /\ \A i \in 1 .. Len(buffer) : buffer[i] \in kept

\* A step that changes one call and takes nothing back.
LEMMA ServeStep ==
    ASSUME ServeInv, IInv', NEW c \in Clients, NEW k \in Call, call' = [call EXCEPT ![c] = k],
           CallServes(c)', posted \subseteq posted', kept \subseteq kept',
           recent' \subseteq posted', \A i \in 1 .. Len(buffer') : buffer'[i] \in kept'
    PROVE  ServeInv'
<1>1. ASSUME NEW d \in Clients, d # c PROVE CallServes(d)'
  <2>1. call'[d] = call[d]
    BY <1>1 DEF IInv, TypeOK, ServeInv
  <2>. QED BY <2>1 DEF ServeInv, CallServes
<1>. QED BY <1>1 DEF ServeInv

\* The request that TelegramService sees of a call.
View(k) == [text |-> k.text, shown |-> k.shown, reply |-> k.reply]
Request == [c \in Clients |-> View(call[c])]

LEMMA RequestStep ==
    ASSUME TypeOK, NEW c \in Clients, NEW k, call' = [call EXCEPT ![c] = k]
    PROVE  /\ Request' = [Request EXCEPT ![c] = View(k)]
           /\ Request[c] = View(call[c])
<1>1. \A d \in Clients : call'[d] = IF d = c THEN k ELSE call[d]
    BY DEF TypeOK
<1>2. \A d \in Clients : Request'[d] = IF d = c THEN View(k) ELSE View(call[d])
    BY <1>1 DEF Request, View
<1>. QED BY <1>2 DEF Request

\* A step that leaves the view of its call alone.
LEMMA Unseen ==
    ASSUME TypeOK, NEW c \in Clients, NEW k, call' = [call EXCEPT ![c] = k],
           View(k) = View(call[c]), UNCHANGED <<posted, kept>>
    PROVE  UNCHANGED <<posted, kept, Request>>
<1>1. Request' = [Request EXCEPT ![c] = Request[c]]
    BY RequestStep
<1>. QED BY <1>1 DEF Request

\* The call is made.
LEMMA ServeSend ==
    ASSUME ServeInv, NEW c \in Clients, NEW t \in Texts, SendHtml(c, t)
    PROVE  ServeInv' /\ Service!Start(c, t)
<1> DEFINE k == [call[c] EXCEPT !.at = "waiting", !.text = t]
<1>1. IInv' /\ TypeOK
    BY SendHtmlStep DEF ServeInv, IInv
<1>2. call' = [call EXCEPT ![c] = k] /\ UNCHANGED <<recent, buffer, posted, kept>>
    BY DEF SendHtml
<1>3. call[c] = Idle
    BY DEF SendHtml, ServeInv, CallServes
<1>4. /\ k.at = "waiting" /\ k.text = t /\ k.reply = None
      /\ k.shown = FALSE /\ k.arrived = FALSE
    BY <1>3 DEF Idle
<1>5. call'[c] = k /\ call'[c] \in Call
    BY <1>1, <1>2 DEF IInv, TypeOK
<1>6. CallServes(c)'
    BY <1>4, <1>5 DEF CallServes
<1>7. View(k) = [text |-> t, shown |-> FALSE, reply |-> None]
    BY <1>4 DEF View
<1>. HIDE DEF k
<1>8. ServeInv'
    BY <1>1, <1>2, <1>5, <1>6, ServeStep DEF ServeInv
<1>9. /\ Request[c] = [text |-> None, shown |-> FALSE, reply |-> None]
      /\ Request' = [Request EXCEPT ![c] = [text |-> t, shown |-> FALSE, reply |-> None]]
  <2>1. Request' = [Request EXCEPT ![c] = View(k)] /\ Request[c] = View(call[c])
    BY <1>1, <1>2, RequestStep
  <2>2. View(call[c]) = [text |-> None, shown |-> FALSE, reply |-> None]
    BY <1>3 DEF View, Idle
  <2>. QED BY <1>7, <2>1, <2>2
<1>10. Service!Start(c, t)
    BY <1>2, <1>9 DEF Service!Start, Service!NoRequest, Request, View
<1>. QED BY <1>8, <1>10

\* A call under way is answered with r.
LEMMA ServeAnswer ==
    ASSUME ServeInv, IInv', NEW c \in Clients, NEW r \in Replies,
           call[c].at \in {"waiting", "sending", "draining", "flushing"},
           Answer(c, r), UNCHANGED <<recent, posted>>,
           \A i \in 1 .. Len(buffer') : buffer'[i] \in kept',
           r = "sent" => call[c].shown,
           r = "suppressed_duplicate" => call[c].text \in posted,
           kept' = IF r = "buffered_circuit_open" THEN kept \union {call[c].text} ELSE kept
    PROVE  ServeInv' /\ Service!Finish(c, r)
<1> DEFINE k == [call[c] EXCEPT !.at = "answered", !.reply = r]
<1>1. TypeOK /\ call[c] \in Call
    BY DEF ServeInv, IInv, TypeOK
<1>2. call' = [call EXCEPT ![c] = k]
    BY DEF Answer
<1>3. /\ k.at = "answered" /\ k.reply = r /\ k.text = call[c].text
      /\ k.shown = call[c].shown
    BY <1>1 DEF Call
<1>4. call'[c] = k /\ call'[c] \in Call
    BY <1>1, <1>2 DEF IInv, TypeOK
<1>5. call[c].text # None /\ call[c].reply = None /\ r # None
    BY NoneAssumption DEF ServeInv, CallServes, Replies
<1>. HIDE DEF k
<1>6. CallServes(c)'
    BY <1>3, <1>4, <1>5 DEF CallServes
<1>7. ServeInv'
    BY <1>2, <1>4, <1>6, ServeStep DEF ServeInv
<1>8. /\ Request[c] = View(call[c])
      /\ Request' = [Request EXCEPT ![c] = [text |-> call[c].text, shown |-> call[c].shown,
                                            reply |-> r]]
  <2>1. Request' = [Request EXCEPT ![c] = View(k)] /\ Request[c] = View(call[c])
    BY <1>1, <1>2, RequestStep
  <2>2. View(k) = [text |-> call[c].text, shown |-> call[c].shown, reply |-> r]
    BY <1>3 DEF View
  <2>. QED BY <2>1, <2>2
<1>9. Service!Finish(c, r)
    BY <1>5, <1>8 DEF Service!Finish, Service!Busy, Request, View
<1>. QED BY <1>7, <1>9

\* The answers a call can get.
LEMMA ServeAnswers ==
    ASSUME ServeInv, NEW c \in Clients,
           \/ EnterBlocked(c) \/ EnterDuplicate(c) \/ Drained(c)
           \/ \E f \in Failures : GiveUp(c, f) \/ GiveUpFlush(c, f)
    PROVE  ServeInv' /\ \E r \in Replies : Service!Finish(c, r)
<1>1. IInv' /\ TypeOK /\ CallServes(c)
    BY EnterBlockedStep, EnterDuplicateStep, DrainedStep, GiveUpStep, GiveUpFlushStep
       DEF ServeInv, IInv
<1>2. \A i \in 1 .. Len(buffer) : buffer[i] \in kept
    BY DEF ServeInv
<1>3. CASE EnterBlocked(c)
  <2> DEFINE text == call[c].text
             rest == IF Len(buffer) < BufferSize THEN buffer ELSE Tail(buffer)
  <2>1. /\ buffer' = Append(rest, text) /\ kept' = kept \union {text}
        /\ UNCHANGED <<recent, posted>> /\ Answer(c, "buffered_circuit_open")
        /\ call[c].at = "waiting"
    BY <1>3 DEF EnterBlocked, Enters
  <2>2. buffer \in Seq(Texts) /\ text \in Texts
    BY <1>1, <2>1 DEF TypeOK, CallServes
  <2>3. rest \in Seq(Texts) /\ \A i \in 1 .. Len(rest) : rest[i] \in kept
    <3>1. CASE Len(buffer) < BufferSize
      BY <1>2, <2>2, <3>1
    <3>2. CASE ~(Len(buffer) < BufferSize)
      <4>1. buffer # <<>> /\ rest = Tail(buffer)
        BY <2>2, <3>2, LimitsAssumption
      <4>. QED BY <1>2, <2>2, <4>1
    <3>. QED BY <3>1, <3>2
  <2>. HIDE DEF rest
  <2>4. \A i \in 1 .. Len(buffer') : buffer'[i] \in kept'
    BY <2>1, <2>2, <2>3
  <2>. QED BY <1>1, <2>1, <2>4, ServeAnswer DEF Replies
<1>4. CASE EnterDuplicate(c)
  <2>1. /\ Answer(c, "suppressed_duplicate") /\ call[c].at = "waiting"
        /\ call[c].text \in recent /\ UNCHANGED <<recent, posted, buffer, kept>>
    BY <1>4 DEF EnterDuplicate, Enters
  <2>2. call[c].text \in posted
    BY <2>1 DEF ServeInv
  <2>. QED BY <1>1, <1>2, <2>1, <2>2, ServeAnswer DEF Replies
<1>5. CASE Drained(c)
  <2>1. /\ Answer(c, "sent") /\ call[c].at = "draining"
        /\ UNCHANGED <<recent, posted, buffer, kept>>
    BY <1>5 DEF Drained
  <2>2. call[c].shown
    BY <1>1, <2>1 DEF CallServes
  <2>. QED BY <1>1, <1>2, <2>1, <2>2, ServeAnswer DEF Replies
<1>6. ASSUME NEW f \in Failures, GiveUp(c, f)
      PROVE  ServeInv' /\ \E r \in Replies : Service!Finish(c, r)
  <2>1. PICK r \in {"raised", "failed"} : Answer(c, r)
    BY <1>6 DEF GiveUp
  <2>2. call[c].at = "sending" /\ UNCHANGED <<recent, posted, buffer, kept>>
    BY <1>6 DEF GiveUp
  <2>. QED BY <1>1, <1>2, <2>1, <2>2, ServeAnswer DEF Replies
<1>7. ASSUME NEW f \in Failures, GiveUpFlush(c, f)
      PROVE  ServeInv' /\ \E r \in Replies : Service!Finish(c, r)
  <2>1. PICK r \in {"raised", "sent"} : Answer(c, r)
    BY <1>7 DEF GiveUpFlush
  <2>2. call[c].at = "flushing" /\ UNCHANGED <<recent, posted, kept>>
    BY <1>7 DEF GiveUpFlush
  <2>3. call[c].shown /\ call[c].out \in kept /\ kept \subseteq Texts /\ buffer \in Seq(Texts)
    BY <1>1, <2>2 DEF CallServes, TypeOK
  <2>4. buffer' = buffer \/ buffer' = <<call[c].out>> \o buffer
    BY <1>7 DEF GiveUpFlush
  <2>5. \A i \in 1 .. Len(buffer') : buffer'[i] \in kept'
    BY <1>2, <2>2, <2>3, <2>4
  <2>. QED BY <1>1, <2>1, <2>2, <2>3, <2>5, ServeAnswer DEF Replies
<1>. QED BY <1>3, <1>4, <1>5, <1>6, <1>7

\* What the service does not see: an attempt starts, fails and is repeated, is
\* accepted, or takes the next text out of the buffer.
LEMMA ServeUnseen ==
    ASSUME ServeInv, NEW c \in Clients,
           \/ EnterSending(c) \/ Accepted(c) \/ DrainOne(c)
           \/ \E f \in Failures : Retry(c, f)
    PROVE  ServeInv' /\ UNCHANGED <<posted, kept, Request>>
<1>1. IInv' /\ TypeOK /\ CallServes(c) /\ call[c] \in Call
    BY EnterSendingStep, AcceptedStep, DrainOneStep, RetryStep DEF ServeInv, IInv, TypeOK
<1>2. UNCHANGED <<posted, kept>>
    BY DEF EnterSending, Accepted, DrainOne, Retry
<1>3. ASSUME NEW k, call' = [call EXCEPT ![c] = k], View(k) = View(call[c]), CallServes(c)',
             recent' \subseteq posted, \A i \in 1 .. Len(buffer') : buffer'[i] \in kept
      PROVE  ServeInv' /\ UNCHANGED <<posted, kept, Request>>
  <2>1. k \in Call
    BY <1>1, <1>3 DEF IInv, TypeOK
  <2>2. ServeInv'
    BY <1>1, <1>2, <1>3, <2>1, ServeStep
  <2>3. UNCHANGED <<posted, kept, Request>>
    BY <1>1, <1>2, <1>3, Unseen
  <2>. QED BY <2>2, <2>3
<1>4. recent \subseteq posted /\ \A i \in 1 .. Len(buffer) : buffer[i] \in kept
    BY DEF ServeInv
<1>5. CASE EnterSending(c)
  <2> DEFINE k == [call[c] EXCEPT !.at = "sending", !.out = call[c].text, !.tries = 1]
  <2>1. /\ call' = [call EXCEPT ![c] = k] /\ call[c].at = "waiting"
        /\ UNCHANGED <<recent, buffer>>
    BY <1>5 DEF EnterSending, Enters
  <2>2. /\ k.at = "sending" /\ k.out = call[c].text /\ k.text = call[c].text
        /\ k.shown = call[c].shown /\ k.reply = call[c].reply /\ k.arrived = call[c].arrived
    BY <1>1 DEF Call
  <2>3. call'[c] = k
    BY <1>1, <2>1 DEF TypeOK
  <2>. HIDE DEF k
  <2>4. View(k) = View(call[c])
    BY <2>2 DEF View
  <2>5. CallServes(c)'
    BY <1>1, <2>1, <2>2, <2>3 DEF CallServes
  <2>. QED BY <1>3, <1>4, <2>1, <2>4, <2>5
<1>6. CASE Accepted(c)
  <2> DEFINE k == [call[c] EXCEPT !.at = "draining", !.arrived = FALSE]
  <2>1. /\ call' = [call EXCEPT ![c] = k] /\ call[c].at \in {"sending", "flushing"}
        /\ call[c].arrived /\ buffer' = buffer /\ recent' = recent \union {call[c].out}
    BY <1>6 DEF Accepted, Trying
  <2>2. /\ k.at = "draining" /\ k.text = call[c].text
        /\ k.shown = call[c].shown /\ k.reply = call[c].reply /\ k.arrived = FALSE
    BY <1>1 DEF Call
  <2>3. call'[c] = k
    BY <1>1, <2>1 DEF TypeOK
  <2>. HIDE DEF k
  <2>4. View(k) = View(call[c])
    BY <2>2 DEF View
  <2>5. CallServes(c)' /\ call[c].out \in posted
    BY <1>1, <2>1, <2>2, <2>3 DEF CallServes
  <2>. QED BY <1>3, <1>4, <2>1, <2>4, <2>5
<1>7. ASSUME NEW f \in Failures, Retry(c, f)
      PROVE  ServeInv' /\ UNCHANGED <<posted, kept, Request>>
  <2> DEFINE k == [call[c] EXCEPT !.tries = @ + 1, !.arrived = FALSE]
  <2>1. /\ call' = [call EXCEPT ![c] = k] /\ call[c].at \in {"sending", "flushing"}
        /\ UNCHANGED <<recent, buffer>>
    BY <1>7 DEF Retry, Fails, Trying
  <2>2. /\ k.at = call[c].at /\ k.text = call[c].text /\ k.out = call[c].out
        /\ k.shown = call[c].shown /\ k.reply = call[c].reply /\ k.arrived = FALSE
    BY <1>1 DEF Call
  <2>3. call'[c] = k
    BY <1>1, <2>1 DEF TypeOK
  <2>. HIDE DEF k
  <2>4. View(k) = View(call[c])
    BY <2>2 DEF View
  <2>5. CallServes(c)'
    BY <1>1, <1>2, <2>1, <2>2, <2>3 DEF CallServes
  <2>. QED BY <1>3, <1>4, <2>1, <2>4, <2>5
<1>8. CASE DrainOne(c)
  <2>1. /\ buffer # <<>> /\ buffer' = Tail(buffer) /\ recent' = recent
        /\ call[c].at = "draining" /\ buffer \in Seq(Texts)
    BY <1>1, <1>8 DEF DrainOne, TypeOK
  <2>2. Head(buffer) \in kept /\ \A i \in 1 .. Len(buffer') : buffer'[i] \in kept
    BY <1>4, <2>1
  <2>3. CASE call' = call
    <3>1. call' = [call EXCEPT ![c] = call[c]] /\ CallServes(c)'
      BY <1>1, <1>2, <2>3 DEF TypeOK, CallServes
    <3>. QED BY <1>3, <1>4, <2>1, <2>2, <3>1
  <2>4. CASE call' = [call EXCEPT ![c].at = "flushing", ![c].out = Head(buffer), ![c].tries = 1]
    <3> DEFINE k == [call[c] EXCEPT !.at = "flushing", !.out = Head(buffer), !.tries = 1]
    <3>1. call' = [call EXCEPT ![c] = k]
      BY <2>4
    <3>2. /\ k.at = "flushing" /\ k.text = call[c].text /\ k.out = Head(buffer)
          /\ k.shown = call[c].shown /\ k.reply = call[c].reply /\ k.arrived = call[c].arrived
      BY <1>1 DEF Call
    <3>3. call'[c] = k
      BY <1>1, <3>1 DEF TypeOK
    <3>. HIDE DEF k
    <3>4. View(k) = View(call[c])
      BY <3>2 DEF View
    <3>5. CallServes(c)'
      BY <1>1, <1>2, <2>1, <2>2, <3>2, <3>3 DEF CallServes
    <3>. QED BY <1>3, <1>4, <2>1, <2>2, <3>1, <3>4, <3>5
  <2>. QED BY <1>8, <2>3, <2>4 DEF DrainOne
<1>. QED BY <1>5, <1>6, <1>7, <1>8

\* Telegram shows the text of the call, or one that was put aside.
LEMMA ServeArrive ==
    ASSUME ServeInv, NEW c \in Clients, Arrive(c)
    PROVE  ServeInv' /\ (Service!Show(c) \/ Service!ShowKept)
<1> DEFINE k == [call[c] EXCEPT !.arrived = TRUE, !.shown = @ \/ call[c].at = "sending"]
<1>1. IInv' /\ TypeOK /\ CallServes(c) /\ call[c] \in Call
    BY ArriveStep DEF ServeInv, IInv, TypeOK
<1>2. /\ call' = [call EXCEPT ![c] = k] /\ posted' = posted \union {call[c].out}
      /\ call[c].at \in {"sending", "flushing"} /\ UNCHANGED <<recent, buffer, kept>>
    BY DEF Arrive, Trying
<1>3. /\ k.at = call[c].at /\ k.text = call[c].text /\ k.out = call[c].out
      /\ k.shown = (call[c].shown \/ call[c].at = "sending") /\ k.reply = call[c].reply
      /\ k.arrived = TRUE
    BY <1>1 DEF Call
<1>4. call'[c] = k /\ call'[c] \in Call
    BY <1>1, <1>2 DEF IInv, TypeOK
<1>. HIDE DEF k
<1>5. CallServes(c)'
  <2>1. call[c].shown \in BOOLEAN
    BY <1>1 DEF Call
  <2>2. k.out \in posted' /\ kept' = kept
    BY <1>2, <1>3
  <2>3. CASE call[c].at = "sending"
    <3>1. k.shown /\ k.at = "sending" /\ k.out = k.text
      BY <1>1, <1>3, <2>1, <2>3 DEF CallServes
    <3>. QED BY <1>1, <1>3, <1>4, <2>2, <2>3, <3>1 DEF CallServes
  <2>4. CASE call[c].at = "flushing"
    <3>1. k.shown /\ k.at = "flushing"
      BY <1>1, <1>3, <2>1, <2>4 DEF CallServes
    <3>. QED BY <1>1, <1>3, <1>4, <2>2, <2>4, <3>1 DEF CallServes
  <2>. QED BY <1>2, <2>3, <2>4
<1>6. ServeInv'
    BY <1>1, <1>2, <1>4, <1>5, ServeStep DEF ServeInv
<1>7. Request' = [Request EXCEPT ![c] = View(k)] /\ Request[c] = View(call[c])
    BY <1>1, <1>2, RequestStep
<1>8. CASE call[c].at = "sending"
  <2>1. /\ call[c].text # None /\ call[c].reply = None /\ call[c].out = call[c].text
    BY <1>1, <1>8, NoneAssumption DEF CallServes
  <2>2. k.shown = TRUE
    BY <1>3, <1>8
  <2>3. View(k) = [text |-> call[c].text, shown |-> TRUE, reply |-> call[c].reply]
    BY <1>3, <2>2 DEF View
  <2>4. Service!Show(c)
    BY <1>2, <1>7, <2>1, <2>3, ZenonT(60) DEF Service!Show, Service!Busy, Request, View
  <2>. QED BY <1>6, <2>4
<1>9. CASE call[c].at = "flushing"
  <2>1. call[c].out \in kept /\ call[c].shown = TRUE
    BY <1>1, <1>9 DEF CallServes, Call
  <2>2. k.shown = call[c].shown
    BY <1>3, <2>1
  <2>3. View(k) = View(call[c])
    BY <1>3, <2>2 DEF View
  <2>4. Request' = Request
    BY <1>7, <2>3 DEF Request
  <2>5. Service!ShowKept
    BY <1>2, <2>1, <2>4 DEF Service!ShowKept, Request, View
  <2>. QED BY <1>6, <2>5
<1>. QED BY <1>2, <1>8, <1>9

\* The caller takes its answer or stops waiting.
LEMMA ServeLeave ==
    ASSUME ServeInv, NEW c \in Clients, CancelSend(c) \/ Return(c)
    PROVE  ServeInv' /\ Service!Leave(c)
<1>1. IInv' /\ TypeOK /\ CallServes(c) /\ Idle \in Call
    BY CancelSendStep, ReturnStep, LimitsAssumption
       DEF ServeInv, IInv, Idle, Call, Stages, Replies
<1>2. /\ call' = [call EXCEPT ![c] = Idle] /\ UNCHANGED <<recent, buffer, posted, kept>>
      /\ call[c].at \in {"waiting", "sending", "draining", "flushing", "answered"}
    BY DEF CancelSend, Return
<1>3. call'[c] = Idle
    BY <1>1, <1>2 DEF TypeOK
<1>4. CallServes(c)'
    BY <1>3 DEF CallServes, Idle
<1>5. ServeInv'
    BY <1>1, <1>2, <1>4, ServeStep DEF ServeInv
<1>6. Request' = [Request EXCEPT ![c] = View(Idle)] /\ Request[c] = View(call[c])
    BY <1>1, <1>2, RequestStep
<1>7. View(Idle) = [text |-> None, shown |-> FALSE, reply |-> None]
    BY DEF View, Idle
<1>8. View(call[c]) # [text |-> None, shown |-> FALSE, reply |-> None]
  <2>1. call[c].text # None \/ call[c].reply # None
    BY <1>1, <1>2, NoneAssumption DEF CallServes
  <2>. QED BY <2>1 DEF View
<1>9. Service!Leave(c)
    BY <1>2, <1>6, <1>7, <1>8 DEF Service!Leave, Service!NoRequest, Request, View
<1>. QED BY <1>5, <1>9

LEMMA ServeInit ==
    Init => ServeInv /\ Service!ServiceInit
<1>. SUFFICES ASSUME Init PROVE ServeInv /\ Service!ServiceInit
    OBVIOUS
<1>1. IInv
    BY InitIInv
<1>2. \A c \in Clients : call[c] = Idle
    BY DEF Init
<1>3. Idle.at = "idle"
    BY DEF Idle
<1>4. \A c \in Clients : CallServes(c)
    BY <1>2, <1>3 DEF CallServes
<1>5. ServeInv
    BY <1>1, <1>4 DEF Init, ServeInv
<1>6. Service!ServiceInit
    BY <1>2 DEF Init, Idle, Service!ServiceInit, Service!NoRequest
<1>. QED BY <1>5, <1>6

\* Every step of the broadcaster is one of the service or a stutter.
LEMMA ServeNext ==
    ASSUME ServeInv, [Next]_vars
    PROVE  ServeInv' /\ [Service!ServiceNext]_(Service!serviceVars)
<1>1. ASSUME IInv', UNCHANGED <<posted, kept, buffer, call>>, recent' \subseteq recent
      PROVE  ServeInv' /\ UNCHANGED Service!serviceVars
  <2>1. \A c \in Clients : CallServes(c)'
    BY <1>1 DEF ServeInv, CallServes
  <2>2. ServeInv'
    BY <1>1, <2>1 DEF ServeInv
  <2>. QED BY <1>1, <2>2 DEF Service!serviceVars
<1>2. CASE EditHtml \/ ResetTimePasses \/ HashExpires \/ UNCHANGED vars
  <2>1. IInv'
    BY NextIInv DEF ServeInv
  <2>2. UNCHANGED <<posted, kept, buffer, call>> /\ recent' \subseteq recent
    BY <1>2 DEF EditHtml, ResetTimePasses, HashExpires, vars
  <2>. QED BY <1>1, <2>1, <2>2
<1>3. ASSUME NEW c \in Clients, UNCHANGED <<posted, kept, Request>>
      PROVE  UNCHANGED Service!serviceVars
    BY <1>3 DEF Service!serviceVars, Request, View
<1>4. ASSUME NEW c \in Clients, NEW t \in Texts, SendHtml(c, t)
      PROVE  ServeInv' /\ Service!ServiceNext
    BY <1>4, ServeSend DEF Service!ServiceNext
<1>5. ASSUME NEW c \in Clients, Enter(c) \/ Attempt(c) \/ Drain(c)
      PROVE  ServeInv' /\ [Service!ServiceNext]_(Service!serviceVars)
  <2>1. CASE \/ EnterBlocked(c) \/ EnterDuplicate(c) \/ Drained(c)
             \/ \E f \in Failures : GiveUp(c, f) \/ GiveUpFlush(c, f)
    <3>1. ServeInv' /\ \E r \in Service!Replies : Service!Finish(c, r)
      BY <2>1, ServeAnswers DEF Replies, Service!Replies
    <3>. QED BY <3>1 DEF Service!ServiceNext
  <2>2. CASE \/ EnterSending(c) \/ Accepted(c) \/ DrainOne(c)
             \/ \E f \in Failures : Retry(c, f)
    BY <1>3, <2>2, ServeUnseen
  <2>3. CASE Arrive(c)
    <3>1. ServeInv' /\ (Service!Show(c) \/ Service!ShowKept)
      BY <2>3, ServeArrive
    <3>. QED BY <3>1 DEF Service!ServiceNext
  <2>. QED BY <1>5, <2>1, <2>2, <2>3 DEF Enter, Attempt, Drain
<1>6. ASSUME NEW c \in Clients, CancelSend(c) \/ Return(c)
      PROVE  ServeInv' /\ Service!ServiceNext
    BY <1>6, ServeLeave DEF Service!ServiceNext
<1>. QED BY <1>2, <1>4, <1>5, <1>6 DEF Next

\* The callers of send_html get what TelegramService promises, whatever is retried,
\* buffered, drained or cancelled: "sent" only for a text that the channel showed
\* during the call, "suppressed_duplicate" only for one it showed before, and no
\* text is shown outside its call unless it was put aside.
THEOREM BroadcasterIsService == Spec => ImplementsService
<1>1. ServeInv /\ [Next]_vars => ServeInv' /\ [Service!ServiceNext]_(Service!serviceVars)
    BY ServeNext
<1>. QED BY <1>1, ServeInit, PTL DEF Spec, ImplementsService, Service!ServiceSpec
=============================================================================
