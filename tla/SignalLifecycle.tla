--------------------------- MODULE SignalLifecycle ---------------------------
(***************************************************************************)
(* What the journal of bot/persistence/tracking.py promises of a signal,   *)
(* whatever tasks serve it: its status only moves forward, it ends for one *)
(* reason, and at most one outcome is ever stored for it, the one of that  *)
(* reason.  SignalTracker implements it as long as every writer of a row   *)
(* holds the lock of its symbol.                                           *)
(***************************************************************************)
CONSTANTS Signals, Reasons, None

VARIABLES status,   \* of the journal row
          why,      \* the reason a closed row was closed for
          outcome   \* the reason stored in signal_outcomes

vars == <<status, why, outcome>>

Init ==
    /\ status = [s \in Signals |-> "none"]
    /\ why = [s \in Signals |-> None]
    /\ outcome = [s \in Signals |-> None]

Arm(s) ==
    /\ status[s] = "none"
    /\ status' = [status EXCEPT ![s] = "pending"]
    /\ UNCHANGED <<why, outcome>>

Activate(s) ==
    /\ status[s] = "pending"
    /\ status' = [status EXCEPT ![s] = "active"]
    /\ UNCHANGED <<why, outcome>>

Close(S, reason) ==
    /\ \A s \in S : status[s] \in {"pending", "active"}
    /\ status' = [s \in Signals |-> IF s \in S THEN "closed" ELSE status[s]]
    /\ why' = [s \in Signals |-> IF s \in S THEN reason ELSE why[s]]
    /\ UNCHANGED outcome

Record(S) ==
    /\ \A s \in S : status[s] = "closed" /\ outcome[s] = None
    /\ outcome' = [s \in Signals |-> IF s \in S THEN why[s] ELSE outcome[s]]
    /\ UNCHANGED <<status, why>>

Next ==
    \/ \E s \in Signals : Arm(s) \/ Activate(s)
    \/ \E S \in SUBSET Signals, reason \in Reasons : Close(S, reason)
    \/ \E S \in SUBSET Signals : Record(S)

Spec == Init /\ [][Next]_vars
=============================================================================
