-------------------------- MODULE TelegramService --------------------------
(***************************************************************************)
(* What the callers of send_html may rely on.  A text may be shown at any  *)
(* moment of the call, several times, or not at all; the answer "sent" is  *)
(* given only when it was shown during this call, "suppressed_duplicate"   *)
(* only when it was shown before; a text answered "buffered_circuit_open"  *)
(* may still be shown at any later time.  The caller may walk away from    *)
(* the call (a timeout) at any moment.                                     *)
(***************************************************************************)
CONSTANTS
    Clients,
    Texts,
    None

VARIABLES
    posted,         \* texts the channel has shown
    kept,           \* texts that were ever put aside for later
    request         \* the send_html call of each client

serviceVars == <<posted, kept, request>>

Replies == {"sent", "buffered_circuit_open", "suppressed_duplicate", "failed", "raised"}

NoRequest == [text |-> None, shown |-> FALSE, reply |-> None]

ServiceInit ==
    /\ posted = {} /\ kept = {}
    /\ request = [c \in Clients |-> NoRequest]

Busy(c) == request[c].text # None /\ request[c].reply = None
Answered(c) == request[c].reply # None

Start(c, t) ==
    /\ request[c] = NoRequest
    /\ request' = [request EXCEPT ![c].text = t]
    /\ UNCHANGED <<posted, kept>>

Show(c) ==
    /\ Busy(c)
    /\ posted' = posted \union {request[c].text}
    /\ request' = [request EXCEPT ![c].shown = TRUE]
    /\ UNCHANGED kept

Finish(c, r) ==
    /\ Busy(c)
    /\ r = "sent" => request[c].shown
    /\ r = "suppressed_duplicate" => request[c].text \in posted
    /\ kept' = IF r = "buffered_circuit_open" THEN kept \union {request[c].text} ELSE kept
    /\ request' = [request EXCEPT ![c].reply = r]
    /\ UNCHANGED posted

\* The caller takes the answer, or stops waiting for it.
Leave(c) ==
    /\ request[c] # NoRequest
    /\ request' = [request EXCEPT ![c] = NoRequest]
    /\ UNCHANGED <<posted, kept>>

ShowKept ==
    /\ \E t \in kept : posted' = posted \union {t}
    /\ UNCHANGED <<kept, request>>

ServiceNext ==
    \/ \E c \in Clients :
          \/ \E t \in Texts : Start(c, t)
          \/ Show(c) \/ Leave(c)
          \/ \E r \in Replies : Finish(c, r)
    \/ ShowKept

ServiceSpec == ServiceInit /\ [][ServiceNext]_serviceVars
=============================================================================
