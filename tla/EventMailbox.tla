---------------------------- MODULE EventMailbox ----------------------------
(***************************************************************************)
(* What subscribers of the event bus may rely on: an inbox of accepted     *)
(* events, each newer than anything its key was ever delivered, emptied    *)
(* as a whole into the handlers.  Accepting one event may cost at most one *)
(* other: the older event of its key, or the victim of a full inbox.       *)
(***************************************************************************)
EXTENDS Naturals, FiniteSets

CONSTANTS Keys,       \* what events are about: a symbol's close, its ticker...
          Versions    \* the numbers events of a key carry, in publication order

VARIABLES inbox,      \* accepted events that no handler was given yet
          delivered   \* the newest version of each key given to handlers

vars == <<inbox, delivered>>

Init == /\ inbox = {}
        /\ delivered = [k \in Keys |-> 0]

\* `e` is newer than all its key has waiting or delivered.
Newer(e) == /\ e.ver > delivered[e.key]
            /\ \A f \in inbox : f.key = e.key => e.ver > f.ver

Accept(e) == /\ Newer(e)
             /\ \E lost \in SUBSET inbox :
                  /\ Cardinality(lost) <= 1
                  /\ inbox' = (inbox \ lost) \cup {e}
             /\ UNCHANGED delivered

Newest(k) == {e \in inbox : e.key = k /\ \A f \in inbox : f.key = k => f.ver <= e.ver}

DeliverAll == /\ inbox # {}
              /\ delivered' = [k \in Keys |->
                                 IF Newest(k) = {} THEN delivered[k]
                                 ELSE (CHOOSE e \in Newest(k) : TRUE).ver]
              /\ inbox' = {}

Next == \/ \E k \in Keys, v \in Versions : Accept([key |-> k, ver |-> v])
        \/ DeliverAll

Spec == Init /\ [][Next]_vars
=============================================================================
