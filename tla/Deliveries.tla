----------------------------- MODULE Deliveries -----------------------------
(***************************************************************************)
(* What the account's user is promised for everything the chat server      *)
(* keeps while he is away: it stays on the server until he has been told   *)
(* of it, or has decided on it.                                            *)
(***************************************************************************)
CONSTANT Items

VARIABLES
  arrived,   \* items the server has accepted so far
  kept,      \* items it still keeps
  ready      \* items the user has seen, or has decided on

dVars == <<arrived, kept, ready>>

Init == arrived = {} /\ kept = {} /\ ready = {}

Arrive(i) ==
  /\ i \notin arrived
  /\ arrived' = arrived \cup {i} /\ kept' = kept \cup {i}
  /\ UNCHANGED ready

\* The user is told of some of what has arrived, or decides on it; again, perhaps.
Tell(some) ==
  /\ some \subseteq arrived
  /\ ready' = ready \cup some
  /\ UNCHANGED <<arrived, kept>>

Remove(i) ==
  /\ i \in kept \cap ready
  /\ kept' = kept \ {i}
  /\ UNCHANGED <<arrived, ready>>

Next ==
  \/ \E i \in Items : Arrive(i) \/ Remove(i)
  \/ \E some \in SUBSET Items : Tell(some)

Safety == Init /\ [][Next]_dVars
=============================================================================
