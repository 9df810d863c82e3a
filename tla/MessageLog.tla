------------------------------ MODULE MessageLog ------------------------------
(***************************************************************************)
(* What boltchats-storage promises about a message that was pushed for it: *)
(* it waits, and then it is stored for good, kept aside or lost; what was  *)
(* kept aside or lost may be pushed again.  count counts stored messages, never    *)
(* one twice.                                                              *)
(***************************************************************************)
EXTENDS Naturals, FiniteSets

CONSTANT Msgs

VARIABLES
    place,  \* where a message is
    count   \* the stored messages that have been counted

log == <<place, count>>

Places == {"unsent", "waiting", "stored", "aside", "lost"}
At(p) == {m \in Msgs : place[m] = p}

Init == place = [m \in Msgs |-> "unsent"] /\ count = 0

Accept == \E m \in Msgs :
    /\ place[m] \in {"unsent", "aside", "lost"}
    /\ place' = [place EXCEPT ![m] = "waiting"] /\ UNCHANGED count

\* Letters kept aside are given up in the end.
GiveUp ==
    /\ At("aside") # {}
    /\ place' = [m \in Msgs |-> IF place[m] = "aside" THEN "lost" ELSE place[m]]
    /\ UNCHANGED count

\* Several at once: a worker that stops loses what it holds.
Settle == \E to \in [At("waiting") -> Places \ {"unsent"}] :
    /\ place' = [m \in Msgs |-> IF place[m] = "waiting" THEN to[m] ELSE place[m]]
    /\ UNCHANGED count

Count ==
    /\ count < Cardinality(At("stored"))
    /\ count' = count + 1 /\ UNCHANGED place

Next == Accept \/ GiveUp \/ Settle \/ Count
Spec == Init /\ [][Next]_log
=============================================================================
