----------------------------- MODULE MCWorkflows -----------------------------
(* Two requests at once and no consumer, or one request that publishes one  *)
(* event, one retry by hand and two consumers: the queue is all that the    *)
(* two sides share, so neither case hides what the other could do to it.    *)
EXTENDS Workflows

Requested == {f \in Flows : flows[f].pc = "ready"}
MCInit ==
    /\ Init
    /\ \A f \in Flows \ Requested : flows[f].request = "refused"
    /\ \/ (\A w \in Consumers : Doing(w, "stopped")) /\ retried = MaxManual /\ faults = 0
       \/ /\ \A w \in Consumers : Doing(w, "idle")
          /\ retried = 0 /\ faults = 1 /\ customers = 1
          /\ Requested = {CHOOSE f \in Flows : TRUE} /\ \A f \in Requested : flows[f].request = "report"

MCSpec == MCInit /\ [][Next]_vars /\ QueueFairness /\ \A f \in Flows : WF_vars(FlowStep(f))
=============================================================================
