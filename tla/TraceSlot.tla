----------------------------- MODULE TraceSlot -----------------------------
(***************************************************************************)
(* What the dashboard promises about traceroutes (static/app.js, "Guard:   *)
(* ignore if a traceroute is already in flight or cooldown active"): there *)
(* is one slot.  A trace takes it when it is free, keeps it until it ends, *)
(* may leave it to the cooldown of its node, and it is free again in time. *)
(***************************************************************************)
CONSTANT Node   \* nodes that can be traced

VARIABLE slot   \* who has it: [by, node]

Free == [by |-> "nobody", node |-> 0]
Held == [by : {"trace", "cooldown"}, node : Node]

Init == slot = Free

Take == slot = Free /\ \E n \in Node : slot' = [by |-> "trace", node |-> n]

Cool == slot.by = "trace" /\ slot' = [slot EXCEPT !.by = "cooldown"]

Release == slot # Free /\ slot' = Free

Next == Take \/ Cool \/ Release

Spec == Init /\ [][Next]_slot /\ WF_slot(Release)
=============================================================================
