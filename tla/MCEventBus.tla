----------------------------- MODULE MCEventBus -----------------------------
(* An instance of EventBus for TLC.                                         *)
EXTENDS EventBus

ItemOf(id, kind, dir, channel) == [id |-> id, kind |-> kind, dir |-> dir, channel |-> channel]

\* An incoming text and an answer to it, on a channel other than the primary.
Items == {ItemOf(1, "text", "incoming", 1), ItemOf(2, "text", "outgoing", 1)}

SmallRings == [t \in HistoryTypes |-> 1]
=============================================================================
