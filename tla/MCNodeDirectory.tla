-------------------------- MODULE MCNodeDirectory --------------------------
(* An instance of NodeDirectory for TLC.  Nodes 1 and 257 share a last byte. *)
EXTENDS NodeDirectory, TLC

HandlerSymmetry == Permutations(Handler)

Info(n, name, fv)  == [num |-> n, name |-> name, pos |-> 1, metric |-> 0, fav |-> fv]

OneNode  == <<Info(1, "a", FALSE), Info(0, "b", FALSE)>>
BothKnown == <<Info(1, "b", TRUE), Info(257, "a", FALSE)>>

TwoConfigs == {OneNode, BothKnown}

From(n, port, name, val, rssi) ==
  [node |-> n, port |-> port, name |-> name, val |-> val, rssi |-> rssi]

\* A position heard directly makes two updates.
Packets == {From(257, "position", "", 2, 1), From(1, "nodeinfo", "b", 0, 0)}
=============================================================================
