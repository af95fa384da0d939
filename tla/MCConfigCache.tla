--------------------------- MODULE MCConfigCache ----------------------------
(* Instances of ConfigCache for TLC: the frames the node sends.            *)
EXTENDS ConfigCache

Identity(n, u) == [name |-> n, unmessagable |-> u]

Of(kind, id) == [kind |-> kind, id |-> id, from |-> 0, user |-> NoUser, rest |-> NoRest]

\* Node 9 is the connected node; node 5 is known to it with position and
\* metrics (rest 3); node 6 is only heard on the air.
MyInfo   == Of("my_info", 9)
OwnNode  == [Of("node_info", 9) EXCEPT !.user = Identity(90, "no"), !.rest = 1]
Node5    == [Of("node_info", 5) EXCEPT !.user = Identity(50, "yes"), !.rest = 3]
Settings == Of("config", 0)
Complete == Of("config_complete", 1)

Heard(from, name, u) ==
  [kind |-> "nodeinfo_app", id |-> 0, from |-> from, user |-> Identity(name, u), rest |-> NoRest]

Text == [Of("text", 31) EXCEPT !.from = 5]

Mixed == {MyInfo, OwnNode, Node5, Complete, Text,
          Heard(5, 51, "unset"), Heard(6, 60, "unset"), Heard(0, 70, "unset")}
=============================================================================
