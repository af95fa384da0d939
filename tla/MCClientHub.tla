---------------------------- MODULE MCClientHub -----------------------------
(* Instances of ClientHub for TLC: the frames, caches and messages.        *)
EXTENDS ClientHub

Text(id) == FrameOf("text", id, 5)
Ack(id)  == FrameOf("ack", id, 5)

\* Config sequences of the node, of different length.
LongCache    == <<FrameOf("my_info", 9, 0), FrameOf("node_info", 9, 0),
                  FrameOf("config_complete", 1, 0)>>
ShortCache   == <<FrameOf("my_info", 9, 0), FrameOf("config_complete", 2, 0)>>
ShortAndLong == {ShortCache, LongCache}
OnlyLong     == {LongCache}
NoCaches     == {}

\* What the node delivers.
OneText       == {Text(31)}
TwoTexts      == {Text(31), Text(32)}
TextAckConfig == {Text(31), Ack(21), FrameOf("node_info", 7, 0)}
NoFrames      == {}

\* What a client sends.
Want(n)    == FrameOf("want", n, 0)
Disconnect == FrameOf("disconnect", 0, 0)
Say(id)    == FrameOf("text", id, 0)
Heartbeat  == FrameOf("heartbeat", 0, 0)

OnlyDisconnect == {Disconnect}
OneWant        == {Want(7)}
PhasesAndChat  == {Want(nonceOnlyConfig), Want(nonceOnlyNodes), Say(21), Heartbeat}
NoMessages     == {}
=============================================================================
