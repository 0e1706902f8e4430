-------------------------- MODULE MCBaseRtspServer --------------------------
(* Instances of BaseRtspServer for TLC. *)
EXTENDS BaseRtspServer

CONSTANTS c1, c2, video, audio

\* One client, both media by the URL of the stream, a limit of two channels.
Alone == [clients |-> {c1}, media |-> {video, audio}, mode |-> "udp",
          aggregate |-> TRUE, max |-> 2, ids |-> 3, faults |-> {}]
\* Two clients and one medium, addressed by its own URL.
Pair == [Alone EXCEPT !.clients = {c1, c2}, !.media = {video}, !.aggregate = FALSE]
Multi == [Pair EXCEPT !.mode = "multicast"]
\* Two clients that use the URL of the stream.
Mixed == [Alone EXCEPT !.clients = {c1, c2}]
Tcp == [Alone EXCEPT !.mode = "tcp"]
Brief(s) == [s EXCEPT !.ids = 2]
With(s, f) == [s EXCEPT !.faults = f]

SetupsAll == {Pair, Multi, Mixed} \cup {With(s, {"vanish"}) : s \in {Alone, Multi, Tcp}}
             \cup {With(Multi, {"late", "vanish", "disable"}),
                   With(Brief(Alone), {"crash"}),
                   With([Brief(Pair) EXCEPT !.max = 1], {"crash"}),
                   With(Brief(Multi), {"crash", "vanish"})}
SetupsPair == {Pair}
=============================================================================
