-------------------------- MODULE MCElementIOQueue --------------------------
(* Instances of ElementIOQueue for TLC: the setups its runs choose from. *)
EXTENDS ElementIOQueue

CONSTANTS p1, p2, c1, c2

\* Queue created by getOutputQueue(): started when it is made, never flushed.
ScriptOpen == <<"start", "go">>
\* Queue shared by two elements of a pipeline: both flush and start it, and the
\* upstream thread may produce before the downstream element flushes.
ScriptPipeline == <<"flush", "start", "flush", "start", "go">>
\* A player: stop, wait for the threads, start again.
ScriptPlayer == <<"flush", "start", "go", "stop", "join", "flush", "start", "go">>

Plain == [rlimit |-> "NONE", count |-> 1, total |-> 0, size |-> 0, reduce |-> FALSE,
          adding |-> Producers, sizes |-> {1}, list |-> 1, prepending |-> {}, less |-> 0,
          getting |-> {c1}, polling |-> {}, script |-> ScriptOpen]

\* Two consumers: a count limit, an interval limit with lists, a producer that
\* prepends and one that waits for room, and a player that stops and starts again.
\* One consumer: a byte limit with polling, and the dropping limit with the rest.
SetupsAll ==
  LET Shared == [Plain EXCEPT !.getting = Consumers]
      Limits == [Plain EXCEPT !.script = ScriptPipeline]
  IN {[Shared EXCEPT !.rlimit = "COUNT"],
      [Shared EXCEPT !.rlimit = "INTERVAL", !.list = 2],
      [Shared EXCEPT !.prepending = {p2}, !.less = 1],
      [Shared EXCEPT !.adding = {p1}, !.script = ScriptPlayer],
      [Limits EXCEPT !.rlimit = "TOTAL", !.total = 2, !.sizes = {1, 2}, !.polling = {c1}],
      [Limits EXCEPT !.rlimit = "DROP", !.count = 2, !.size = 3, !.sizes = {0, 2},
                      !.reduce = TRUE]}
SetupsStop == {[Plain EXCEPT !.script = ScriptPipeline \o <<"stop", "stop">>]}
=============================================================================
