---------------------- MODULE MCJobDistributorElement ----------------------
(* Instances of JobDistributorElement: buffers, methods, restarts. *)
EXTENDS JobDistributorElement

CONSTANTS h1, h2

Three == [method |-> "SEQUENTIAL", nos |-> <<5, 6, 7>>, script |-> <<"start">>]
Restart == <<"start", "stop", "start">>

\* More buffers than handlers; a stop() among them; a stop() and a restart, with a
\* buffer before, across or after them; all elements work on each buffer, in one run
\* and with a stop(); a source that does not number, with a buffer left when a
\* handler is lost.
SetupsDist == {Three,
               [Three EXCEPT !.nos = <<5, 6>>, !.script = <<"start", "stop">>],
               [Three EXCEPT !.nos = <<5>>, !.script = Restart],
               [Three EXCEPT !.method = "ALL", !.nos = <<5, 6>>],
               [Three EXCEPT !.method = "ALL", !.nos = <<5>>, !.script = <<"start", "stop">>],
               [Three EXCEPT !.nos = <<5, 5, 5>>]}
=============================================================================
