---------------------------- MODULE MCRtspClient ----------------------------
(* Instances of RtspClient: tracks, receivers and what goes wrong. *)
EXTENDS RtspClient

Plain == [receivers |-> <<1, 2>>, content |-> FALSE, toggles |-> 3, faults |-> {}, times |-> 0]
One == [Plain EXCEPT !.receivers = <<1>>]
With(s, what, n) == [s EXCEPT !.faults = what, !.times = n]

\* Two tracks; a server that asks for credentials and is hard to reach; answers that
\* arrive together, with and without Content-Length; refused SETUPs; a receiver that
\* cannot start; a lost connection, with a server that restarts; no receiver at all.
SetupsClient == {Plain,
                 With(One, {"connect", "auth"}, 2),
                 With([Plain EXCEPT !.toggles = 2], {"coalesce"}, 0),
                 With([Plain EXCEPT !.content = TRUE, !.toggles = 2], {"coalesce"}, 0),
                 With([Plain EXCEPT !.toggles = 2], {"refuse"}, 0),
                 With([One EXCEPT !.toggles = 2], {"refuse"}, 0),
                 With([Plain EXCEPT !.toggles = 2], {"bind"}, 0),
                 With([One EXCEPT !.toggles = 2], {"lose", "restart", "connect"}, 2),
                 [One EXCEPT !.receivers = <<0>>]}
SetupsReconnect == {With([One EXCEPT !.toggles = 0], {"lose", "restart"}, 1)}
=============================================================================
