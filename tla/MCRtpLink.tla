------------------------------ MODULE MCRtpLink ------------------------------
(* Instances of RtpLink: streams and networks. *)
EXTENDS RtpLink

Nal(t, s) == [type |-> t, size |-> s]
Slice(s) == Nal("slice", s)

\* Units of one, two and three packets, one before the SPS and one undefined.
Stream == [nals |-> <<Slice(2), Nal("sps", 3), Slice(9), Nal("undefined", 1), Slice(8), Slice(5)>>,
           ends |-> <<1, 3, 5, 6>>, stap |-> FALSE, first |-> {0},
           losses |-> 0, reorder |-> 0, stops |-> 0, late |-> FALSE,
           shaper |-> [kind |-> "none", r |-> 0, b |-> 0, M |-> 0]]
\* The same NAL units and some more in aggregates.
Stap == [Stream EXCEPT !.stap = TRUE,
           !.nals = <<Slice(1), Nal("sps", 1), Slice(9), Slice(1), Nal("undefined", 1), Slice(2), Slice(2)>>,
           !.ends = <<2, 7>>]
\* Units of one packet.
Small == [Stream EXCEPT !.nals = <<Nal("sps", 1), Slice(4), Slice(2), Slice(3), Slice(3), Slice(1)>>,
           !.ends = <<3, 6>>]

\* More fragments and a packet between them.
Long == [Stream EXCEPT !.nals = <<Nal("sps", 1), Slice(9), Slice(7), Slice(2), Slice(9)>>,
           !.ends = <<2, 3, 4, 5>>]

\* Losses; packets that overtake as far as the receiver waits, and a client that
\* comes late; both, farther than it waits; the rollover, without and with losses;
\* aggregates; a receiver that is stopped and started between units of one packet;
\* a bucket that just holds the largest packet, and a leaky one that is too small.
SetupsLink == {[Long EXCEPT !.losses = 3],
               [Stream EXCEPT !.reorder = MaxWait, !.late = TRUE],
               [Stap EXCEPT !.reorder = MaxWait],
               [Long EXCEPT !.losses = 2, !.reorder = MaxWait + 1],
               [Small EXCEPT !.reorder = MaxWait + 2],
               [Long EXCEPT !.first = SeqModulus - 10..SeqModulus - 1],
               [Long EXCEPT !.first = SeqModulus - 10..SeqModulus - 1, !.losses = 2, !.reorder = 1],
               [Stap EXCEPT !.losses = 2],
               [Small EXCEPT !.losses = 1, !.stops = 2],
               [Stream EXCEPT !.late = TRUE,
                              !.shaper = [kind |-> "plain", r |-> 6, b |-> 6, M |-> 0]],
               [Stap EXCEPT !.late = TRUE,
                            !.shaper = [kind |-> "leaky", r |-> 5, b |-> 5, M |-> 2]]}
\* One loss, of a unit of one packet or of a fragment.
SetupsLoss == {[Small EXCEPT !.losses = 1], [Long EXCEPT !.losses = 1]}
=============================================================================
