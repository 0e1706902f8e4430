------------------------------- MODULE RtpLink -------------------------------
(***************************************************************************)
(* H.264 over RTP: the packets RtpTransmitter and one of its RtpChannels   *)
(* make of NAL units (lmm/rtp/rtptransmitter.cpp), a network that loses    *)
(* and overtakes, and the frames RtpReceiver puts together again           *)
(* (lmm/rtp/rtpreceiver.cpp).                                              *)
(*                                                                         *)
(* A packet's payload is a sequence of pieces, bytes `from' to `to' of a   *)
(* NAL unit.  Start codes, time stamps, the reconstruction of the header   *)
(* byte of a fragmented unit, RTCP, the other codecs and packets that are  *)
(* not this channel's are left out.  Sending holds streamLock, which       *)
(* `pending' stands for, and reading a packet holds sockLock.              *)
(***************************************************************************)
EXTENDS TokenBucket, Sequences, FiniteSets, SequencesExt

CONSTANTS
  SeqModulus,      \* sequence numbers: 65536
  MaxWait,     \* packets that may wait for a missing one: 50
  MaxPayload,  \* maxPayloadSize, in bytes
  HeaderSize,  \* bytes of the RTP header: 12
  Setups       \* the streams and networks

Seqs == 0..SeqModulus - 1

\* The NAL units, the index each buffer ends at, useStapA, the first sequence
\* numbers the channel may draw, how many packets the network may lose and how far
\* it lets one overtake, how often the receiver is stopped, whether the channel
\* plays from the beginning, and the traffic shaping: a plain bucket of the channel
\* or a leaky one of the transmitter.
Setup == [nals: Seq([type: {"sps", "slice", "undefined"}, size: Nat \ {0}]),
          ends: Seq(Nat \ {0}), stap: BOOLEAN, first: SUBSET Seqs,
          losses: Nat, reorder: Nat, stops: Nat, late: BOOLEAN, shaper: Shaper]

ASSUME RtpAssumption ==
  /\ SeqModulus \in Nat \ {0, 1} /\ MaxWait \in Nat /\ MaxPayload \in Nat /\ MaxPayload > 3
  /\ HeaderSize \in Nat
  /\ Setups \subseteq Setup /\ \A s \in Setups : ToSet(s.ends) \subseteq DOMAIN s.nals

\* A buffer begins where the one before it ended.
ASSUME BufferAssumption == \A s \in Setups : \A i \in 2..Len(s.ends) : s.ends[i - 1] <= s.ends[i]

VARIABLES
  setup,       \* the configuration
  at,          \* buffers given to the transmitter
  sps,         \* bufferCount # 0
  playing,     \* the channel's state is 2
  seq,         \* the channel's next sequence number
  pending,     \* packets of the buffer in processBuffer() that are still to be sent
  net,         \* packets under way, in the order they were sent
  lost,        \* packets lost
  units,       \* history: the NAL units of each packet or series of fragments sent
  hit,         \* history: the elements of `units' that lost a packet
  cut,         \* history: those that lost their last one
  running,     \* the receiver has its sockets
  stops,       \* times it was stopped
  some,        \* stats.packetCount # 0
  seqLast,
  rtpData,     \* the packets that wait, by sequence number
  currentNal,  \* pieces put together so far
  containsMissing,
  framingError,
  out          \* frames given to the element's input queue

sender == <<at, sps, playing, seq, pending, units, bucket>>
network == <<net, lost, hit, cut>>
frame == <<currentNal, containsMissing, framingError, out>>
receiver == <<running, stops, some, seqLast, rtpData, frame>>
vars == <<setup, sender, network, receiver>>

Init ==
  /\ setup \in Setups
  /\ at = 0 /\ sps = FALSE /\ playing = ~setup.late /\ seq \in setup.first
  /\ pending = <<>> /\ InitBucket(setup.shaper)
  /\ net = <<>> /\ lost = 0 /\ units = <<>> /\ hit = {} /\ cut = {}
  /\ running = TRUE /\ stops = 0 /\ some = FALSE /\ seqLast = 0 /\ rtpData = <<>>
  /\ currentNal = <<>> /\ containsMissing = FALSE /\ framingError = FALSE /\ out = <<>>

-----------------------------------------------------------------------------
(* RtpTransmitter *)

Size(n) == setup.nals[n].size
Type(n) == setup.nals[n].type

\* A packet before it has its place in `units' and its sequence number.  Types 1 to
\* 12 are single units, 24 aggregates, 28 a fragment.
Packet(type, start, end, last, pieces) ==
  [type |-> type, start |-> start, end |-> end, last |-> last, pieces |-> pieces,
   unit |-> 0, seq |-> 0]
Piece(n, from, to) == [nal |-> n, from |-> from, to |-> to]

\* A NAL unit by itself, or in fragments of MaxPayload - 2 bytes: its first byte
\* goes into the headers, and full fragments are sent while more is left.
Part(n, j, count) ==
  LET c == MaxPayload - 2
  IN Piece(n, IF j = 1 THEN 1 ELSE (j - 1) * c + 2,
              IF j = count THEN Size(n) ELSE j * c + 1)
Fragments(n) == (Size(n) - 2) \div (MaxPayload - 2) + 1
NalPackets(n) ==
  IF Size(n) <= MaxPayload
  THEN <<Packet(1, FALSE, FALSE, TRUE, <<Piece(n, 1, Size(n))>>)>>
  ELSE LET count == Fragments(n)
       IN [j \in 1..count |-> Packet(28, j = 1, j = count, j = count, <<Part(n, j, count)>>)]

\* `made' is what a buffer has been made into so far: series of packets, the
\* aggregate that is being filled with its size, and whether the SPS went by.

\* channelsSendNal(): nothing before the first SPS, and no undefined types.
SendNal(made, n) ==
  LET seen == made.sps \/ Type(n) = "sps"
  IN [made EXCEPT !.sps = seen,
        !.series = IF seen /\ Type(n) # "undefined" THEN Append(@, NalPackets(n)) ELSE @]

\* The waiting aggregate is sent.
Flush(made) ==
  IF made.stap = <<>> THEN made
  ELSE [made EXCEPT !.series = Append(@, <<Packet(24, FALSE, FALSE, TRUE, made.stap)>>),
                    !.stap = <<>>, !.size = 0]

Fits(made, n) == (IF made.stap = <<>> THEN 1 ELSE made.size) + Size(n) + 2 <= MaxPayload
Aggregate(made, n) ==
  [made EXCEPT !.stap = Append(@, Piece(n, 1, Size(n))),
               !.size = (IF made.stap = <<>> THEN 1 ELSE @) + Size(n) + 2]

\* One step of the loop of packetizeAndSend().
Packetize(made, n) ==
  IF ~setup.stap THEN SendNal(made, n)
  ELSE IF Size(n) + 3 > MaxPayload THEN SendNal(Flush(made), n)
  ELSE IF Type(n) = "undefined" THEN made
  ELSE Aggregate(IF Fits(made, n) THEN made ELSE Flush(made), n)

NalsOf(series) == {piece.nal : piece \in UNION {ToSet(p.pieces) : p \in ToSet(series)}}

\* processBuffer() of the next buffer makes its packets with streamLock held; a
\* channel that does not play sends none of them.
Send ==
  /\ pending = <<>> /\ at < Len(setup.ends) /\ at' = at + 1
  /\ LET from == IF at = 0 THEN 1 ELSE setup.ends[at] + 1
         nals == [i \in 1..setup.ends[at + 1] - from + 1 |-> from + i - 1]
         made == Flush(FoldLeft(Packetize, [series |-> <<>>, stap |-> <<>>, size |-> 0,
                                             sps |-> sps], nals))
     IN /\ sps' = made.sps
        /\ pending' = FlattenSeq([u \in DOMAIN made.series |->
                       [j \in DOMAIN made.series[u] |->
                         [made.series[u][j] EXCEPT !.unit = Len(units) + u]]])
        /\ units' = IF playing
                    THEN units \o [u \in DOMAIN made.series |-> NalsOf(made.series[u])]
                    ELSE units
  /\ UNCHANGED <<setup, playing, seq, bucket, network, receiver>>

\* A payload's bytes: a fragment has two of headers, which hold the unit's first
\* byte; an aggregate has one and the size of each unit in two.
PayloadSize(p) ==
  FoldLeft(LAMBDA n, piece : n + piece.to - piece.from + 1 + (IF p.type = 24 THEN 2 ELSE 0),
           CASE p.type = 1 -> 0 [] p.type = 24 -> 1 [] p.type = 28 -> IF p.start THEN 1 ELSE 2,
           p.pieces)

\* The transmitter's bucket counts every packet, the channel's what it sends.
Shaped == playing \/ setup.shaper.kind = "leaky"

\* The next sequence number.  Deviation: not cut to 16 bits.
NextSeqWide == seq + 1
NextSeq == (seq + 1) % SeqModulus

\* channelsSendRtp() and sendRtpData() of one packet, when the bucket lets it go.
SendPacket ==
  /\ pending # <<>> /\ pending' = Tail(pending)
  /\ IF Shaped THEN Get(setup.shaper, PayloadSize(Head(pending)) + HeaderSize)
     ELSE UNCHANGED bucket
  /\ IF playing
     THEN net' = Append(net, [Head(pending) EXCEPT !.seq = seq]) /\ seq' = NextSeq
     ELSE UNCHANGED <<net, seq>>
  /\ UNCHANGED <<setup, at, sps, playing, units, lost, hit, cut, receiver>>

\* The bucket keeps the sender, and with it streamLock.
Throttle ==
  /\ pending # <<>> /\ Shaped
  /\ Sleep(setup.shaper, PayloadSize(Head(pending)) + HeaderSize)
  /\ UNCHANGED <<setup, at, sps, playing, seq, pending, units, network, receiver>>

Time == /\ Elapse(setup.shaper)
        /\ UNCHANGED <<setup, at, sps, playing, seq, pending, units, network, receiver>>

\* PLAY waits for streamLock.
Play == /\ ~playing /\ pending = <<>> /\ playing' = TRUE
        /\ UNCHANGED <<setup, at, sps, seq, pending, units, bucket, network, receiver>>

-----------------------------------------------------------------------------
(* The network *)

\* The last packet of its element of `units'.
Ends(p) == p.type # 28 \/ p.last \/ p.end

Drop(k) == /\ net' = RemoveAt(net, k)
           /\ hit' = hit \cup {net[k].unit}
           /\ cut' = IF Ends(net[k]) THEN cut \cup {net[k].unit} ELSE cut

Lose(k) ==
  /\ k \in DOMAIN net /\ lost < setup.losses /\ lost' = lost + 1
  /\ Drop(k)
  /\ UNCHANGED <<setup, sender, receiver>>

\* The packets before it that a packet may overtake; the first of a stream does
\* not arrive late.
MayArrive(k) ==
  /\ k \in DOMAIN net
  /\ k > 1 => some /\ \A j \in 1..k - 1 : (net[k].seq - net[j].seq) % SeqModulus <= setup.reorder

-----------------------------------------------------------------------------
(* RtpReceiver *)

\* The change from the last number to the first.  Deviations: taken for a jump;
\* every number 0 is taken for it.
RolloverNot(p) == FALSE
RolloverZero(p) == p.seq = 0
Rollover(p) == seqLast = SeqModulus - 1 /\ p.seq = 0

\* Deviation: a packet that comes late is no jump.
JumpsAhead(p) == some /\ p.seq > seqLast + 1
Jumps(p) == some /\ p.seq # seqLast + 1 /\ ~Rollover(p)

\* A fragment that begins a unit inside another, goes on with none, or has the
\* marker without the end.
FramesBadly(p) == \/ p.start /\ currentNal # <<>>
                  \/ ~p.start /\ currentNal = <<>>
                  \/ ~p.end /\ p.last

\* handleRtpData() and processh264Payload().
Handle(p) ==
  LET fu == p.type = 28
      missing == containsMissing \/ Jumps(p)
      bad == framingError \/ (fu /\ FramesBadly(p))
      nal == (IF fu /\ p.start THEN <<>> ELSE currentNal) \o p.pieces
      complete == p.last \/ p.end \/ ~fu
  IN /\ some' = TRUE /\ seqLast' = p.seq
     /\ IF complete
        THEN /\ out' = IF missing \/ bad THEN out ELSE Append(out, nal)
             /\ currentNal' = <<>> /\ containsMissing' = FALSE /\ framingError' = FALSE
        ELSE /\ currentNal' = nal /\ containsMissing' = missing /\ framingError' = bad
             /\ UNCHANGED out

\* Whether the first of the packets that wait is handled.
\* Deviation: only when it is the next one.
IsNextOnly(key, waiting) == ~some \/ key = seqLast + 1
IsNext(key, waiting) == ~some \/ key = seqLast + 1 \/ Cardinality(waiting) > MaxWait

\* processRtpData().  The loop that would go on with the packets after this one
\* compares the key that was just taken with its successor: it never runs.
Receive(k) ==
  /\ running /\ MayArrive(k)
  /\ net' = RemoveAt(net, k)
  /\ LET p == net[k]
         waiting == DOMAIN rtpData \cup {p.seq}
         data == [s \in waiting |-> IF s = p.seq THEN p ELSE rtpData[s]]
     IN \E key \in waiting :
          /\ \A s \in waiting : key <= s
          /\ IF IsNext(key, waiting)
             THEN /\ rtpData' = [s \in waiting \ {key} |-> data[s]]
                  /\ Handle(data[key])
             ELSE rtpData' = data /\ UNCHANGED <<some, seqLast, frame>>
  /\ UNCHANGED <<setup, sender, lost, hit, cut, running, stops>>

\* stop() closes the sockets: what arrives then is lost.
Stop ==
  /\ running /\ stops < setup.stops
  /\ running' = FALSE /\ stops' = stops + 1
  /\ UNCHANGED <<setup, sender, network, some, seqLast, rtpData, frame>>

Miss ==
  /\ ~running /\ net # <<>>
  /\ Drop(1)
  /\ UNCHANGED <<setup, sender, lost, receiver>>

\* start() resets the counters and flags; the packets that wait and the frame
\* that was begun stay.
Start ==
  /\ ~running /\ running' = TRUE
  /\ some' = FALSE /\ seqLast' = 0 /\ containsMissing' = FALSE /\ framingError' = FALSE
  /\ UNCHANGED <<setup, sender, network, stops, rtpData, currentNal, out>>

-----------------------------------------------------------------------------
Sends == SendPacket \/ Throttle
Next == Send \/ Sends \/ Time \/ Play \/ Stop \/ Miss \/ Start
        \/ \E k \in DOMAIN net : Lose(k) \/ Receive(k)

Spec == Init /\ [][Next]_vars

\* Time passes, and the sender's thread runs.
FairSpec == Spec /\ WF_vars(Sends) /\ WF_vars(Time)

-----------------------------------------------------------------------------
Pieces == [nal: DOMAIN setup.nals, from: Nat \ {0}, to: Nat]
Packets == [type: {1, 24, 28}, start: BOOLEAN, end: BOOLEAN, last: BOOLEAN,
            pieces: Seq(Pieces), seq: Seqs, unit: Nat \ {0}]

TypeOK ==
  /\ setup \in Setups /\ at \in 0..Len(setup.ends) /\ sps \in BOOLEAN /\ playing \in BOOLEAN
  /\ seq \in Seqs /\ net \in Seq(Packets) /\ lost \in 0..setup.losses
  /\ pending \in Seq(Packets) /\ BucketTyped(setup.shaper)
  /\ units \in Seq(SUBSET DOMAIN setup.nals) /\ hit \subseteq DOMAIN units /\ cut \subseteq hit
  /\ running \in BOOLEAN /\ stops \in 0..setup.stops /\ some \in BOOLEAN /\ seqLast \in Seqs
  /\ DOMAIN rtpData \subseteq Seqs
  /\ \A s \in DOMAIN rtpData : rtpData[s] \in Packets /\ rtpData[s].seq = s
  /\ currentNal \in Seq(Pieces) /\ containsMissing \in BOOLEAN /\ framingError \in BOOLEAN
  /\ out \in Seq(Seq(Pieces))

\* The bytes of a frame are those of whole NAL units, in order.
Whole(f) ==
  /\ f # <<>> /\ f[Len(f)].to = Size(f[Len(f)].nal)
  /\ \A k \in DOMAIN f :
       f[k].from = IF k > 1 /\ f[k - 1].nal = f[k].nal THEN f[k - 1].to + 1 ELSE 1
  /\ \A k \in 2..Len(f) : f[k - 1].nal # f[k].nal => f[k - 1].to = Size(f[k - 1].nal)

\* No loss, whatever packets it takes, makes the receiver deliver a frame with a
\* hole in it, or one put together from two.
WholeFrames == \A i \in DOMAIN out : Whole(out[i])

Carries(f) == {f[k].nal : k \in DOMAIN f}

\* Frames come in the order they were sent, none twice.
InOrder ==
  \A i, j \in DOMAIN out : i < j => \A m \in Carries(out[i]), n \in Carries(out[j]) : m < n

UnderWay == {pending[k].unit : k \in DOMAIN pending} \cup {net[k].unit : k \in DOMAIN net} \cup {rtpData[s].unit : s \in DOMAIN rtpData}
Arrived(u) == u \notin hit \cup UnderWay

\* A unit was delivered, by itself.
Came(u) == \E i \in DOMAIN out : Carries(out[i]) = units[u]

\* A lost packet costs the frame it belongs to, and the next one only when it was
\* the last of its frame: a frame whose packets came is delivered, unless the last
\* packet of the one before it did not come.  So on a network that loses, and on one
\* that lets packets overtake as far as the receiver waits.
LossCost ==
  (setup.reorder = 0 \/ (setup.losses = 0 /\ setup.reorder <= MaxWait)) =>
    \A u \in DOMAIN units : Arrived(u) /\ u - 1 \notin cut \cup UnderWay => Came(u)

\* What the comment in h264FramingError() says: when one packet is lost, the only
\* packet of a frame (case 1), or a fragment between, the start or the end (2, A to
\* C), one frame is lost.  So every frame whose packets all came is delivered.
OneFrameLost == lost <= 1 => \A u \in DOMAIN units : Arrived(u) => Came(u)

\* Traffic shaping lets no more bytes go than its parameters say, and not less: a
\* buffer whose packets fit the bucket is sent, and streamLock given up again.
RateBound == Conforms(setup.shaper, MaxPayload + HeaderSize)
Sent == pending # <<>> ~> pending = <<>>

\* What waits for a missing packet is bounded: a packet that never comes does
\* not stop the stream.
WaitBound == Cardinality(DOMAIN rtpData) <= MaxWait
=============================================================================
