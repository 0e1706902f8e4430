--------------------------- MODULE MCLmmBufferPool ---------------------------
(* Instances of LmmBufferPool for TLC: the elements around the pool. *)
EXTENDS LmmBufferPool

CONSTANTS t1, t2, t3

\* VideoScaler and FFmpegColorSpace fill their pool, twice when all buffers come
\* back between the two counts they read.
Scaler == [takers |-> {t1}, keepRef |-> TRUE, owned |-> FALSE, count |-> 3,
           finalizes |-> FALSE, mem |-> 6]
\* GenericVideoTestSource: the channels of one source share a filled pool.
Source == [Scaler EXCEPT !.takers = {t1, t2, t3}, !.keepRef = FALSE, !.count = 2]
\* FFmpegDecoder: its buffers have it as parent, and its stop() finalizes.
Decoder == [Scaler EXCEPT !.owned = TRUE, !.count = 2, !.finalizes = TRUE, !.mem = 4]
\* What the pool allows and no element does yet: a finalize() that goes through.
Emptying == [Decoder EXCEPT !.owned = FALSE]

\* setBufferCount(1): the one buffer the taker holds does not keep finalize() from
\* emptying the pool.
Single == [Decoder EXCEPT !.count = 1]

SetupsAll == {Scaler, Source, Decoder, Emptying, Single}
SetupsDecoder == {[Decoder EXCEPT !.mem = 2]}
=============================================================================
