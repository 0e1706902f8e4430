---------------------------- MODULE TokenBucket ----------------------------
(***************************************************************************)
(* Traffic shaping: class TokenBucket of lmm/tools/tokenbucket.{h,cpp},    *)
(* whose get() makes the one thread that sends wait.  The parameters are a *)
(* record s: what setPars() or setParsLeaky() computed.  The plain bucket  *)
(* fills with r bytes a second up to b; the leaky one may send b = r bytes *)
(* in every M milliseconds.                                                *)
(*                                                                         *)
(* `exact' and `window' are history: a bucket with an exact clock, and the *)
(* bytes taken since the leaky bucket was filled.                          *)
(***************************************************************************)
EXTENDS Integers

CONSTANTS
  Second,     \* milliseconds of a second: 1000
  Pause,      \* milliseconds get() sleeps: 10
  IntMax,     \* the largest int: 2^31 - 1
  MaxSince    \* bound: milliseconds the clock t can tell apart

ASSUME BucketAssumption ==
  /\ Second \in Nat \ {0} /\ Pause \in Nat \ {0} /\ IntMax \in Nat
  /\ MaxSince \in Nat /\ MaxSince >= Pause

\* An int holds every b, and b bytes at the clock's resolution.
Shaper == {s \in [kind: {"none", "plain", "leaky"}, r: Nat, b: Nat, M: 0..MaxSince] :
             /\ s.kind = "plain" => s.b * Second <= IntMax
             /\ s.kind = "leaky" => s.b = s.r}

VARIABLES
  left,       \* tokens, or b of a leaky bucket
  since,      \* milliseconds since the clock t was restarted
  sleeping,   \* the sender is asleep in get()
  exact,
  window

bucket == <<left, since, sleeping, exact, window>>

InitBucket(s) == /\ left = s.b /\ since = 0 /\ sleeping = FALSE
                 /\ exact = s.b * Second /\ window = 0

\* int arithmetic, and the division that cuts towards zero.
Wrap(x) == ((x + IntMax + 1) % (2 * (IntMax + 1))) - IntMax - 1
Quotient(x, n) == IF x >= 0 THEN x \div n ELSE -((-x) \div n)

\* The tokens after checkTime().  Deviation: only an overflow is cut.
Earned(s) == left + Quotient(Wrap(s.r * since), Second)
RefilledUncut(s) == IF Earned(s) < 0 THEN s.b ELSE Earned(s)
Refilled(s) == IF Earned(s) > s.b \/ Earned(s) < 0 THEN s.b ELSE Earned(s)

\* releaseLeakyTokens() fills the bucket.
Releases(s) == since >= s.M /\ s.r # 0

\* Whether get(count) returns.  Deviation: a packet needs more than it takes.
EnoughMore(s, count) == IF s.kind = "plain" THEN Refilled(s) > count
                        ELSE left > count \/ Releases(s)
Enough(s, count) == IF s.kind = "plain" THEN Refilled(s) >= count
                    ELSE left >= count \/ Releases(s)

\* get(count) looks at the clock when it is called and after every sleep.
Looks(s) == s.kind = "plain" /\ sleeping => since >= Pause

Get(s, count) ==
  IF s.kind = "none" THEN UNCHANGED bucket
  ELSE /\ Looks(s) /\ Enough(s, count)
       /\ sleeping' = FALSE
       /\ IF s.kind = "plain"
          THEN /\ left' = Refilled(s) - count /\ since' = 0
               /\ exact' = exact - count * Second /\ UNCHANGED window
          ELSE IF left >= count
          THEN left' = left - count /\ window' = window + count /\ UNCHANGED <<since, exact>>
          ELSE left' = s.r - count /\ window' = count /\ since' = 0 /\ UNCHANGED exact

\* It restarts the clock also when it goes back to sleep.
Sleep(s, count) ==
  /\ s.kind = "plain" /\ Looks(s) /\ ~Enough(s, count)
  /\ sleeping' = TRUE /\ left' = Refilled(s) /\ since' = 0
  /\ UNCHANGED <<exact, window>>

\* A millisecond passes.
Elapse(s) ==
  /\ s.kind # "none" /\ since < MaxSince /\ since' = since + 1
  /\ exact' = IF s.kind = "plain" /\ exact + s.r > s.b * Second THEN s.b * Second
              ELSE IF s.kind = "plain" THEN exact + s.r ELSE exact
  /\ UNCHANGED <<left, sleeping, window>>

-----------------------------------------------------------------------------
BucketTyped(s) ==
  /\ left \in Int /\ left <= s.b /\ since \in 0..MaxSince /\ sleeping \in BOOLEAN
  /\ exact \in Int /\ window \in Nat

\* The plain bucket never grants more than one that counts exactly: neither the
\* cut divisions, nor a product that overflows, nor a long silence make bytes.
\* The leaky bucket grants its bytes, or one packet of at most `largest', between
\* two fillings; its debt of a larger packet is forgotten.
Conforms(s, largest) ==
  /\ s.kind = "plain" => left * Second <= exact /\ left >= 0
  /\ s.kind = "leaky" => window <= s.r \/ window <= largest
=============================================================================
