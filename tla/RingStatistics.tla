--------------------------- MODULE RingStatistics ----------------------------
(***************************************************************************)
(* Rolling statistics of the last WindowSize samples.  The window is a     *)
(* RingBuffer, taken here as the double-ended queue it implements, newest  *)
(* sample first.  Both accumulators follow it: LossyAccumulator with the   *)
(* saturating integers IMin .. IMax, WelfordAccumulator in exact           *)
(* arithmetic.  Samples are multiples of Unit, which 1 .. WindowSize       *)
(* divide, so that means and moments are whole.                            *)
(***************************************************************************)
EXTENDS Integers, Sequences, SequencesExt

CONSTANTS WindowSize, Samples, Unit, IMin, IMax,
          F64(_),  \* an integer as f64, rounded when it is large
          Exact,   \* 2^53: integers up to it are not rounded
          Limit,   \* CANCELLATION_RATIO_LIMIT
          NoSample

StatisticsAssumption ==
    /\ WindowSize \in Nat /\ WindowSize >= 3   \* WindowError::TooSmall otherwise
    /\ Unit \in Nat \ {0} /\ \A k \in 1 .. WindowSize : Unit % k = 0
    /\ Samples \subseteq Int /\ NoSample \notin Samples
    /\ \A x \in Samples : x % Unit = 0 /\ IMin <= x /\ x <= IMax
    /\ IMax \in Nat /\ IMin = -IMax - 1
    /\ Exact \in Nat /\ \A x \in -Exact .. Exact : F64(x) = x
    /\ \A x \in IMin .. IMax : F64(x) \in Int

VARIABLES window, evicted, lossy, welford

statVars == <<window, evicted, lossy, welford>>

Buffer == INSTANCE Deque WITH q <- window, out <- evicted,
                              Asked <- WindowSize, Values <- Samples, None <- NoSample

----------------------------------------------------------------------------
(* LossyAccumulator: every operation clamps and says whether it did        *)

Saturated(x) == IF x > IMax THEN IMax ELSE IF x < IMin THEN IMin ELSE x
Clamped(x)   == x # Saturated(x)

EmptyLossy == [sum |-> 0, squares |-> 0, fill |-> 0, overflowed |-> FALSE]

\* Broken: a square that clamps is not noticed.
MovedUnflagged(acc, x, sign) ==
    LET sum     == acc.sum + sign * x
        squares == acc.squares + sign * Saturated(x * x)
    IN  [sum |-> Saturated(sum), squares |-> Saturated(squares), fill |-> acc.fill + sign,
         overflowed |-> acc.overflowed \/ Clamped(sum) \/ Clamped(squares)]

\* sign = 1 to add a sample, -1 to subtract it.
Moved(acc, x, sign) ==
    LET square  == Saturated(x * x)
        sum     == acc.sum + sign * x
        squares == acc.squares + sign * square
    IN  [sum |-> Saturated(sum), squares |-> Saturated(squares), fill |-> acc.fill + sign,
         overflowed |-> acc.overflowed \/ Clamped(sum) \/ Clamped(x * x) \/ Clamped(squares)]

LossyAdd(acc, x) == Moved(acc, x, 1)

LossyRemove(acc, x) == IF acc.fill = 1 THEN EmptyLossy ELSE Moved(acc, x, -1)

\* status() decides on f64 values; the ratio is compared without the rounding of its
\* division.
Status(acc) ==
    LET mean     == F64(acc.sum \div acc.fill)
        meanSq   == F64(mean * mean)
        variance == F64(F64(acc.squares \div acc.fill) - meanSq)
        nSquares == acc.fill * acc.squares
        sumSq    == acc.sum * acc.sum
    IN  CASE acc.overflowed -> "Overflow"
          [] ~acc.overflowed /\ acc.fill = 0 -> "Okay"
          [] ~acc.overflowed /\ acc.fill > 0 /\ variance <= 0 ->
                IF ~Clamped(nSquares) /\ ~Clamped(sumSq) /\ nSquares = sumSq
                THEN "Okay" ELSE "Unstable"
          [] ~acc.overflowed /\ acc.fill > 0 /\ variance > 0 ->
                IF meanSq > Limit * variance THEN "Unstable" ELSE "Okay"

----------------------------------------------------------------------------
(* WelfordAccumulator                                                      *)

EmptyWelford == [mean |-> 0, m2 |-> 0, count |-> 0]

WelfordAdd(acc, x) ==
    LET mean == acc.mean + (x - acc.mean) \div (acc.count + 1)
    IN  [mean |-> mean, count |-> acc.count + 1,
         m2 |-> acc.m2 + (x - acc.mean) * (x - mean)]

WelfordRemove(acc, x) ==
    LET mean == acc.mean - (x - acc.mean) \div (acc.count - 1)
    IN  IF acc.count = 1 THEN EmptyWelford
        ELSE [mean |-> mean, count |-> acc.count - 1,
              m2 |-> acc.m2 - (x - acc.mean) * (x - mean)]

----------------------------------------------------------------------------
StatInit ==
    /\ Buffer!Init
    /\ lossy = EmptyLossy /\ welford = EmptyWelford

Push(x) ==
    /\ Buffer!PushHead(x)
    /\ IF evicted' = NoSample
       THEN lossy' = LossyAdd(lossy, x) /\ welford' = WelfordAdd(welford, x)
       ELSE /\ lossy' = LossyAdd(LossyRemove(lossy, evicted'), x)
            /\ welford' = WelfordAdd(WelfordRemove(welford, evicted'), x)

\* The i-th oldest sample.
Oldest(s, i) == s[Len(s) + 1 - i]

\* reset_accumulator, and new_accumulator with one of the same kind: the window is fed
\* again, oldest sample first.
Fed(s) ==
    LET after[i \in 0 .. Len(s)] ==
            IF i = 0 THEN [lossy |-> EmptyLossy, welford |-> EmptyWelford]
            ELSE [lossy   |-> LossyAdd(after[i - 1].lossy, Oldest(s, i)),
                  welford |-> WelfordAdd(after[i - 1].welford, Oldest(s, i))]
    IN  after[Len(s)]

Rebuild ==
    /\ lossy' = Fed(window).lossy /\ welford' = Fed(window).welford
    /\ UNCHANGED <<window, evicted>>

StatNext == (\E x \in Samples : Push(x)) \/ Rebuild

StatSpec == StatInit /\ [][StatNext]_statVars

\* The Accumulator trait is public: a caller may track up to WindowSize samples by hand
\* and remove any of them.
AddSample(x) ==
    /\ Len(window) < WindowSize /\ Buffer!PushHead(x)
    /\ lossy' = LossyAdd(lossy, x) /\ welford' = WelfordAdd(welford, x)

RemoveSample(i) ==
    /\ window' = RemoveAt(window, i) /\ UNCHANGED evicted
    /\ lossy' = LossyRemove(lossy, window[i])
    /\ welford' = WelfordRemove(welford, window[i])

DirectNext ==
    \/ \E x \in Samples : AddSample(x)
    \/ \E i \in DOMAIN window : RemoveSample(i)

DirectSpec == StatInit /\ [][DirectNext]_statVars

----------------------------------------------------------------------------
(* Properties                                                              *)

Sum(s) ==
    LET of[i \in 0 .. Len(s)] == IF i = 0 THEN 0 ELSE of[i - 1] + Oldest(s, i)
    IN  of[Len(s)]

Squared(s) == [i \in DOMAIN s |-> s[i] * s[i]]
Squares(s) == Sum(Squared(s))

StatTypeOK ==
    /\ window \in Seq(Samples) /\ Len(window) <= WindowSize
    /\ evicted \in Samples \cup {NoSample}
    /\ lossy.sum \in IMin .. IMax /\ lossy.squares \in IMin .. IMax
    /\ lossy.fill \in 0 .. WindowSize /\ lossy.overflowed \in BOOLEAN
    /\ welford.count \in 0 .. WindowSize

\* As long as nothing clamped, the incremental sums are those of the samples in the
\* window, however many were pushed, evicted and removed before ("exact on integers",
\* ring_statistics.rs:172); in particular a window that does not fit is never left
\* without the flag.
SumsExact ==
    ~lossy.overflowed =>
        /\ lossy.sum = Sum(window) /\ lossy.squares = Squares(window)
        /\ lossy.fill = Len(window)

\* The flag tells the truth when it rises: the squares of the window of that moment do
\* not fit.  A push must not raise it because of a sample that leaves in the same call.
FlagOnlyIfNeeded ==
    ~lossy.overflowed /\ lossy'.overflowed => Squares(window') > IMax

\* A rebuild clears a past overflow: the flag is up afterwards exactly if the window
\* overflows by itself (ring_statistics.rs:519-520).
ResetHeals == Rebuild => (lossy'.overflowed <=> Squares(window) > IMax)

\* Removing the last tracked sample clears a past overflow as well
\* (ring_statistics.rs:219-223).
EmptyIsClean == window = <<>> => lossy = EmptyLossy /\ welford = EmptyWelford

\* In exact arithmetic Welford's updates and downdates are the mean and the second
\* moment of the window.
WelfordExact ==
    /\ welford.count = Len(window)
    /\ welford.mean * Len(window) = Sum(window)
    /\ welford.m2 = Squares(window) - welford.mean * Sum(window)

\* "A constant window, a legitimate zero" is told apart from cancellation
\* (ring_statistics.rs:275-283), whatever was pushed and evicted before it, as long as
\* its samples have f64s of their own and the products that tell them apart fit.  The
\* squares may be rounded.
ConstantIsOkay ==
    /\ ~lossy.overflowed /\ ~Clamped(lossy.fill * lossy.squares)
    /\ \A i, j \in DOMAIN window : window[i] = window[j]
    /\ \A i \in DOMAIN window : window[i] \in -Exact .. Exact
    => Status(lossy) = "Okay"

\* What the accumulators hold is what the window is worth.
StatisticsInv == SumsExact /\ EmptyIsClean /\ WelfordExact /\ ConstantIsOkay

\* The accumulators are worth the window, a rebuild heals an overflow, and the flag rises
\* only for a window that does not fit.
StatisticsFollow ==
    [](StatTypeOK /\ StatisticsInv) /\ [][ResetHeals /\ FlagOnlyIfNeeded]_statVars
==============================================================================
