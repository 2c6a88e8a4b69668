---------------------------- MODULE Millis ----------------------------
(***************************************************************************)
(* The millisecond counter every timer of the firmware is compared with.   *)
(* It is an unsigned word that wraps round to zero; the code subtracts two *)
(* readings as unsigned words and reads the sign of the difference, which  *)
(* is right as long as they lie less than half the word apart.             *)
(***************************************************************************)
EXTENDS Integers

CONSTANT
  W                             \* number of values of the counter (2^32 in the code)

ASSUME ClockSize == W \in Nat /\ W > 1

Clock == 0 .. (W - 1)

(* Unsigned difference a - b.                                              *)
Since(a, b) == (a - b) % W

(* Mutant of After: the readings are compared as they are.                  *)
NaiveAfter(a, b) == a > b

(* (long)(a - b) > 0 : `a' lies after `b', by less than half the word.     *)
After(a, b) == LET d == Since(a, b) IN 0 < d /\ 2 * d < W

(* Dispatcher::futureMillis, with the clock reading made explicit.         *)
FutureMillis(now, d) == (now + d) % W

(* Mutant of MillisHasNowPassed: the same mistake.                          *)
NaiveHasPassed(now, timestamp) == now > timestamp

(* Dispatcher::millisHasNowPassed.                                         *)
MillisHasNowPassed(now, timestamp) == After(now, timestamp)
========================================================================
