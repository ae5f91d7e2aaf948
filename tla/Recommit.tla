------------------------------- MODULE Recommit -------------------------------
(***************************************************************************)
(* The interval after which newWorkLoop of miner/worker.go submits the     *)
(* work again: set by the user, raised when a resubmission interrupts the  *)
(* execution of a block, lowered when a block is executed to its end.      *)
(* Durations are multiples of any unit up to a tenth of the bias; the      *)
(* code's is the nanosecond, to which it truncates a floating-point result.*)
(***************************************************************************)
EXTENDS Integers

CONSTANTS
    minRecommitInterval, maxRecommitInterval, intervalAdjustBias,
    Intervals  \* what the user may ask for

ASSUME RecommitAssumption ==
    /\ minRecommitInterval \in Nat \ {0}
    /\ maxRecommitInterval \in Nat /\ minRecommitInterval <= maxRecommitInterval
    /\ intervalAdjustBias \in Nat /\ intervalAdjustBias >= 10
    /\ Intervals \subseteq Nat

VARIABLES minRecommit, recommit  \* newWorkLoop's variables

recommitVars == <<minRecommit, recommit>>

\* The share of the block's gas that was used up at the interruption, in tenths;
\* commitTransactions raises a smaller one to 0.1.
Ratios == 1 .. 10

\* intervalAdjustRatio is 0.1.
WeighWithoutBias(prev, target, bias) == (9 * prev + target) \div 10

Weigh(prev, target, bias) == (9 * prev + (target + bias)) \div 10

BuiltInMinimum(min, prev, target, inc) ==
    IF inc
    THEN LET next == Weigh(prev, target, intervalAdjustBias)
         IN  IF next > maxRecommitInterval THEN maxRecommitInterval ELSE next
    ELSE LET next == Weigh(prev, target, -intervalAdjustBias)
         IN  IF next < minRecommitInterval THEN minRecommitInterval ELSE next

recalcRecommit(min, prev, target, inc) ==
    IF inc
    THEN LET next == Weigh(prev, target, intervalAdjustBias)
         IN  IF next > maxRecommitInterval THEN maxRecommitInterval ELSE next
    ELSE LET next == Weigh(prev, target, -intervalAdjustBias)
         IN  IF next < min THEN min ELSE next

\* newWorker and the case of resubmitIntervalCh raise an interval that is too short.
Sanitized(interval) ==
    IF interval < minRecommitInterval THEN minRecommitInterval ELSE interval

RecommitInit ==
    \E interval \in Intervals :
        minRecommit = Sanitized(interval) /\ recommit = Sanitized(interval)

\* setRecommitInterval
SetInterval ==
    \E interval \in Intervals :
        minRecommit' = Sanitized(interval) /\ recommit' = Sanitized(interval)

\* What the two feedbacks of the case of resubmitAdjustCh make of the interval.
Increased(ratio) ==
    recalcRecommit(minRecommit, recommit, (10 * recommit) \div ratio, TRUE)

Decreased == recalcRecommit(minRecommit, recommit, minRecommit, FALSE)

Increase ==
    /\ \E ratio \in Ratios : recommit' = Increased(ratio)
    /\ UNCHANGED minRecommit

Decrease ==
    /\ recommit' = Decreased
    /\ UNCHANGED minRecommit

RecommitNext == SetInterval \/ Increase \/ Decrease

RecommitSpec == RecommitInit /\ [][RecommitNext]_recommitVars

-----------------------------------------------------------------------------
\* What the user asked for, or the built-in maximum where that is larger.
Ceiling == IF minRecommit > maxRecommitInterval THEN minRecommit ELSE maxRecommitInterval

\* No sequence of feedback and of settings of the user takes the interval below the
\* built-in minimum, at which the worker would do nothing but start over, or above
\* both the built-in maximum and the user's setting.
IntervalBounded ==
    /\ minRecommit \in Nat /\ recommit \in Nat
    /\ minRecommitInterval <= minRecommit
    /\ minRecommitInterval <= recommit /\ recommit <= Ceiling

\* A user's interval within the built-in maximum stays the minimum.
UserMinimumKept == minRecommit <= maxRecommitInterval => minRecommit <= recommit

\* "in favor of increasing upper limit or decreasing lower limit so that the limit can
\* be reachable": between the limits, feedback always moves the interval.
LimitReachable ==
    /\ recommit < maxRecommitInterval => \A ratio \in Ratios : Increased(ratio) > recommit
    /\ recommit > minRecommit => Decreased < recommit
=============================================================================
