---------------------------- MODULE WorkerProofs ----------------------------
(***************************************************************************)
(* What the worker of miner/worker.go relies on when it makes work: the    *)
(* timer of newWorkLoop for channels of any size, the bounds of the        *)
(* resubmit interval for every choice of the limits, the bias and the      *)
(* user's settings, and the gas limit of its blocks for all targets,       *)
(* divisors and configurations.                                            *)
(***************************************************************************)
EXTENDS WorkLoop, Recommit, GasLimit, TLAPS

(***************************************************************************)
(* The timer of newWorkLoop.                                               *)
(***************************************************************************)

\* A step that sets the timer, requests a commit or leaves all that TimerKept reads
\* preserves it; the cases are the actions that do not.
LEMMA StepKeepsTimer == TimerKept /\ [Next]_vars => TimerKept'
<1> SUFFICES ASSUME TimerKept, [Next]_vars PROVE TimerKept'
  OBVIOUS
<1> USE DEF TimerKept
<1>1. CASE Start
  BY <1>1 DEF Start, loopVars
<1>2. CASE SendStart
  BY <1>2 DEF SendStart, loopVars
<1>3. CASE Stop
  BY <1>3 DEF Stop
<1>4. CASE TimerFires
  BY <1>4 DEF TimerFires
<1>5. CASE LoopStart
  BY <1>5 DEF LoopStart, Commit
<1>6. CASE LoopHead
  BY <1>6 DEF LoopHead, Commit, userVars
<1>7. CASE LoopTick
  <2>1. CASE running /\ newTxs # 0
    BY <1>7, <2>1 DEF LoopTick, Commit
  <2>2. CASE running /\ newTxs = 0
    BY <1>7, <2>2 DEF LoopTick
  <2>3. CASE ~running
    BY <1>7, <2>3 DEF LoopTick, userVars
  <2> QED
    BY <2>1, <2>2, <2>3
<1>8. CASE LoopSent
  BY <1>8 DEF LoopSent
<1>9. CASE TakeRequest
  BY <1>9 DEF TakeRequest
<1>10. CASE UNCHANGED <<userVars, startCh, loopVars>>
  BY <1>10 DEF userVars, loopVars
<1> QED
  BY <1>1, <1>2, <1>3, <1>4, <1>5, <1>6, <1>7, <1>8, <1>9, <1>10
     DEF vars, Next, Environment, NewWorkLoop, MainLoop, Execute, NewHead, PostHead,
         TxArrives, LoopAdjust, Prepare, RequestFails, CommitTask, Pending, Fill,
         SendAdjust, SideEvent, CountTx

\* Whatever the order of starts, stops, heads and ticks, a running worker has a timer
\* that is set, a tick that is waiting, or a commit under way that sets the timer.
THEOREM TimerNeverLost == Spec => []TimerKept
<1>1. Init => TimerKept
  BY DEF Init, TimerKept
<1> QED
  BY <1>1, StepKeepsTimer, PTL DEF Spec

-----------------------------------------------------------------------------
(***************************************************************************)
(* The resubmit interval.                                                  *)
(***************************************************************************)

RecommitInv == IntervalBounded /\ UserMinimumKept

\* The weighted mean rounds down; it lies strictly on the side of the previous
\* interval to which the bias pulls.
LEMMA WeighMoves ==
    ASSUME NEW prev \in Nat, NEW target \in Nat, NEW bias \in Int
    PROVE  /\ Weigh(prev, target, bias) \in Int
           /\ bias >= 10 /\ target >= prev => Weigh(prev, target, bias) > prev
           /\ bias <= -10 /\ target <= prev => Weigh(prev, target, bias) < prev
  BY DEF Weigh

\* The target of an increase is at least the interval, whatever the ratio.
LEMMA TargetAbove ==
    ASSUME NEW prev \in Nat, NEW ratio \in Ratios
    PROVE  (10 * prev) \div ratio \in Nat /\ (10 * prev) \div ratio >= prev
<1>1. ratio \in {1, 2, 3, 4, 5, 6, 7, 8, 9, 10}
  BY DEF Ratios
<1> QED
  BY <1>1

\* Sanitising keeps a setting of the user unless it is too short.
LEMMA SanitizedBound ==
    ASSUME NEW interval \in Intervals
    PROVE  Sanitized(interval) \in Nat /\ Sanitized(interval) >= minRecommitInterval
  BY RecommitAssumption DEF Sanitized

\* What an increase makes of an interval within the bounds.
LEMMA IncreasedBound ==
    ASSUME RecommitInv, NEW ratio \in Ratios
    PROVE  /\ Increased(ratio) \in Nat
           /\ Increased(ratio) <= maxRecommitInterval
           /\ Increased(ratio) > recommit \/ Increased(ratio) = maxRecommitInterval
<1> DEFINE target == (10 * recommit) \div ratio
<1>1. recommit \in Nat /\ target \in Nat /\ target >= recommit
  BY TargetAbove DEF RecommitInv, IntervalBounded
<1>2. /\ Weigh(recommit, target, intervalAdjustBias) \in Int
      /\ Weigh(recommit, target, intervalAdjustBias) > recommit
  <2> HIDE DEF target
  <2> QED
    BY <1>1, WeighMoves, RecommitAssumption
<1>3. Increased(ratio) = IF Weigh(recommit, target, intervalAdjustBias) > maxRecommitInterval
                         THEN maxRecommitInterval
                         ELSE Weigh(recommit, target, intervalAdjustBias)
  BY DEF Increased, recalcRecommit
<1> HIDE DEF target
<1> QED
  BY <1>1, <1>2, <1>3, RecommitAssumption

\* What a decrease makes of an interval within the bounds.
LEMMA DecreasedBound ==
    ASSUME RecommitInv
    PROVE  /\ Decreased \in Nat
           /\ minRecommit <= Decreased
           /\ recommit > minRecommit => Decreased < recommit
           /\ recommit <= minRecommit => Decreased = minRecommit
<1>1. recommit \in Nat /\ minRecommit \in Nat
  BY DEF RecommitInv, IntervalBounded
<1>2. /\ Weigh(recommit, minRecommit, -intervalAdjustBias) \in Int
      /\ minRecommit <= recommit
           => Weigh(recommit, minRecommit, -intervalAdjustBias) < recommit
      /\ recommit <= minRecommit
           => Weigh(recommit, minRecommit, -intervalAdjustBias) <= minRecommit
  BY <1>1, RecommitAssumption DEF Weigh
<1>3. Decreased = IF Weigh(recommit, minRecommit, -intervalAdjustBias) < minRecommit
                  THEN minRecommit
                  ELSE Weigh(recommit, minRecommit, -intervalAdjustBias)
  BY DEF Decreased, recalcRecommit
<1> QED
  BY <1>1, <1>2, <1>3

\* The bounds hold at the start and survive the user's settings and all feedback.
LEMMA RecommitInductive == (RecommitInit => RecommitInv) /\ (RecommitInv /\ [RecommitNext]_recommitVars => RecommitInv')
<1>1. ASSUME RecommitInit PROVE RecommitInv
  <2>1. PICK interval \in Intervals :
          minRecommit = Sanitized(interval) /\ recommit = Sanitized(interval)
    BY <1>1 DEF RecommitInit
  <2> QED
    BY <2>1, SanitizedBound, RecommitAssumption
       DEF RecommitInv, IntervalBounded, UserMinimumKept, Ceiling
<1>2. ASSUME RecommitInv, SetInterval PROVE RecommitInv'
  <2>1. PICK interval \in Intervals :
          minRecommit' = Sanitized(interval) /\ recommit' = Sanitized(interval)
    BY <1>2 DEF SetInterval
  <2> QED
    BY <2>1, SanitizedBound, RecommitAssumption
       DEF RecommitInv, IntervalBounded, UserMinimumKept, Ceiling
<1>3. ASSUME RecommitInv, Increase PROVE RecommitInv'
  <2>1. PICK ratio \in Ratios : recommit' = Increased(ratio)
    BY <1>3 DEF Increase
  <2>2. /\ recommit' \in Nat /\ recommit' <= maxRecommitInterval
        /\ recommit' > recommit \/ recommit' = maxRecommitInterval
    BY <1>3, <2>1, IncreasedBound
  <2> QED
    BY <1>3, <2>2, RecommitAssumption
       DEF Increase, RecommitInv, IntervalBounded, UserMinimumKept, Ceiling
<1>4. ASSUME RecommitInv, Decrease PROVE RecommitInv'
  <2>1. /\ recommit' \in Nat /\ minRecommit <= recommit'
        /\ recommit > minRecommit => recommit' < recommit
        /\ recommit <= minRecommit => recommit' = minRecommit
    BY <1>4, DecreasedBound DEF Decrease
  <2> QED
    BY <1>4, <2>1, RecommitAssumption
       DEF Decrease, RecommitInv, IntervalBounded, UserMinimumKept, Ceiling
<1>5. ASSUME RecommitInv, UNCHANGED recommitVars PROVE RecommitInv'
  BY <1>5 DEF recommitVars, RecommitInv, IntervalBounded, UserMinimumKept, Ceiling
<1> QED
  BY <1>1, <1>2, <1>3, <1>4, <1>5 DEF RecommitNext

\* The resubmit interval never leaves the built-in bounds and the user's setting, and a
\* user's setting within the built-in maximum is never undercut.
THEOREM IntervalAlwaysBounded == RecommitSpec => [](IntervalBounded /\ UserMinimumKept)
  BY RecommitInductive, PTL DEF RecommitSpec, RecommitInv

\* Feedback never undercuts a setting of the user that is within the built-in maximum.
THEOREM UserMinimumAlwaysKept == RecommitSpec => []UserMinimumKept
  BY IntervalAlwaysBounded, PTL

\* Between the limits, feedback of either kind always moves the interval: the bias
\* outweighs the rounding.
THEOREM LimitAlwaysReachable == RecommitSpec => []LimitReachable
<1>1. RecommitInv => LimitReachable
  <2> SUFFICES ASSUME RecommitInv PROVE LimitReachable
    OBVIOUS
  <2>1. ASSUME recommit < maxRecommitInterval, NEW ratio \in Ratios
        PROVE  Increased(ratio) > recommit
    BY <2>1, IncreasedBound
  <2> QED
    BY <2>1, DecreasedBound DEF LimitReachable
<1> QED
  BY <1>1, RecommitInductive, PTL DEF RecommitSpec

-----------------------------------------------------------------------------
(***************************************************************************)
(* The gas limit.                                                          *)
(***************************************************************************)

\* What the quotient by the divisor says of a number.
LEMMA Quotient ==
    ASSUME NEW x \in Nat, NEW d \in Nat \ {0}
    PROVE  /\ x \div d \in Nat
           /\ d * (x \div d) <= x
           /\ x < d * (x \div d) + d
  OBVIOUS

\* The quotient is monotone.
LEMMA QuotientMonotone ==
    ASSUME NEW d \in Nat \ {0}, NEW x \in Nat, NEW y \in Nat, x <= y
    PROVE  x \div d <= y \div d
<1>1. /\ d * (x \div d) <= x /\ x \div d \in Nat
      /\ y < d * (y \div d) + d /\ y \div d \in Nat
  BY Quotient
<1>2. d * (x \div d) < d * (y \div d + 1)
  BY <1>1
<1>3. QED
  BY <1>1, <1>2

\* A full parent raises the limit by less than the verifier allows: one and a half
\* times its gas, divided, is at most twice the quotient of its limit less two.
LEMMA ContribBound ==
    ASSUME NEW d \in Nat \ {0}, NEW l \in Nat, NEW u \in 0 .. l, l \div d >= 5
    PROVE  /\ (u + u \div 2) \div d \in Nat
           /\ (u + u \div 2) \div d <= 2 * (l \div d) - 2
<1> DEFINE q == l \div d
           w == u + u \div 2
           c == w \div d
<1>1. q \in Nat /\ l < d * q + d
  BY Quotient
<1>2. w \in Nat /\ 2 * w <= 3 * l
  OBVIOUS
<1>3. c \in Nat /\ d * c <= w
  BY <1>2, Quotient
<1>4. SUFFICES ASSUME c >= 2 * q - 1 PROVE FALSE
  BY <1>1, <1>3
<1> HIDE DEF c, w, q
<1>5. d * c >= d * (2 * q - 1)
  BY <1>1, <1>3, <1>4
<1>6. 2 * (d * (2 * q - 1)) < 3 * (d * q + d)
  BY <1>1, <1>2, <1>3, <1>5
<1>7. d * q < 5 * d
  BY <1>1, <1>6
<1>8. q >= 5
  BY DEF q
<1>9. QED
  BY <1>1, <1>7, <1>8

-----------------------------------------------------------------------------

\* CalcGasLimit stays between the targets and within the verifier's distance of the
\* parent's limit, for every floor and ceiling.
LEMMA LimitIsNear ==
    ASSUME NEW l \in MinGasTarget .. MaxGasTarget, NEW u \in 0 .. l,
           NEW floor \in Nat, NEW ceil \in Nat,
           NEW p, p.gasLimit = l, p.gasUsed = u
    PROVE  LET g == CalcGasLimit(p, floor, ceil)
               q == l \div GasLimitBoundDivisor
           IN  /\ g \in MinGasTarget .. MaxGasTarget
               /\ l - g < q
               /\ g - l < q
<1> DEFINE q == l \div GasLimitBoundDivisor
           contrib == (u + u \div 2) \div GasLimitBoundDivisor
<1>1. l \in Nat /\ u \in Nat /\ l >= MinGasTarget /\ l <= MaxGasTarget
  BY LimitAssumption
<1>2. q \in Nat /\ q >= 5
  <2>1. MinGasTarget \div GasLimitBoundDivisor <= q
    BY <1>1, QuotientMonotone, DivisorAssumption, LimitAssumption
  <2>2. q \in Nat /\ MinGasTarget \div GasLimitBoundDivisor \in Nat
    BY <1>1, Quotient, DivisorAssumption, LimitAssumption
  <2>3. QED
    BY <2>1, <2>2, RangeAssumption
<1>3. contrib \in Nat /\ contrib <= 2 * q - 2
  BY <1>1, <1>2, ContribBound, DivisorAssumption
<1> DEFINE decay == q - 1
           drift == AtLeast(l - decay + contrib, MinGasLimit)
           honed == IF drift < floor THEN AtMost(l + decay, floor)
                    ELSE IF drift > ceil THEN AtLeast(l - decay, ceil)
                    ELSE drift
<1>4. CalcGasLimit(p, floor, ceil) = AtMost(AtLeast(honed, MinGasTarget), MaxGasTarget)
  BY DEF CalcGasLimit
<1> HIDE DEF q, contrib
<1>5. honed \in Int /\ l - honed < q /\ honed - l < q
  BY <1>1, <1>2, <1>3, LimitAssumption, RangeAssumption DEF AtLeast, AtMost
<1> HIDE DEF honed
<1>6. QED
  BY <1>1, <1>2, <1>4, <1>5, LimitAssumption, RangeAssumption DEF AtLeast, AtMost, q

\* The values of a sanitised configuration.
LEMMA SanitisedType ==
    ASSUME NEW floor \in Targets, NEW ceil \in Targets
    PROVE  /\ Sanitised(floor, ceil).floor \in Nat
           /\ Sanitised(floor, ceil).ceil \in Nat
           /\ Sanitised(floor, ceil).floor >= MinGasTarget
           /\ Sanitised(floor, ceil).ceil <= MaxGasTarget
  BY TargetsAssumption, LimitAssumption DEF Sanitised, AtLeast, AtMost

\* TypeOK is inductive.
THEOREM GasTypeCorrect == GasSpec => []TypeOK
<1>1. ASSUME NEW header \in Headers
      PROVE  /\ header.gasLimit \in MinGasTarget .. MaxGasTarget
             /\ header.gasUsed \in 0 .. header.gasLimit
  BY DEF Headers
<1>2. GasInit => TypeOK
  BY <1>1, SanitisedType DEF GasInit, TypeOK
<1>3. TypeOK /\ [GasNext]_gasVars => TypeOK'
  <2> SUFFICES ASSUME TypeOK, [GasNext]_gasVars PROVE TypeOK'
    OBVIOUS
  <2>1. CASE Mine
    <3>1. CalcGasLimit(parent, config.floor, config.ceil) \in MinGasTarget .. MaxGasTarget
      BY LimitIsNear DEF TypeOK
    <3>2. QED
      BY <2>1, <3>1 DEF Mine, TypeOK
  <2>2. CASE Import
    BY <1>1, <2>2 DEF Import, TypeOK
  <2>3. CASE Reconfigure
    BY <2>3, SanitisedType DEF Reconfigure, TypeOK
  <2>4. CASE UNCHANGED gasVars
    BY <2>4 DEF gasVars, TypeOK
  <2>5. QED
    BY <2>1, <2>2, <2>3, <2>4 DEF GasNext
<1>4. QED
  BY <1>2, <1>3, PTL DEF GasSpec

\* What CalcGasLimit gives a miner is accepted by verifyCascadingFields, for every
\* divisor and targets in proportion and every configuration of the miner.
THEOREM MinedAlwaysAccepted == GasSpec => []MinedIsAccepted
<1>1. TypeOK => MinedIsAccepted
  <2> SUFFICES ASSUME TypeOK,
                      NEW used \in 0 .. CalcGasLimit(parent, config.floor, config.ceil)
               PROVE  verifyGas(parent,
                        [gasLimit |-> CalcGasLimit(parent, config.floor, config.ceil),
                         gasUsed |-> used])
    BY DEF MinedIsAccepted
  <2> DEFINE g == CalcGasLimit(parent, config.floor, config.ceil)
             q == parent.gasLimit \div GasLimitBoundDivisor
  <2>1. g \in MinGasTarget .. MaxGasTarget /\ parent.gasLimit - g < q /\ g - parent.gasLimit < q
    BY LimitIsNear DEF TypeOK
  <2>2. parent.gasLimit \in Int /\ g \in Int /\ used <= g
    BY <2>1, LimitAssumption DEF TypeOK
  <2> HIDE DEF g
  <2>3. (IF parent.gasLimit - g < 0 THEN -(parent.gasLimit - g) ELSE parent.gasLimit - g) < q
    BY <2>1, <2>2
  <2>4. verifyGas(parent, [gasLimit |-> g, gasUsed |-> used])
    BY <2>1, <2>2, <2>3 DEF verifyGas
  <2>5. QED
    BY <2>4 DEF g
<1>2. QED
  BY <1>1, GasTypeCorrect, PTL

\* A miner's own blocks never take the limit out of its band.
THEOREM BandNeverLeft == GasSpec => BandKept
<1>1. TypeOK /\ [GasNext]_gasVars => [Mine /\ InBand => InBand']_gasVars
  <2> SUFFICES ASSUME TypeOK, Mine, InBand PROVE InBand'
    OBVIOUS
  <2> DEFINE l == parent.gasLimit
             u == parent.gasUsed
             decay == l \div GasLimitBoundDivisor - 1
             contrib == (u + u \div 2) \div GasLimitBoundDivisor
             drift == AtLeast(l - decay + contrib, MinGasLimit)
             honed == IF drift < config.floor THEN AtMost(l + decay, config.floor)
                      ELSE IF drift > config.ceil THEN AtLeast(l - decay, config.ceil)
                      ELSE drift
  <2>1. /\ parent'.gasLimit = AtMost(AtLeast(honed, MinGasTarget), MaxGasTarget)
        /\ config' = config
    BY DEF Mine, CalcGasLimit
  <2>2. l \in Nat /\ u \in Nat /\ l >= MinGasTarget /\ u <= l
    BY LimitAssumption DEF TypeOK
  <2>3. decay \in Nat
    <3>1. MinGasTarget \div GasLimitBoundDivisor <= l \div GasLimitBoundDivisor
      BY <2>2, QuotientMonotone, DivisorAssumption, LimitAssumption
    <3>2. /\ l \div GasLimitBoundDivisor \in Nat
          /\ MinGasTarget \div GasLimitBoundDivisor \in Nat
      BY <2>2, Quotient, DivisorAssumption, LimitAssumption
    <3>3. QED
      BY <3>1, <3>2, RangeAssumption
  <2>4. contrib \in Nat
    <3>1. u + u \div 2 \in Nat
      BY <2>2
    <3>2. QED
      BY <3>1, Quotient, DivisorAssumption
  <2>5. /\ config.floor \in Nat /\ config.ceil \in Nat
        /\ config.floor >= MinGasTarget /\ config.ceil <= MaxGasTarget
        /\ config.floor <= l /\ l <= config.ceil
    BY DEF TypeOK, InBand
  <2> HIDE DEF l, u, decay, contrib
  <2>6. honed \in Int /\ config.floor <= honed /\ honed <= config.ceil
    BY <2>2, <2>3, <2>4, <2>5, LimitAssumption DEF AtLeast, AtMost
  <2> HIDE DEF honed
  <2>7. QED
    BY <2>1, <2>5, <2>6, LimitAssumption DEF InBand, AtLeast, AtMost
<1>2. QED
  BY <1>1, GasTypeCorrect, PTL DEF GasSpec, BandKept
=============================================================================
