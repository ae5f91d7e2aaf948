------------------------------- MODULE GasLimit -------------------------------
(***************************************************************************)
(* The gas limit of a chain of blocks: every miner computes the limit of   *)
(* its block from the parent (CalcGasLimit, with the floor and ceiling of  *)
(* its own configuration) and every verifier bounds it by another rule     *)
(* (verifyCascadingFields).                                                *)
(***************************************************************************)
EXTENDS Integers

CONSTANTS
    GasLimitBoundDivisor,  \* params.GasLimitBoundDivisor (1024)
    MinGasLimit,           \* params.MinGasLimit (5000)
    MinGasTarget,          \* params.MinGasTarget (30,000,000)
    MaxGasTarget,          \* params.MaxGasTarget (42,000,000)
    Targets                \* the values an operator may give the floor and the ceiling

ASSUME DivisorAssumption == GasLimitBoundDivisor \in Nat \ {0}
ASSUME LimitAssumption == MinGasLimit \in Nat /\ MinGasTarget \in Nat /\ MaxGasTarget \in Nat
ASSUME TargetsAssumption == Targets \subseteq Nat

\* The params: the two targets are in order, and the smaller one is large enough for the
\* quotient by the divisor to be at least 5 (it is 29,296).
ASSUME RangeAssumption ==
    /\ MinGasLimit <= MinGasTarget
    /\ MinGasTarget <= MaxGasTarget
    /\ MinGasTarget \div GasLimitBoundDivisor >= 5

VARIABLES
    parent,  \* the head block: its gas limit and the gas it used
    config   \* the floor and the ceiling of the miner that builds on it

gasVars == <<parent, config>>

AtLeast(x, low) == IF x < low THEN low ELSE x
AtMost(x, high) == IF x > high THEN high ELSE x

-----------------------------------------------------------------------------

\* eth.New: the configured values are made compatible with the targets.
Sanitised(floor, ceil) ==
    [floor |-> AtLeast(floor, MinGasTarget), ceil |-> AtMost(ceil, MaxGasTarget)]

UntamedGasLimit(p, floor, ceil) ==
    LET contrib == (p.gasUsed + p.gasUsed \div 2) \div GasLimitBoundDivisor
        decay == p.gasLimit \div GasLimitBoundDivisor - 1
    IN  AtMost(AtLeast(p.gasLimit - decay + contrib, MinGasTarget), MaxGasTarget)

WideGasLimit(p, floor, ceil) ==
    LET contrib == (p.gasUsed + p.gasUsed \div 2) \div GasLimitBoundDivisor
        decay == p.gasLimit \div GasLimitBoundDivisor
        drift == AtLeast(p.gasLimit - decay + contrib, MinGasLimit)
        honed == IF drift < floor THEN AtMost(p.gasLimit + decay, floor)
                 ELSE IF drift > ceil THEN AtLeast(p.gasLimit - decay, ceil)
                 ELSE drift
    IN  AtMost(AtLeast(honed, MinGasTarget), MaxGasTarget)

StuckGasLimit(p, floor, ceil) ==
    LET contrib == (p.gasUsed + p.gasUsed \div 2) \div GasLimitBoundDivisor
        decay == p.gasLimit \div GasLimitBoundDivisor - 1
        drift == AtLeast(p.gasLimit - decay + contrib, MinGasLimit)
        honed == IF drift < floor THEN AtMost(p.gasLimit, floor)
                 ELSE IF drift > ceil THEN AtLeast(p.gasLimit - decay, ceil)
                 ELSE drift
    IN  AtMost(AtLeast(honed, MinGasTarget), MaxGasTarget)

\* The limit of the block to mine on p.
CalcGasLimit(p, floor, ceil) ==
    LET contrib == (p.gasUsed + p.gasUsed \div 2) \div GasLimitBoundDivisor
        decay == p.gasLimit \div GasLimitBoundDivisor - 1
        drift == AtLeast(p.gasLimit - decay + contrib, MinGasLimit)
        honed == IF drift < floor THEN AtMost(p.gasLimit + decay, floor)
                 ELSE IF drift > ceil THEN AtLeast(p.gasLimit - decay, ceil)
                 ELSE drift
    IN  AtMost(AtLeast(honed, MinGasTarget), MaxGasTarget)

\* The gas rules of verifyCascadingFields for a child of p.
verifyGas(p, header) ==
    /\ header.gasLimit \in MinGasTarget .. MaxGasTarget
    /\ header.gasUsed <= header.gasLimit
    /\ LET diff == p.gasLimit - header.gasLimit
       IN  (IF diff < 0 THEN -diff ELSE diff) < p.gasLimit \div GasLimitBoundDivisor

-----------------------------------------------------------------------------

\* Blocks hold at most as much gas as their limit.
Headers == UNION {[gasLimit : {l}, gasUsed : 0 .. l] : l \in MinGasTarget .. MaxGasTarget}

\* The genesis block is empty and its limit lies between the targets.
GasInit ==
    /\ parent \in {header \in Headers : header.gasUsed = 0}
    /\ \E floor, ceil \in Targets : config = Sanitised(floor, ceil)

\* The miner builds a block; the transactions it finds use any amount of gas.
Mine ==
    /\ \E used \in 0 .. CalcGasLimit(parent, config.floor, config.ceil) :
          parent' = [gasLimit |-> CalcGasLimit(parent, config.floor, config.ceil),
                     gasUsed |-> used]
    /\ UNCHANGED config

\* A block of somebody with another configuration is imported.
Import ==
    /\ \E header \in Headers : verifyGas(parent, header) /\ parent' = header
    /\ UNCHANGED config

\* The node is restarted with another configuration.
Reconfigure ==
    /\ \E floor, ceil \in Targets : config' = Sanitised(floor, ceil)
    /\ UNCHANGED parent

GasNext == Mine \/ Import \/ Reconfigure

GasSpec == GasInit /\ [][GasNext]_gasVars

\* Blocks keep being made.
GasFairSpec == GasSpec /\ WF_gasVars(Mine)

-----------------------------------------------------------------------------
(***************************************************************************)
(* Properties.                                                             *)
(***************************************************************************)

\* Every block's gas is within the targets and its own limit, and the configuration
\* has been sanitised.
TypeOK ==
    /\ parent.gasLimit \in MinGasTarget .. MaxGasTarget
    /\ parent.gasUsed \in 0 .. parent.gasLimit
    /\ config.floor \in Nat /\ config.ceil \in Nat
    /\ config.floor >= MinGasTarget /\ config.ceil <= MaxGasTarget

\* A miner never computes a gas limit that other nodes refuse, whatever its floor and
\* ceiling (also a floor above its ceiling), however full the parent was and whatever
\* limit the blocks of other miners have led to.
MinedIsAccepted ==
    \A used \in 0 .. CalcGasLimit(parent, config.floor, config.ceil) :
        verifyGas(parent, [gasLimit |-> CalcGasLimit(parent, config.floor, config.ceil),
                           gasUsed |-> used])

InBand == config.floor <= parent.gasLimit /\ parent.gasLimit <= config.ceil

\* Once the limit is between the floor and the ceiling, no block of a miner with that
\* floor and ceiling leaves the band, neither full blocks nor empty ones.
BandKept == [][Mine /\ InBand => InBand']_gasVars

\* CalcGasLimit "aims to keep the baseline gas above the provided floor": wherever the
\* blocks of others have led the limit, once all blocks come from miners with one floor
\* and ceiling the limit reaches their band and stays.
BandReached == (<>[][Mine]_gasVars /\ <>[](config.floor <= config.ceil)) => <>[]InBand
=============================================================================
