---------------------------- MODULE Finalization ----------------------------
(***************************************************************************)
(* What a block does besides its transactions: the transactions to the     *)
(* system contracts, the slashing of the validator that missed its turn    *)
(* and the rewards.  A miner appends them in FinalizeAndAssemble; every    *)
(* other node recomputes them in StateProcessor.Process and Finalize and   *)
(* compares.                                                               *)
(*                                                                         *)
(* The state of the chain is a record                                      *)
(*   pool         the balance of FeeRecoder                                *)
(*   contract     what the validator contract has been paid                *)
(*   missed       the slash contract's counter of missed blocks            *)
(*   candidates   what getValidatorCandidate returns, best stake first     *)
(*   nonce        of every account                                         *)
(*   initialized  which of the system contracts are                        *)
(*   fees         history: the fees paid by all transactions so far        *)
(* The system contracts are external: they are modelled by these fields.   *)
(***************************************************************************)
EXTENDS Snapshot

CONSTANTS
    Senders,          \* the accounts that send ordinary transactions
    Prices,           \* the gas prices the transaction pool lets through
    MinimalGasPrice,  \* params.MinimalGasPrice
    BlockReward,
    MaxValidatorNum,  \* maxValidatorNum
    CandidateLists,   \* the candidate lists the staking contract may hold
    MaxTxs,           \* bound on the ordinary transactions of a block
    MaxHeight         \* bound on the height of the chain

\* The pool of a miner has a positive price limit, so a transaction that looks like a
\* system transaction never comes from it.
ASSUME PricesAssumption == Prices \subseteq Nat \ {0}
ASSUME RewardAssumption == BlockReward \in Nat

\* getTopValidator divides by the number of candidates it takes.
ASSUME CandidatesAssumption ==
    /\ MaxValidatorNum \in Nat \ {0}
    /\ \A list \in CandidateLists : list \in Seq(Addr) /\ list # << >>

VARIABLES
    head,       \* the head block: its snapshot and its state
    validator,  \* the account Authorize has put into the engine
    work,       \* the block the worker is filling (worker.current)
    last        \* history: the block that the last step made, if any, and its parent

finalizationVars == <<head, validator, work, last>>

errInvalidValidatorsLength == "invalid validators length"
errInvalidGasPrice == "invalid gas price"
errMissingSystemTx == "supposed to get a actual transaction, but get none"
errWrongSystemTx == "expected tx hash"
errNonce == "nonce too low or too high"
errMismatchingEpochValidators == "mismatching validator list on epoch block"

ValidatorContract == "validator contract"
SlashContract == "slash contract"

GenesisState(candidates) ==
    [pool |-> 0, contract |-> 0, missed |-> [a \in Addr |-> 0], candidates |-> candidates,
     nonce |-> [a \in Addr \cup Senders |-> 0], initialized |-> {}, fees |-> 0]

-----------------------------------------------------------------------------
(***************************************************************************)
(* Ordinary transactions.                                                  *)
(***************************************************************************)

\* A transaction of a sender with its next nonce; one to the validator contract
\* changes the candidates.
UserTx(world, from, to, candidates, price) ==
    [from |-> from, to |-> to, method |-> "user", arg |-> candidates, value |-> 0,
     price |-> price, nonce |-> world.nonce[from]]

\* What the transaction pool offers on a state.
Pending(world) ==
    {UserTx(world, from, to, list, price) :
        from \in Senders, to \in {ValidatorContract, "other"},
        list \in CandidateLists, price \in Prices}

\* preCheck: the nonce is the sender's.  Balances and the gas of a block are not modelled, so
\* buyGas never fails.
preCheck(world, tx) == tx.nonce = world.nonce[tx.from]

\* TransitionDb of a transaction that passed preCheck: the fee goes to FeeRecoder.
Transition(world, tx) ==
    [world EXCEPT !.nonce[tx.from] = @ + 1,
                  !.pool = @ + tx.price,
                  !.fees = @ + tx.price,
                  !.candidates = IF tx.to = ValidatorContract THEN tx.arg ELSE @]

-----------------------------------------------------------------------------
(***************************************************************************)
(* System transactions.                                                    *)
(***************************************************************************)

IsSystemTransaction(tx, header) ==
    /\ tx.from = header.coinbase
    /\ tx.to \in {ValidatorContract, SlashContract}
    /\ tx.price = 0

\* Every ordinary transaction pays the minimal price.
verifyTxsGasPrice(txs, header) ==
    \A i \in DOMAIN txs :
        IsSystemTransaction(txs[i], header) \/ txs[i].price >= MinimalGasPrice

\* The contracts: a call before initialize, or a second initialize, reverts.
Reverts(world, tx) == (tx.method = "initialize") = (tx.to \in world.initialized)

\* What a system transaction does to the state, value and nonce included.
Called(world, tx) ==
    [world EXCEPT
        !.nonce[tx.from] = @ + 1,
        !.contract = @ + tx.value,
        !.initialized = IF tx.method = "initialize" THEN @ \cup {tx.to} ELSE @,
        !.missed = [a \in Addr |->
                       IF tx.method = "slash" /\ a = tx.arg THEN @[a] + 1
                       ELSE IF tx.method = "decreaseMissedBlocksCounter" /\ @[a] > 0
                       THEN @[a] - 1 ELSE @[a]]]

(***************************************************************************)
(* The execution of a block is a record: the error, the state, the         *)
(* transactions executed so far, and the system transactions of the block  *)
(* still to be matched (receivedTxs).  After an error nothing happens.     *)
(* mode is [mining, validator].                                            *)
(***************************************************************************)

Failed(exec, err) == IF exec.err = OK THEN [exec EXCEPT !.err = err] ELSE exec

\* The miner signs the transaction itself; anybody else must find the same one in the
\* block.
applyTransaction(mode, header, exec, to, method, arg, value) ==
    LET tx == [from |-> header.coinbase, to |-> to, method |-> method, arg |-> arg,
               value |-> value, price |-> 0, nonce |-> exec.world.nonce[header.coinbase]]
        own == mode.mining /\ header.coinbase = mode.validator
    IN  IF exec.err # OK THEN exec
        ELSE IF ~own /\ exec.received = << >> THEN Failed(exec, errMissingSystemTx)
        ELSE IF ~own /\ Head(exec.received) # tx THEN Failed(exec, errWrongSystemTx)
        ELSE IF Reverts(exec.world, tx) THEN Failed(exec, "apply message failed")
        ELSE [exec EXCEPT !.world = Called(@, tx),
                          !.txs = Append(@, tx),
                          !.received = IF own THEN @ ELSE Tail(@)]

initializeSystemContracts(mode, snap, header, exec) ==
    IF Cardinality(snap.Validators) \notin 1 .. MaxValidatorNum
    THEN Failed(exec, errInvalidValidatorsLength)
    ELSE applyTransaction(mode, header,
            applyTransaction(mode, header, exec,
                             ValidatorContract, "initialize", snap.Validators, 0),
            SlashContract, "initialize", {}, 0)

slashRegardless(mode, snap, header, exec) ==
    LET outTurn == CHOOSE v \in snap.Validators : inturn(snap, header.number, v)
    IN  applyTransaction(mode, header, exec, SlashContract, "slash", outTurn, 0)

\* The validator whose turn it was is slashed, unless it signed recently.
slash(mode, snap, header, exec) ==
    LET outTurn == CHOOSE v \in snap.Validators : inturn(snap, header.number, v)
    IN  IF outTurn \in Range(snap.Recents)
        THEN exec
        ELSE applyTransaction(mode, header, exec, SlashContract, "slash", outTurn, 0)

collectBlockReward(exec) == [exec EXCEPT !.world.pool = @ + BlockReward]

distributeRewardKeepingPool(mode, header, exec) ==
    IF exec.world.pool <= 0
    THEN exec
    ELSE applyTransaction(mode, header, exec, ValidatorContract, "distributeBlockReward",
                          {}, exec.world.pool)

\* The pool is emptied into the validator contract, through the miner's account.
distributeReward(mode, header, exec) ==
    IF exec.world.pool <= 0
    THEN exec
    ELSE applyTransaction(mode, header, [exec EXCEPT !.world.pool = 0],
                          ValidatorContract, "distributeBlockReward", {}, exec.world.pool)

\* The validators elected at the end of an epoch, from the state of the parent, which is there
\* for whoever makes or processes a block on it.
getTopValidator(parentWorld) ==
    LET list == parentWorld.candidates
    IN  {list[i] : i \in 1 .. (IF Len(list) < MaxValidatorNum THEN Len(list)
                               ELSE MaxValidatorNum)}

epochProcess(mode, header, exec) ==
    applyTransaction(mode, header,
        applyTransaction(mode, header, exec,
                         ValidatorContract, "updateActivatedValidators", {}, 0),
        SlashContract, "decreaseMissedBlocksCounter", {}, 0)

finalizeRewardLast(mode, snap, header, exec) ==
    LET started == IF header.number = 1
                   THEN initializeSystemContracts(mode, snap, header, exec) ELSE exec
        priced == IF verifyTxsGasPrice(started.txs, header) THEN started
                  ELSE Failed(started, errInvalidGasPrice)
        slashed == IF header.difficulty # diffInTurn THEN slash(mode, snap, header, priced)
                   ELSE priced
    IN  collectBlockReward(
           IF isEpoch(header.number)
           THEN epochProcess(mode, header, distributeReward(mode, header, slashed))
           ELSE slashed)

\* What Finalize and FinalizeAndAssemble have in common.
finalizeBlock(mode, snap, header, exec) ==
    LET started == IF header.number = 1
                   THEN initializeSystemContracts(mode, snap, header, exec) ELSE exec
        priced == IF verifyTxsGasPrice(started.txs, header) THEN started
                  ELSE Failed(started, errInvalidGasPrice)
        slashed == IF header.difficulty # diffInTurn THEN slash(mode, snap, header, priced)
                   ELSE priced
        rewarded == collectBlockReward(slashed)
    IN  IF isEpoch(header.number)
        THEN epochProcess(mode, header, distributeReward(mode, header, rewarded))
        ELSE rewarded

-----------------------------------------------------------------------------
(***************************************************************************)
(* Making a block and checking it.                                         *)
(***************************************************************************)

EpochValidatorsFromNow(parentWorld, world) == getTopValidator(world)

\* The list that Finalize compares with the header is the one Prepare wrote into it:
\* both ask for the state of the parent.
EpochValidators(parentWorld, world) == getTopValidator(parentWorld)

\* A header on top of a block: Prepare, which reads the engine's account twice, without the
\* lock: for the coinbase, and as v for the difficulty.  The coinbase is to seal it later.
Prepared(snap, world, coinbase, v) ==
    [number |-> snap.Number + 1, hash |-> snap.Number + 1, parentHash |-> snap.Hash,
     coinbase |-> coinbase, signer |-> coinbase,
     difficulty |-> calcDifficulty(snap, v),
     validators |-> IF isEpoch(snap.Number + 1) THEN getTopValidator(world) ELSE {}]

Execution(world, txs, received) ==
    [err |-> OK, world |-> world, txs |-> txs, received |-> received]

\* FinalizeAndAssemble, by an engine authorized for the account v.
FinalizeAndAssemble(v, snap, header, world, txs) ==
    finalizeBlock([mining |-> TRUE, validator |-> v], snap, header,
                  Execution(world, txs, << >>))

Block(header, exec) == [header |-> header, txs |-> exec.txs, root |-> exec.world]

\* One round of the loop of Process: a system transaction is left to Finalize, any other
\* one is executed; one that cannot be ends the processing.
processTx(header, exec, tx) ==
    IF exec.err # OK THEN exec
    ELSE IF IsSystemTransaction(tx, header)
    THEN [exec EXCEPT !.received = Append(@, tx)]
    ELSE IF ~preCheck(exec.world, tx) THEN Failed(exec, errNonce)
    ELSE [exec EXCEPT !.world = Transition(@, tx), !.txs = Append(@, tx)]

\* The loop.
Executed(world, header, txs) ==
    LET after[i \in 0 .. Len(txs)] ==
            IF i = 0 THEN Execution(world, << >>, << >>)
            ELSE processTx(header, after[i - 1], txs[i])
    IN  after[Len(txs)]

\* StateProcessor.Process with Finalize, then ValidateState.
Process(snap, world, block) ==
    LET exec == finalizeBlock([mining |-> FALSE, validator |-> 0], snap, block.header,
                              Executed(world, block.header, block.txs))
    IN  IF exec.err = OK /\ isEpoch(block.header.number)
              /\ block.header.validators # EpochValidators(world, exec.world)
        THEN Failed(exec, errMismatchingEpochValidators)
        ELSE IF exec.err = OK /\ exec.world # block.root
        THEN Failed(exec, "invalid merkle root")
        ELSE exec

-----------------------------------------------------------------------------
(***************************************************************************)
(* One node: its worker makes blocks step by step, while blocks of others  *)
(* become the head and the engine is authorized for another account.       *)
(***************************************************************************)

NoWork == [height |-> 0]
NoBlock == [height |-> 0]

FinalizationInit ==
    \E list \in CandidateLists :
        /\ head = [snap |-> newSnapshot(0, 0, getTopValidator(GenesisState(list))),
                   world |-> GenesisState(list)]
        /\ validator \in Addr
        /\ work = NoWork
        /\ last = NoBlock

\* StartMining: the engine gets an account.
Authorize ==
    /\ validator' \in Addr \ {validator}
    /\ last' = NoBlock
    /\ UNCHANGED <<head, work>>

\* commitNewWork up to makeCurrent.  An Authorize may come between the two reads of Prepare,
\* so the first may have found any account.
Prepare ==
    /\ \E coinbase \in Addr :
          work' = [height |-> head.snap.Number + 1,
                   snap |-> head.snap, parentWorld |-> head.world,
                   header |-> Prepared(head.snap, head.world, coinbase, validator),
                   world |-> head.world, txs |-> << >>]
    /\ last' = NoBlock
    /\ UNCHANGED <<head, validator>>

\* commitTransaction: a transaction of the pool, which may follow another head, is executed on
\* the block being filled, or skipped for its nonce.
CommitTransaction ==
    /\ work # NoWork
    /\ Len(work.txs) < MaxTxs
    /\ \E tx \in Pending(work.world) \cup Pending(head.world) :
          work' = IF preCheck(work.world, tx)
                  THEN [work EXCEPT !.world = Transition(@, tx), !.txs = Append(@, tx)]
                  ELSE work
    /\ last' = NoBlock
    /\ UNCHANGED <<head, validator>>

\* commit: the block is finalized on a copy of the state; an error leaves no block.
Commit ==
    /\ work # NoWork
    /\ LET exec == FinalizeAndAssemble(validator, work.snap, work.header, work.world, work.txs)
       IN  /\ exec.err = OK
           /\ last' = [height |-> work.height, snap |-> work.snap, world |-> work.parentWorld,
                       block |-> Block(work.header, exec)]
    /\ UNCHANGED <<head, validator, work>>

\* A block that a validator made on the head, with at most one transaction, arrives; it
\* becomes the head if Process has no objection.
Insert ==
    /\ head.snap.Number < MaxHeight
    /\ \E v \in head.snap.Validators,
          txs \in {<< >>} \cup {<<tx>> : tx \in Pending(head.world)} :
          LET header == Prepared(head.snap, head.world, v, v)
              filled == IF txs = << >> THEN head.world ELSE Transition(head.world, Head(txs))
              made == FinalizeAndAssemble(v, head.snap, header, filled, txs)
              block == Block(header, made)
              exec == Process(head.snap, head.world, block)
          IN  /\ Seals(head.snap, header.number, v)
              /\ made.err = OK
              /\ head' = IF exec.err = OK
                         THEN [snap |-> applyHeader(head.snap, header), world |-> exec.world]
                         ELSE head
              /\ last' = [height |-> header.number, snap |-> head.snap, world |-> head.world,
                          block |-> block]
    /\ UNCHANGED <<validator, work>>

FinalizationNext == Authorize \/ Prepare \/ CommitTransaction \/ Commit \/ Insert

FinalizationSpec == FinalizationInit /\ [][FinalizationNext]_finalizationVars

-----------------------------------------------------------------------------
(***************************************************************************)
(* Properties.                                                             *)
(***************************************************************************)

\* A block that FinalizeAndAssemble returns is accepted by every node that processes
\* it, all its transactions are executed there (every transaction has a receipt), and
\* the state is the same: whoever is authorized meanwhile, however stale the head it
\* was built on, and whatever its own transactions did to the stakes.
MadeIsAccepted ==
    last # NoBlock =>
        LET exec == Process(last.snap, last.world, last.block)
        IN  /\ exec.err = OK
            /\ exec.received = << >>
            /\ exec.txs = last.block.txs

\* Nothing of the rewards is lost or paid twice: what the pool and the validator
\* contract hold is all fees and one block reward per block.
RewardsConserved ==
    head.world.pool + head.world.contract =
        head.world.fees + BlockReward * head.snap.Number

\* At the end of an epoch the whole pool, the last block's reward and fees included,
\* has been paid out.
PaidOutAtEpoch ==
    head.snap.Number > 0 /\ isEpoch(head.snap.Number) => head.world.pool = 0

\* A validator is slashed for a block only if it was its turn, the rules would have let
\* it sign, and somebody else signed.  The last holds of the blocks whose difficulty
\* verifySeal accepts: if the account changes and changes back while a block is prepared and
\* filled, a miner slashes itself, in a block that every other node rejects.
SlashedJustly ==
    last # NoBlock =>
        LET header == last.block.header
            sealable == header.difficulty = calcDifficulty(last.snap, header.coinbase)
        IN  \A i \in DOMAIN last.block.txs :
                last.block.txs[i].method = "slash" =>
                    LET v == last.block.txs[i].arg
                    IN  /\ sealable => v # header.coinbase
                        /\ inturn(last.snap, last.height, v)
                        /\ Seals(last.snap, last.height, v)
=============================================================================
