------------------------------ MODULE Snapshot ------------------------------
(***************************************************************************)
(* The authorization snapshot of the Sonium engine                         *)
(* (consensus/sonium/snapshot.go) and the rules of consensus/sonium/       *)
(* sonium.go that read it.                                                 *)
(*                                                                         *)
(* An address is an integer: bytes.Compare on 20-byte addresses is the     *)
(* order of the integers they encode.  A header is a record                *)
(*   [number, hash, parentHash, signer, difficulty, validators]            *)
(* where signer is what ecrecover returns for its seal and validators is   *)
(* the set written in the extra-data of an epoch block.  A snapshot is     *)
(*   [Number, Hash, Validators, Recents]                                   *)
(* where Recents is the partial map from heights to signers.               *)
(***************************************************************************)
EXTENDS Integers, FiniteSets, Sequences, Functions

CONSTANTS
    Addr,   \* the addresses that can ever be validators
    Epoch,  \* blocks between two updates of the validator set
    Word    \* 2^64 in the code: unsigned subtraction wraps modulo Word

ASSUME AddrAssumption == Addr \subseteq Nat /\ IsFiniteSet(Addr)
ASSUME EpochAssumption == Epoch \in Nat \ {0}
ASSUME WordAssumption == Word \in Nat /\ Cardinality(Addr) < Word

diffInTurn == 2
diffNoTurn == 1

OK == "ok"
errUnauthorizedValidator == "unauthorized validator"
errRecentlySigned == "recently signed"
errWrongDifficulty == "wrong difficulty"
errOutOfRangeChain == "out of range or non-contiguous chain"
errBlockHashInconsistent == "the block hash is inconsistent"

\* uint64 subtraction.
USub(a, b) == IF a >= b THEN a - b ELSE a - b + Word

\* The height after which a signer may sign again, and the size of the window
\* of blocks whose signers are all different.
Limit(validators) == Cardinality(validators) \div 2 + 1

isEpoch(number) == number % Epoch = 0

newSnapshot(number, hash, validators) ==
    [Number |-> number, Hash |-> hash, Validators |-> validators, Recents |-> [n \in {} |-> 0]]

-----------------------------------------------------------------------------
(***************************************************************************)
(* apply, for one header.                                                  *)
(***************************************************************************)

Without(recents, heights) == Restrict(recents, DOMAIN recents \ heights)

EarlyShiftOut(snap, number) ==
    Without(snap.Recents, {number - Limit(snap.Validators) + 1})

\* The oldest signer leaves the window and may sign again.
ShiftOut(snap, number) ==
    IF number >= Limit(snap.Validators)
    THEN Without(snap.Recents, {number - Limit(snap.Validators)})
    ELSE snap.Recents

NothingShrunk(recents, number, old, new) == recents

\* A smaller validator set has a smaller window: the heights that fall out of
\* it are forgotten at once.
ShrinkWindow(recents, number, old, new) ==
    Without(recents,
            {number - Limit(new) - i :
                 i \in 0 .. (Cardinality(old) \div 2 - Cardinality(new) \div 2) - 1})

applyError(snap, header) ==
    IF header.signer \notin snap.Validators
    THEN errUnauthorizedValidator
    ELSE IF header.signer \in Range(ShiftOut(snap, header.number))
    THEN errRecentlySigned
    ELSE OK

\* A map with one entry more, or another value for it.
Put(f, k, v) == [x \in DOMAIN f \cup {k} |-> IF x = k THEN v ELSE f[x]]

applyHeader(snap, header) ==
    LET recents == Put(ShiftOut(snap, header.number), header.number, header.signer)
        update == header.number > 0 /\ isEpoch(header.number)
    IN  [Number     |-> header.number,
         Hash       |-> header.hash,
         Validators |-> IF update THEN header.validators ELSE snap.Validators,
         Recents    |-> IF update
                        THEN ShrinkWindow(recents, header.number,
                                          snap.Validators, header.validators)
                        ELSE recents]

\* The headers are consecutive and the first one is a child of the snapshot, which is
\* looked at last.
sequenceError(snap, headers) ==
    LET before(i) == IF i = 1 THEN [number |-> snap.Number, hash |-> snap.Hash]
                     ELSE headers[i - 1]
        badNumber == {i \in DOMAIN headers : headers[i].number # before(i).number + 1}
        badHash == {i \in DOMAIN headers : headers[i].parentHash # before(i).hash}
        later == (badNumber \cup badHash) \ {1}
        first == IF later = {} THEN 1 ELSE CHOOSE i \in later : \A j \in later : i <= j
    IN  IF first \in badNumber THEN errOutOfRangeChain
        ELSE IF first \in badHash THEN errBlockHashInconsistent
        ELSE OK

applyNext(result, header) ==
    IF result.err # OK
    THEN result
    ELSE [err |-> applyError(result.snap, header), snap |-> applyHeader(result.snap, header)]

\* apply: the snapshot after a list of headers, or the first error.
apply(snap, headers) ==
    IF sequenceError(snap, headers) # OK
    THEN [err |-> sequenceError(snap, headers), snap |-> snap]
    ELSE LET after[i \in 0 .. Len(headers)] ==
                 IF i = 0 THEN [err |-> OK, snap |-> snap]
                 ELSE applyNext(after[i - 1], headers[i])
         IN  after[Len(headers)]

-----------------------------------------------------------------------------
(***************************************************************************)
(* Turns.  The offset of a validator in the ascending list of validators   *)
(* is the number of validators below it.  Anyone else gets the offset      *)
(* len(validators), which is no one's turn.                                *)
(***************************************************************************)

OffsetFromOne(validators, signer) ==
    Cardinality({v \in validators : v <= signer})

Offset(validators, signer) ==
    IF signer \in validators
    THEN Cardinality({v \in validators : v < signer})
    ELSE Cardinality(validators)

inturn(snap, number, signer) ==
    number % Cardinality(snap.Validators) = Offset(snap.Validators, signer)

calcDifficulty(snap, validator) ==
    IF inturn(snap, snap.Number + 1, validator) THEN diffInTurn ELSE diffNoTurn

-----------------------------------------------------------------------------
(***************************************************************************)
(* The rule "signed recently" of the verifier and of the sealer.           *)
(***************************************************************************)

SeenByVerifierLoose(snap, number, signer) ==
    \E seen \in DOMAIN snap.Recents :
        /\ snap.Recents[seen] = signer
        /\ seen > USub(number, Limit(snap.Validators)) + 1

\* verifySeal: fails for a recent signer that the block does not shift out.
\* The subtraction is unsigned.
SeenByVerifier(snap, number, signer) ==
    \E seen \in DOMAIN snap.Recents :
        /\ snap.Recents[seen] = signer
        /\ seen > USub(number, Limit(snap.Validators))

verifySeal(snap, header) ==
    IF header.signer \notin snap.Validators
    THEN errUnauthorizedValidator
    ELSE IF SeenByVerifier(snap, header.number, header.signer)
    THEN errRecentlySigned
    ELSE IF header.difficulty # (IF inturn(snap, header.number, header.signer)
                                 THEN diffInTurn ELSE diffNoTurn)
    THEN errWrongDifficulty
    ELSE OK

SealSeenUnguarded(snap, number, validator) ==
    \E seen \in DOMAIN snap.Recents :
        /\ snap.Recents[seen] = validator
        /\ seen > USub(number, Limit(snap.Validators))

\* Seal: the same rule, guarded against the underflow.
SeenBySealer(snap, number, validator) ==
    \E seen \in DOMAIN snap.Recents :
        /\ snap.Recents[seen] = validator
        /\ \/ number < Limit(snap.Validators)
           \/ seen > number - Limit(snap.Validators)

\* Seal signs and publishes only when it is authorized and not recent.
Seals(snap, number, validator) ==
    /\ validator \in snap.Validators
    /\ ~SeenBySealer(snap, number, validator)
=============================================================================
