--------------------------- MODULE ValidatorChain ---------------------------
(***************************************************************************)
(* One branch of a Sonium chain as a verifying node sees it grow.          *)
(*                                                                         *)
(* verifyHeader of block n computes the snapshot of block n-1, which       *)
(* applies header n-1, and checks the seal of header n against it.  So the *)
(* header at the tip has been accepted by verifySeal but is applied to the *)
(* snapshot only when its child arrives: the two rules are two pieces of   *)
(* code, and this module has both.                                         *)
(***************************************************************************)
EXTENDS Snapshot

CONSTANTS
    ValidatorSets,  \* the sets the staking contract may elect
    MaxNumber       \* bound on the height of the branch

\* getTopValidator never returns an empty list: it takes the height modulo
\* the number of validators to elect.
ASSUME ValidatorSetsAssumption == ValidatorSets \subseteq ((SUBSET Addr) \ {{}})
ASSUME MaxNumberAssumption == MaxNumber \in Nat \ {0}

VARIABLES
    snap,      \* the snapshot of the parent of the tip
    tip,       \* the header at the tip, accepted and not yet applied
    signerAt,  \* history: who signed each block of the branch
    limitAt    \* history: the window in force when each block was verified

vars == <<snap, tip, signerAt, limitAt>>

\* The headers that can be offered on top of snapshot s.  There is one block per
\* height on a branch, so the height serves as its hash.
Candidates(s) ==
    [number     : {s.Number + 1},
     hash       : {s.Number + 1},
     parentHash : {s.Hash},
     signer     : Addr,
     difficulty : {diffInTurn, diffNoTurn},
     validators : IF isEpoch(s.Number + 1) THEN ValidatorSets ELSE {{}}]

Accepted(s) == {h \in Candidates(s) : verifySeal(s, h) = OK}

Init ==
    \E genesis \in ValidatorSets :
        /\ snap = newSnapshot(0, 0, genesis)
        /\ tip \in Accepted(snap)
        /\ signerAt = [n \in {1} |-> tip.signer]
        /\ limitAt = [n \in {1} |-> Limit(genesis)]

\* A child of the tip is verified and accepted.
Extend ==
    /\ tip.number < MaxNumber
    /\ applyError(snap, tip) = OK
    /\ snap' = applyHeader(snap, tip)
    /\ tip' \in Accepted(snap')
    /\ signerAt' = Put(signerAt, tip'.number, tip'.signer)
    /\ limitAt' = Put(limitAt, tip'.number, Limit(snap'.Validators))

\* The branch is replaced by one that differs in its last block.
Sibling ==
    /\ tip' \in Accepted(snap)
    /\ signerAt' = Put(signerAt, tip'.number, tip'.signer)
    /\ UNCHANGED <<snap, limitAt>>

Next == Extend \/ Sibling

Spec == Init /\ [][Next]_vars

-----------------------------------------------------------------------------
(***************************************************************************)
(* Properties.                                                             *)
(***************************************************************************)

\* Snapshot and tip are well formed, and the tip is one block above the snapshot.
TypeOK ==
    /\ snap.Number \in Nat
    /\ snap.Validators \in (SUBSET Addr) \ {{}}
    /\ DOMAIN snap.Recents \subseteq 1 .. snap.Number
    /\ \A n \in DOMAIN snap.Recents : snap.Recents[n] \in Addr
    /\ tip \in Candidates(snap)
    /\ DOMAIN signerAt = 1 .. tip.number
    /\ DOMAIN limitAt = 1 .. tip.number

\* Recents never remembers a block outside the window of the validator set in
\* force, also right after an epoch block has shrunk or grown the set, and what
\* it remembers is who signed that block of this branch.
RecentsWindow ==
    \A n \in DOMAIN snap.Recents :
        /\ n > snap.Number - Limit(snap.Validators)
        /\ snap.Recents[n] = signerAt[n]

\* Recents forgets nothing too early: a block that has been inside the window at
\* every height since is still remembered.
RecentsComplete ==
    \A a \in 1 .. snap.Number :
        (\A c \in a + 1 .. tip.number : c - a < limitAt[c]) => a \in DOMAIN snap.Recents

\* The validators that the rule of Seal lets sign the next block and whose block
\* can then be applied.
Eligible(s) ==
    {v \in s.Validators : /\ Seals(s, s.Number + 1, v)
                          /\ v \notin Range(ShiftOut(s, s.Number + 1))}

\* The chain never pauses: at every height at least half of the validators
\* (rounded up) may sign the next block.  This is what the deletion of recent
\* blocks at an epoch is for ("it may pause whole chain when validators length
\* decreases").
SignersRemain ==
    Cardinality(Eligible(snap)) >=
        Cardinality(snap.Validators) - Cardinality(snap.Validators) \div 2

\* Spam protection: two blocks of the branch that lie within the window in force
\* at every height between them have different signers, whatever the epochs in
\* between did to the validator set.
SpamProtection ==
    \A b \in 1 .. snap.Number : \A a \in 1 .. b - 1 :
        (\A c \in a + 1 .. b : c - a < limitAt[c]) => signerAt[a] # signerAt[b]

\* A header that the sealer rule lets a validator produce, with the difficulty of
\* Prepare, is accepted by verifySeal and can then be applied: the three copies
\* of the rule agree on the blocks honest validators make.
SealedIsAccepted ==
    \A h \in Candidates(snap) :
        /\ Seals(snap, h.number, h.signer)
        /\ h.difficulty = calcDifficulty(snap, h.signer)
        => verifySeal(snap, h) = OK /\ applyError(snap, h) = OK

\* Every height has exactly one in-turn validator.
OneInTurn ==
    \E v \in snap.Validators :
        {w \in Addr : inturn(snap, snap.Number + 1, w)} = {v}

\* The verifier and apply agree on "recently signed" once the first window of the chain
\* is past: a header that verifySeal accepts there is never one whose child will be
\* rejected because apply finds its signer recent.  (Below the first window they do not:
\* the unsigned subtraction of verifySeal wraps.)
AcceptedCanBeApplied ==
    tip.number >= Limit(snap.Validators) => applyError(snap, tip) = OK
=============================================================================
