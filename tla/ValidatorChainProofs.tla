------------------------ MODULE ValidatorChainProofs ------------------------
(***************************************************************************)
(* Proofs, for every set of addresses, epoch length, election outcome and  *)
(* height, of the safety properties of ValidatorChain.                     *)
(***************************************************************************)
EXTENDS ValidatorChain, FiniteSetTheorems, WellFoundedInduction, TLAPS

\* Every nonempty set of naturals has a least element.
LEMMA LeastNatural ==
    ASSUME NEW N \in SUBSET Nat, N # {}
    PROVE  \E n \in N : \A m \in N : n <= m
<1> DEFINE R == OpToRel(<, Nat)
<1>1. IsWellFoundedOn(R, Nat)
  BY NatLessThanWellFounded, Zenon
<1>2. \A m, n \in Nat : <<m, n>> \in R <=> m < n
  BY DEF OpToRel
<1> HIDE DEF R
<1>3. N \subseteq Nat
  OBVIOUS
<1>4. \E n \in N : \A m \in N : ~ (<<m, n>> \in R)
  BY <1>1, <1>3, WFMin, Zenon
<1>5. \E n \in N : \A m \in N : ~ (m < n)
  BY <1>2, <1>3, <1>4, Zenon
<1> QED
  BY <1>3, <1>5

\* A validator set is finite and its window is a positive number of blocks, no
\* longer than the machine word.
LEMMA LimitType ==
    ASSUME NEW V \in SUBSET Addr
    PROVE  /\ IsFiniteSet(V)
           /\ Cardinality(V) \in Nat
           /\ Limit(V) \in Nat \ {0}
           /\ Limit(V) <= Word
           /\ Limit(V) = Cardinality(V) \div 2 + 1
  <1>1. /\ IsFiniteSet(V)
        /\ Cardinality(V) \in Nat
        /\ Cardinality(Addr) \in Nat
        /\ Cardinality(V) <= Cardinality(Addr)
    BY AddrAssumption, FS_Subset, FS_CardinalityType, Zenon
  <1> QED
    BY <1>1, WordAssumption DEF Limit

\* What the deletion of the oldest signer leaves in Recents.
LEMMA ShiftOutResult ==
    ASSUME NEW s, NEW number \in Nat,
           s.Validators \in SUBSET Addr,
           DOMAIN s.Recents \subseteq Nat
    PROVE  /\ DOMAIN ShiftOut(s, number) =
                 {n \in DOMAIN s.Recents : n # number - Limit(s.Validators)}
           /\ \A n \in DOMAIN ShiftOut(s, number) :
                 ShiftOut(s, number)[n] = s.Recents[n]
  <1>1. Limit(s.Validators) \in Nat
    BY LimitType
  <1>2. CASE number >= Limit(s.Validators)
    BY <1>1, <1>2 DEF ShiftOut, Without, Restrict
  <1>3. CASE ~(number >= Limit(s.Validators))
    <2>1. \A n \in DOMAIN s.Recents : n # number - Limit(s.Validators)
      BY <1>1, <1>3
    <2> QED
      BY <2>1, <1>3 DEF ShiftOut
  <1> QED
    BY <1>2, <1>3

\* The heights an epoch block deletes: of the old window, exactly those that lie
\* before the new one.
LEMMA ShrinkWindowHeights ==
    ASSUME NEW number \in Nat, NEW old \in SUBSET Addr, NEW new \in SUBSET Addr,
           NEW n \in Nat, n > number - Limit(old)
    PROVE  n > number - Limit(new) <=>
           n \notin {number - Limit(new) - i :
                        i \in 0 .. (Cardinality(old) \div 2 - Cardinality(new) \div 2) - 1}
  <1> DEFINE k == Cardinality(old) \div 2 - Cardinality(new) \div 2
             gone == {number - Limit(new) - i : i \in 0 .. k - 1}
  <1>1. /\ Limit(old) \in Nat /\ Limit(new) \in Nat
        /\ k = Limit(old) - Limit(new) /\ k \in Int
    BY LimitType
  <1>2. ASSUME n \in gone PROVE ~(n > number - Limit(new))
    BY <1>1, <1>2
  <1>3. ASSUME ~(n > number - Limit(new)) PROVE n \in gone
    <2> DEFINE j == number - Limit(new) - n
    <2>1. j \in 0 .. k - 1 /\ n = number - Limit(new) - j
      BY <1>1, <1>3
    <2> QED
      BY <2>1
  <1> QED
    BY <1>2, <1>3

\* The facts about a snapshot that apply needs and preserves: it remembers
\* heights of its own past only, inside the window of its validators.
WellFormed(s) ==
    /\ s.Number \in Nat
    /\ s.Validators \in (SUBSET Addr) \ {{}}
    /\ DOMAIN s.Recents \subseteq 1 .. s.Number
    /\ \A n \in DOMAIN s.Recents : n > s.Number - Limit(s.Validators)

\* The window after apply, at ordinary blocks and at epochs: exactly the heights
\* known before that lie in the old and in the new window, and the new height.
LEMMA ApplyWindow ==
    ASSUME NEW s, WellFormed(s),
           NEW h, h.number = s.Number + 1, h.validators \in SUBSET Addr
    PROVE  LET t == applyHeader(s, h)
           IN  /\ t.Number = h.number
               /\ t.Validators = IF isEpoch(h.number) THEN h.validators ELSE s.Validators
               /\ DOMAIN t.Recents =
                     {n \in DOMAIN s.Recents \cup {h.number} :
                         /\ n > h.number - Limit(s.Validators)
                         /\ n > h.number - Limit(t.Validators)}
               /\ \A n \in DOMAIN t.Recents :
                     t.Recents[n] = IF n = h.number THEN h.signer ELSE s.Recents[n]
  <1> DEFINE t == applyHeader(s, h)
             r == ShiftOut(s, h.number)
             q == Put(r, h.number, h.signer)
  <1>1. /\ s.Number \in Nat /\ h.number \in Nat \ {0}
        /\ s.Validators \in SUBSET Addr
        /\ DOMAIN s.Recents \subseteq Nat
        /\ h.number \notin DOMAIN s.Recents
    BY DEF WellFormed
  <1>2. Limit(s.Validators) \in Nat \ {0} /\ Limit(h.validators) \in Nat \ {0}
    BY <1>1, LimitType
  <1>3. /\ DOMAIN r = {n \in DOMAIN s.Recents : n > h.number - Limit(s.Validators)}
        /\ \A n \in DOMAIN r : r[n] = s.Recents[n]
    <2>1. /\ DOMAIN r = {n \in DOMAIN s.Recents : n # h.number - Limit(s.Validators)}
          /\ \A n \in DOMAIN r : r[n] = s.Recents[n]
      BY <1>1, ShiftOutResult, Zenon
    <2>2. \A n \in DOMAIN s.Recents :
              n # h.number - Limit(s.Validators) <=> n > h.number - Limit(s.Validators)
      BY <1>1, <1>2 DEF WellFormed
    <2> QED
      BY <2>1, <2>2
  <1>4. /\ DOMAIN q = {n \in DOMAIN s.Recents \cup {h.number} :
                           n > h.number - Limit(s.Validators)}
        /\ \A n \in DOMAIN q : q[n] = IF n = h.number THEN h.signer ELSE s.Recents[n]
    <2>1. h.number > h.number - Limit(s.Validators)
      BY <1>1, <1>2
    <2>2. /\ DOMAIN q = DOMAIN r \cup {h.number}
          /\ q[h.number] = h.signer
          /\ \A n \in DOMAIN r : n # h.number => q[n] = r[n]
      BY DEF Put
    <2> QED
      BY <1>3, <2>1, <2>2
  <1>5. CASE ~isEpoch(h.number)
    <2>1. t.Recents = q /\ t.Validators = s.Validators /\ t.Number = h.number
      BY <1>5 DEF applyHeader
    <2> QED
      BY <1>4, <1>5, <2>1
  <1>6. CASE isEpoch(h.number)
    <2> DEFINE p == ShrinkWindow(q, h.number, s.Validators, h.validators)
    <2>1. t.Recents = p /\ t.Validators = h.validators /\ t.Number = h.number
      BY <1>1, <1>6 DEF applyHeader
    <2>2. DOMAIN q \subseteq Nat /\ \A n \in DOMAIN q : n > h.number - Limit(s.Validators)
      BY <1>1, <1>4
    <2>3. /\ DOMAIN p = {n \in DOMAIN q : n > h.number - Limit(h.validators)}
          /\ \A n \in DOMAIN p : p[n] = q[n]
      <3> DEFINE k == Cardinality(s.Validators) \div 2 - Cardinality(h.validators) \div 2
                 gone == {h.number - Limit(h.validators) - i : i \in 0 .. k - 1}
      <3>1. \A n \in DOMAIN q : n > h.number - Limit(h.validators) <=> n \notin gone
        BY <1>1, <2>2, ShrinkWindowHeights
      <3>2. DOMAIN p = DOMAIN q \ gone /\ \A n \in DOMAIN p : p[n] = q[n]
        BY DEF ShrinkWindow, Without, Restrict
      <3> QED
        BY <3>1, <3>2, ZenonT(30)
    <2> QED
      BY <1>4, <1>6, <2>1, <2>3
  <1> QED
    BY <1>5, <1>6

\* apply preserves well-formedness, whatever set the epoch block carries.
LEMMA ApplyWellFormed ==
    ASSUME NEW s, WellFormed(s),
           NEW h, h.number = s.Number + 1, h.validators \in SUBSET Addr,
           isEpoch(h.number) => h.validators # {}
    PROVE  WellFormed(applyHeader(s, h))
  <1> DEFINE t == applyHeader(s, h)
  <1>1. /\ t.Number = h.number
        /\ t.Validators = IF isEpoch(h.number) THEN h.validators ELSE s.Validators
        /\ DOMAIN t.Recents =
              {n \in DOMAIN s.Recents \cup {h.number} :
                  /\ n > h.number - Limit(s.Validators)
                  /\ n > h.number - Limit(t.Validators)}
    BY ApplyWindow
  <1>2. /\ s.Number \in Nat /\ DOMAIN s.Recents \subseteq 1 .. s.Number
        /\ s.Validators \in (SUBSET Addr) \ {{}}
    BY DEF WellFormed
  <1>3. DOMAIN t.Recents \subseteq 1 .. t.Number
    BY <1>1, <1>2
  <1> HIDE DEF t
  <1> QED
    BY <1>1, <1>2, <1>3 DEF WellFormed, t

\* The recent signers that Seal holds back are at most half of the validators,
\* so at least half of them remain.
LEMMA EnoughEligible ==
    ASSUME NEW s, WellFormed(s)
    PROVE  Cardinality(Eligible(s)) >=
               Cardinality(s.Validators) - Cardinality(s.Validators) \div 2
  <1> DEFINE V == s.Validators
             R == s.Recents
             number == s.Number + 1
             lo == IF number < Limit(V) THEN 1 ELSE number - Limit(V) + 1
             held == {n \in DOMAIN R : number < Limit(V) \/ n > number - Limit(V)}
             who == {R[n] : n \in held}
  <1>1. /\ number \in Nat \ {0} /\ DOMAIN R \subseteq 1 .. number - 1
        /\ V \in SUBSET Addr
    BY DEF WellFormed
  <1>2. /\ IsFiniteSet(V) /\ Cardinality(V) \in Nat /\ Limit(V) \in Nat \ {0}
        /\ Limit(V) = Cardinality(V) \div 2 + 1
    BY <1>1, LimitType
  <1>3. IsFiniteSet(held) /\ Cardinality(held) \in Nat
        /\ Cardinality(held) <= Cardinality(V) \div 2
    <2>1. lo \in Int /\ number - 1 \in Int /\ held \subseteq lo .. number - 1
      BY <1>1, <1>2
    <2>2. /\ IsFiniteSet(lo .. number - 1)
          /\ Cardinality(lo .. number - 1) =
                 IF lo > number - 1 THEN 0 ELSE number - 1 - lo + 1
      BY <2>1, FS_Interval, ZenonT(30)
    <2>3. Cardinality(lo .. number - 1) <= Cardinality(V) \div 2
      <3>1. CASE number < Limit(V)
        BY <1>1, <1>2, <2>2, <3>1
      <3>2. CASE ~(number < Limit(V))
        BY <1>1, <1>2, <2>2, <3>2
      <3> QED
        BY <3>1, <3>2
    <2>4. /\ IsFiniteSet(held)
          /\ Cardinality(held) <= Cardinality(lo .. number - 1)
      BY <2>1, <2>2, FS_Subset
    <2>5. Cardinality(held) \in Nat /\ Cardinality(lo .. number - 1) \in Nat
      BY <2>2, <2>4, FS_CardinalityType
    <2> QED
      BY <1>2, <2>3, <2>4, <2>5
  <1>4. /\ IsFiniteSet(who) /\ Cardinality(who) \in Nat
        /\ Cardinality(who) <= Cardinality(held)
    <2> DEFINE f == [n \in held |-> R[n]]
    <2>1. f \in Surjection(held, who)
      BY DEF Surjection
    <2> HIDE DEF f, held, who
    <2>2. IsFiniteSet(who) /\ Cardinality(who) <= Cardinality(held)
      BY <1>3, <2>1, FS_Surjection
    <2> QED
      BY <2>2, FS_CardinalityType
  <1>5. Eligible(s) = V \ who
    <2>1. DOMAIN R \subseteq Nat /\ \A n \in DOMAIN R : n > s.Number - Limit(V)
      BY <1>1 DEF WellFormed
    <2>2. /\ DOMAIN ShiftOut(s, number) = {n \in DOMAIN R : n # number - Limit(V)}
          /\ \A n \in DOMAIN ShiftOut(s, number) : ShiftOut(s, number)[n] = R[n]
      BY <1>1, <2>1, ShiftOutResult, Zenon
    <2>3. DOMAIN ShiftOut(s, number) \subseteq held
      BY <1>1, <1>2, <2>1, <2>2 DEF WellFormed
    <2>4. Range(ShiftOut(s, number)) \subseteq who
      BY <2>2, <2>3 DEF Range
    <2>5. \A v \in V : Seals(s, number, v) <=> v \notin who
      BY DEF Seals, SeenBySealer
    <2> HIDE DEF who
    <2> QED
      BY <2>4, <2>5 DEF Eligible
  <1>6. Cardinality(V \ who) = Cardinality(V) - Cardinality(V \cap who)
    BY <1>2, FS_Difference, Zenon
  <1>7. /\ Cardinality(V \cap who) \in Nat
        /\ Cardinality(V \cap who) <= Cardinality(who)
    <2> HIDE DEF who
    <2>1. V \cap who \subseteq who
      OBVIOUS
    <2>2. IsFiniteSet(V \cap who) /\ Cardinality(V \cap who) <= Cardinality(who)
      BY <1>4, <2>1, FS_Subset
    <2> QED
      BY <2>2, FS_CardinalityType
  <1> HIDE DEF who, held
  <1> QED
    BY <1>2, <1>3, <1>4, <1>5, <1>6, <1>7

-----------------------------------------------------------------------------
(***************************************************************************)
(* The inductive invariant.  The window alone is not inductive: that two   *)
(* blocks close to each other have different signers follows from Recents  *)
(* remembering every block that is still close (RecentsComplete), and      *)
(* RecentsWindow from the shape of the window when the set of validators   *)
(* last changed.                                                           *)
(***************************************************************************)

\* The histories record the tip and its window.
Linked ==
    /\ limitAt[tip.number] = Limit(snap.Validators)
    /\ signerAt[tip.number] = tip.signer
    /\ \A n \in DOMAIN limitAt : limitAt[n] \in Nat

Inv == TypeOK /\ RecentsWindow /\ RecentsComplete /\ SpamProtection /\ Linked

\* An accepted header is a candidate, and its signer is a validator.
LEMMA AcceptedFacts ==
    ASSUME NEW s, NEW h \in Accepted(s), s.Number \in Nat
    PROVE  /\ h \in Candidates(s)
           /\ h.number = s.Number + 1 /\ h.number \in Nat \ {0}
           /\ h.signer \in Addr
           /\ h.validators \in SUBSET Addr
           /\ isEpoch(h.number) => h.validators # {}
  <1>1. h \in Candidates(s)
    BY DEF Accepted
  <1>2. h.validators \in (IF isEpoch(s.Number + 1) THEN ValidatorSets ELSE {{}})
    BY <1>1 DEF Candidates
  <1> QED
    BY <1>1, <1>2, ValidatorSetsAssumption DEF Candidates

\* The genesis snapshot with any accepted block 1 satisfies the invariant.
LEMMA InitInv == Init => Inv
  <1> SUFFICES ASSUME Init PROVE Inv
    OBVIOUS
  <1>1. PICK genesis \in ValidatorSets :
            /\ snap = newSnapshot(0, 0, genesis)
            /\ tip \in Accepted(snap)
            /\ signerAt = [n \in {1} |-> tip.signer]
            /\ limitAt = [n \in {1} |-> Limit(genesis)]
    BY DEF Init
  <1>2. /\ snap.Number = 0 /\ snap.Validators = genesis
        /\ snap.Recents = [n \in {} |-> 0]
    BY <1>1 DEF newSnapshot
  <1>3. genesis \in (SUBSET Addr) \ {{}} /\ Limit(genesis) \in Nat
    BY ValidatorSetsAssumption, LimitType
  <1>4. tip \in Candidates(snap) /\ tip.number = 1
    BY <1>1, <1>2, AcceptedFacts
  <1>5. TypeOK
    BY <1>1, <1>2, <1>3, <1>4 DEF TypeOK
  <1>6. RecentsWindow /\ RecentsComplete /\ SpamProtection
    BY <1>2 DEF RecentsWindow, RecentsComplete, SpamProtection
  <1>7. Linked
    BY <1>1, <1>2, <1>3, <1>4 DEF Linked
  <1> QED
    BY <1>5, <1>6, <1>7 DEF Inv

\* The snapshot of a reachable state is well formed.
LEMMA InvWellFormed == Inv => WellFormed(snap)
  BY DEF Inv, TypeOK, RecentsWindow, WellFormed

\* Extend: the tip is applied and a child accepted.
LEMMA ExtendInv == Inv /\ Extend => Inv'
  <1> SUFFICES ASSUME Inv, Extend PROVE Inv'
    OBVIOUS
  <1> DEFINE n0 == tip.number
             L == Limit(snap.Validators)
             M == Limit(snap'.Validators)
  <1>1. /\ snap.Number \in Nat /\ n0 = snap.Number + 1
        /\ tip.signer \in Addr /\ tip.validators \in SUBSET Addr
        /\ isEpoch(n0) => tip.validators # {}
    <2>1. tip.validators \in (IF isEpoch(snap.Number + 1) THEN ValidatorSets ELSE {{}})
      BY DEF Inv, TypeOK, Candidates
    <2> QED
      BY <2>1, ValidatorSetsAssumption DEF Inv, TypeOK, Candidates
  <1>2. WellFormed(snap) /\ WellFormed(snap')
    BY <1>1, InvWellFormed, ApplyWellFormed DEF Extend
  <1>3. /\ snap'.Number = n0
        /\ DOMAIN snap'.Recents = {n \in DOMAIN snap.Recents \cup {n0} :
                                       n > n0 - L /\ n > n0 - M}
        /\ \A n \in DOMAIN snap'.Recents :
              snap'.Recents[n] = IF n = n0 THEN tip.signer ELSE snap.Recents[n]
    BY <1>1, <1>2, ApplyWindow DEF Extend
  <1>4. L \in Nat \ {0} /\ M \in Nat \ {0}
    BY <1>2, LimitType DEF WellFormed
  <1>5. /\ tip' \in Candidates(snap')
        /\ tip'.number = n0 + 1 /\ tip'.signer \in Addr
    BY <1>1, <1>3, AcceptedFacts DEF Extend
  <1>6. /\ DOMAIN signerAt = 1 .. n0 /\ DOMAIN limitAt = 1 .. n0
        /\ DOMAIN signerAt' = 1 .. n0 + 1 /\ DOMAIN limitAt' = 1 .. n0 + 1
        /\ \A n \in 1 .. n0 : signerAt'[n] = signerAt[n] /\ limitAt'[n] = limitAt[n]
        /\ signerAt'[n0 + 1] = tip'.signer /\ limitAt'[n0 + 1] = M
    BY <1>1, <1>5 DEF Inv, TypeOK, Extend, Put
  <1>7. /\ DOMAIN snap.Recents \subseteq 1 .. n0 - 1
        /\ \A n \in DOMAIN snap.Recents :
              snap.Recents[n] \in Addr /\ snap.Recents[n] = signerAt[n]
        /\ limitAt[n0] = L /\ signerAt[n0] = tip.signer
    BY <1>1 DEF Inv, TypeOK, RecentsWindow, Linked
  <1>8. TypeOK'
    <2>1. \A n \in DOMAIN snap'.Recents : snap'.Recents[n] \in Addr
      BY <1>1, <1>3, <1>7
    <2> QED
      BY <1>2, <1>5, <1>6, <2>1 DEF TypeOK, WellFormed
  <1>9. RecentsWindow'
    <2> SUFFICES ASSUME NEW n \in DOMAIN snap'.Recents
                 PROVE  n > snap'.Number - M /\ snap'.Recents[n] = signerAt'[n]
      BY DEF RecentsWindow
    <2>1. n \in DOMAIN snap.Recents \cup {n0} /\ n > n0 - M
      BY <1>3
    <2>2. CASE n = n0
      BY <1>1, <1>3, <1>6, <1>7, <2>1, <2>2
    <2>3. CASE n # n0
      BY <1>1, <1>3, <1>6, <1>7, <2>1, <2>3
    <2> QED
      BY <2>2, <2>3
  <1>10. RecentsComplete'
    <2> SUFFICES ASSUME NEW a \in 1 .. n0,
                        \A c \in a + 1 .. n0 + 1 : c - a < limitAt'[c]
                 PROVE  a \in DOMAIN snap'.Recents
      BY <1>3, <1>5 DEF RecentsComplete
    <2>1. a > n0 - M
      <3>1. n0 \in Nat /\ a \in Nat /\ n0 + 1 \in a + 1 .. n0 + 1
        BY <1>1
      <3>2. n0 + 1 - a < limitAt'[n0 + 1]
        BY <3>1
      <3>3. n0 + 1 - a < M
        BY <1>6, <3>2
      <3> QED
        BY <1>4, <3>1, <3>3
    <2>2. CASE a = n0
      BY <1>1, <1>3, <1>4, <2>1, <2>2
    <2>3. CASE a < n0
      <3>1. \A c \in a + 1 .. n0 : c - a < limitAt[c]
        BY <1>1, <1>6
      <3>2. a \in DOMAIN snap.Recents
        BY <1>1, <3>1, <2>3 DEF Inv, RecentsComplete
      <3>3. a > n0 - L
        BY <1>1, <1>4, <1>7, <3>1, <2>3
      <3> QED
        BY <1>3, <2>1, <3>2, <3>3
    <2> QED
      BY <1>1, <2>2, <2>3
  <1>11. SpamProtection'
    <2> SUFFICES ASSUME NEW b \in 1 .. n0, NEW a \in 1 .. b - 1,
                        \A c \in a + 1 .. b : c - a < limitAt'[c]
                 PROVE  signerAt'[a] # signerAt'[b]
      BY <1>3 DEF SpamProtection
    <2>1. /\ a \in 1 .. n0 /\ a < b
          /\ signerAt'[a] = signerAt[a] /\ signerAt'[b] = signerAt[b]
          /\ \A c \in a + 1 .. b : c - a < limitAt[c]
      BY <1>1, <1>6
    <2>2. CASE b < n0
      BY <1>1, <2>1, <2>2 DEF Inv, SpamProtection
    <2>3. CASE b = n0
      <3>1. a \in DOMAIN snap.Recents /\ snap.Recents[a] = signerAt[a]
        BY <1>1, <1>7, <2>1, <2>3 DEF Inv, RecentsComplete
      <3>2. a # n0 - L
        <4>1. n0 \in a + 1 .. b /\ a \in Int /\ n0 \in Int
          BY <1>1, <2>1, <2>3
        <4>2. n0 - a < L
          BY <1>7, <2>1, <4>1
        <4> QED
          BY <1>4, <4>1, <4>2
      <3>3. a \in DOMAIN ShiftOut(snap, n0) /\ ShiftOut(snap, n0)[a] = signerAt[a]
        <4>1. /\ n0 \in Nat /\ snap.Validators \in SUBSET Addr
              /\ DOMAIN snap.Recents \subseteq Nat
          BY <1>1, <1>2 DEF WellFormed
        <4>2. /\ DOMAIN ShiftOut(snap, n0) = {n \in DOMAIN snap.Recents : n # n0 - L}
              /\ \A n \in DOMAIN ShiftOut(snap, n0) :
                    ShiftOut(snap, n0)[n] = snap.Recents[n]
          BY <4>1, ShiftOutResult, ZenonT(30)
        <4> QED
          BY <3>1, <3>2, <4>2
      <3>4. tip.signer \notin Range(ShiftOut(snap, n0))
        BY DEF Extend, applyError, OK, errRecentlySigned, errUnauthorizedValidator
      <3> QED
        BY <1>7, <2>1, <2>3, <3>3, <3>4 DEF Range
    <2> QED
      BY <1>1, <2>2, <2>3
  <1>12. Linked'
    BY <1>1, <1>4, <1>5, <1>6 DEF Linked, Inv
  <1> QED
    BY <1>8, <1>9, <1>10, <1>11, <1>12 DEF Inv

\* Sibling: only the tip is replaced.
LEMMA SiblingInv == Inv /\ Sibling => Inv'
  <1> SUFFICES ASSUME Inv, Sibling PROVE Inv'
    OBVIOUS
  <1>1. /\ snap' = snap /\ limitAt' = limitAt
        /\ snap.Number \in Nat
        /\ tip.number = snap.Number + 1 /\ tip'.number = tip.number
        /\ tip' \in Candidates(snap')
    BY AcceptedFacts DEF Sibling, Inv, TypeOK, Candidates
  <1>2. /\ DOMAIN signerAt' = 1 .. tip'.number
        /\ signerAt'[tip'.number] = tip'.signer
        /\ \A n \in 1 .. snap.Number : signerAt'[n] = signerAt[n]
    BY <1>1 DEF Sibling, Put, Inv, TypeOK
  <1>3. TypeOK'
    BY <1>1, <1>2 DEF Inv, TypeOK
  <1>4. RecentsWindow' /\ RecentsComplete'
    BY <1>1, <1>2 DEF Inv, TypeOK, RecentsWindow, RecentsComplete
  <1>5. SpamProtection'
    BY <1>1, <1>2 DEF Inv, SpamProtection
  <1>6. Linked'
    BY <1>1, <1>2 DEF Inv, Linked
  <1> QED
    BY <1>3, <1>4, <1>5, <1>6 DEF Inv

\* The invariant holds in every reachable state.
THEOREM Invariance == Spec => []Inv
  <1>1. Inv /\ UNCHANGED vars => Inv'
    BY DEF Inv, TypeOK, RecentsWindow, RecentsComplete, SpamProtection, Linked, vars,
           Candidates
  <1> QED
    BY <1>1, InitInv, ExtendInv, SiblingInv, PTL DEF Spec, Next

\* Type correctness of the branch.
THEOREM TypeCorrect == Spec => []TypeOK
  BY Invariance, PTL DEF Inv

\* The snapshot that apply maintains remembers only the window in force, through
\* every epoch that grows, shrinks or replaces the validator set.
THEOREM WindowCorrect == Spec => []RecentsWindow
  BY Invariance, PTL DEF Inv

\* The snapshot forgets no signer of a block that has stayed inside the window.
THEOREM NothingForgotten == Spec => []RecentsComplete
  BY Invariance, PTL DEF Inv

\* No signer signs twice within the window.
THEOREM SpamProtected == Spec => []SpamProtection
  BY Invariance, PTL DEF Inv

\* At least half of the validators may always sign the next block, so no epoch
\* ever pauses the chain.
THEOREM ChainNeverPauses == Spec => []SignersRemain
  <1>1. Inv => SignersRemain
    BY InvWellFormed, EnoughEligible DEF SignersRemain
  <1> QED
    BY <1>1, Invariance, PTL

-----------------------------------------------------------------------------
(***************************************************************************)
(* Turns and the agreement of sealer, verifier and apply.                  *)
(***************************************************************************)

\* The offsets of the validators in the sorted list are 0 .. N-1, each taken once.
LEMMA OffsetsAreARanking ==
    ASSUME NEW V \in (SUBSET Addr) \ {{}}, NEW k \in 0 .. Cardinality(V) - 1
    PROVE  \E v \in V : {w \in Addr : k = Offset(V, w)} = {v}
  <1> DEFINE N == Cardinality(V)
             below(v) == {u \in V : u < v}
             f == [v \in V |-> Cardinality(below(v))]
  <1>1. IsFiniteSet(V) /\ N \in Nat /\ V \subseteq Nat
    BY LimitType, AddrAssumption
  <1>2. \A v \in V : /\ IsFiniteSet(below(v))
                     /\ Cardinality(below(v)) \in Nat
                     /\ Cardinality(below(v)) < N
    <2> SUFFICES ASSUME NEW v \in V
                 PROVE  /\ IsFiniteSet(below(v))
                        /\ Cardinality(below(v)) \in Nat
                        /\ Cardinality(below(v)) < N
      OBVIOUS
    <2>1. below(v) \in SUBSET V /\ v \notin below(v)
      BY <1>1
    <2>2. /\ IsFiniteSet(below(v)) /\ Cardinality(below(v)) <= N
          /\ N = Cardinality(below(v)) => V = below(v)
      BY <1>1, <2>1, FS_Subset
    <2> HIDE DEF below
    <2>3. Cardinality(below(v)) \in Nat
      BY <2>2, FS_CardinalityType
    <2> QED
      BY <1>1, <2>1, <2>2, <2>3
  <1>3. \A v, w \in V : v < w => f[v] # f[w]
    <2> SUFFICES ASSUME NEW v \in V, NEW w \in V, v < w
                 PROVE  Cardinality(below(v)) # Cardinality(below(w))
      OBVIOUS
    <2>1. v \in Nat /\ w \in Nat /\ \A u \in V : u \in Nat /\ (u < v => u < w)
      BY <1>1
    <2>2. below(v) \in SUBSET below(w) /\ v \in below(w) /\ v \notin below(v)
      <3>1. ~(v < v)
        BY <2>1
      <3>2. below(v) \subseteq below(w)
        BY <2>1, Zenon
      <3> QED
        BY <3>1, <3>2, Zenon
    <2> HIDE DEF below
    <2> QED
      BY <1>2, <2>2, FS_Subset
  <1>4. f \in Injection(V, 0 .. N - 1)
    <2>1. f \in [V -> 0 .. N - 1]
      <3> HIDE DEF below
      <3> QED
        BY <1>1, <1>2
    <2>2. \A v, w \in V : f[v] = f[w] => v = w
      <3> HIDE DEF f
      <3> QED
        BY <1>1, <1>3
    <2> HIDE DEF f
    <2> QED
      BY <2>1, <2>2 DEF Injection, IsInjective
  <1>5. IsFiniteSet(0 .. N - 1) /\ Cardinality(0 .. N - 1) = N
    BY <1>1, FS_Interval
  <1>6. f \in Surjection(V, 0 .. N - 1)
    <2> HIDE DEF f
    <2> QED
      BY <1>4, <1>5, FS_Injection
  <1>7. PICK v \in V : f[v] = k
    <2> HIDE DEF f
    <2> QED
      BY <1>6 DEF Surjection
  <1>8. \A w \in V : Offset(V, w) = f[w]
    BY DEF Offset
  <1>9. \A w \in V : f[w] = k => w = v
    <2> HIDE DEF f
    <2> QED
      BY <1>1, <1>3, <1>7
  <1>10. \A w \in Addr : w \notin V => Offset(V, w) # k
    BY <1>1 DEF Offset
  <1> HIDE DEF f
  <1> QED
    BY <1>7, <1>8, <1>9, <1>10

\* Every height of every reachable branch has exactly one in-turn validator.
THEOREM ExactlyOneInTurn == Spec => []OneInTurn
  <1>1. ASSUME Inv PROVE OneInTurn
    <2> DEFINE V == snap.Validators
               k == (snap.Number + 1) % Cardinality(V)
    <2>1. V \in (SUBSET Addr) \ {{}} /\ snap.Number \in Nat
      BY <1>1 DEF Inv, TypeOK
    <2>2. Cardinality(V) \in Nat \ {0}
      BY <2>1, LimitType, FS_EmptySet
    <2>3. k \in 0 .. Cardinality(V) - 1
      BY <2>1, <2>2
    <2> HIDE DEF k
    <2>4. PICK v \in V : {w \in Addr : k = Offset(V, w)} = {v}
      BY <2>1, <2>3, OffsetsAreARanking
    <2> QED
      BY <2>4 DEF OneInTurn, inturn, k
  <1> QED
    BY <1>1, Invariance, PTL

\* Whatever block the rule of Seal lets an honest validator make is accepted by
\* every verifier and does not block the snapshots above it.
THEOREM SealerAgreesWithVerifier == Spec => []SealedIsAccepted
  <1>1. ASSUME Inv PROVE SealedIsAccepted
    <2> SUFFICES ASSUME NEW h \in Candidates(snap),
                        Seals(snap, h.number, h.signer),
                        h.difficulty = calcDifficulty(snap, h.signer)
                 PROVE  verifySeal(snap, h) = OK /\ applyError(snap, h) = OK
      BY DEF SealedIsAccepted
    <2> DEFINE L == Limit(snap.Validators)
    <2>1. h.number = snap.Number + 1 /\ h.number \in Nat /\ snap.Number \in Nat
      BY <1>1 DEF Inv, TypeOK, Candidates
    <2>2. /\ WellFormed(snap) /\ snap.Validators \in SUBSET Addr
          /\ DOMAIN snap.Recents \subseteq 1 .. snap.Number
          /\ \A n \in DOMAIN snap.Recents : n > snap.Number - L
      BY <1>1, InvWellFormed DEF WellFormed
    <2>3. L \in Nat /\ L <= Word /\ Word \in Nat
      BY <2>2, LimitType, WordAssumption
    <2>4. h.signer \in snap.Validators
      BY DEF Seals
    <2>5. \A n \in DOMAIN snap.Recents : snap.Recents[n] = h.signer =>
              h.number >= L /\ n <= h.number - L
      BY <2>1, <2>2, <2>3 DEF Seals, SeenBySealer
    <2>6. ~SeenByVerifier(snap, h.number, h.signer)
      BY <2>1, <2>2, <2>3, <2>5 DEF SeenByVerifier, USub
    <2>7. verifySeal(snap, h) = OK
      BY <2>1, <2>4, <2>6 DEF verifySeal, calcDifficulty
    <2>8. h.signer \notin Range(ShiftOut(snap, h.number))
      <3>1. /\ DOMAIN ShiftOut(snap, h.number) =
                   {n \in DOMAIN snap.Recents : n # h.number - L}
            /\ \A n \in DOMAIN ShiftOut(snap, h.number) :
                  ShiftOut(snap, h.number)[n] = snap.Recents[n]
        <4>1. DOMAIN snap.Recents \subseteq Nat
          BY <2>1, <2>2
        <4> QED
          BY <4>1, <2>1, <2>2, ShiftOutResult, ZenonT(30)
      <3>2. \A n \in DOMAIN snap.Recents :
                snap.Recents[n] = h.signer => n = h.number - L
        BY <2>1, <2>2, <2>3, <2>5
      <3> QED
        BY <3>1, <3>2 DEF Range
    <2>9. applyError(snap, h) = OK
      BY <2>4, <2>8 DEF applyError
    <2> QED
      BY <2>7, <2>9
  <1> QED
    BY <1>1, Invariance, PTL

\* Once the first window is past, apply never rejects what verifySeal has accepted: the
\* only height at which the signer may be remembered is the one that is shifted out.
THEOREM VerifierAgreesWithApply == Spec => []AcceptedCanBeApplied
  <1> DEFINE TipAccepted == verifySeal(snap, tip) = OK
  <1>1. ASSUME Inv, TipAccepted PROVE AcceptedCanBeApplied
    <2> SUFFICES ASSUME tip.number >= Limit(snap.Validators)
                 PROVE  applyError(snap, tip) = OK
      BY DEF AcceptedCanBeApplied
    <2> DEFINE L == Limit(snap.Validators)
    <2>1. tip.number = snap.Number + 1 /\ tip.number \in Nat /\ snap.Number \in Nat
      BY <1>1 DEF Inv, TypeOK, Candidates
    <2>2. /\ WellFormed(snap) /\ snap.Validators \in SUBSET Addr
          /\ DOMAIN snap.Recents \subseteq 1 .. snap.Number
          /\ \A n \in DOMAIN snap.Recents : n > snap.Number - L
      BY <1>1, InvWellFormed DEF WellFormed
    <2>3. L \in Nat
      BY <2>2, LimitType
    <2>4. tip.signer \in snap.Validators /\ ~SeenByVerifier(snap, tip.number, tip.signer)
      BY <1>1 DEF verifySeal, OK, errUnauthorizedValidator, errRecentlySigned
    <2>5. \A n \in DOMAIN snap.Recents : snap.Recents[n] = tip.signer => n <= tip.number - L
      BY <2>1, <2>2, <2>3, <2>4 DEF SeenByVerifier, USub
    <2>6. /\ DOMAIN ShiftOut(snap, tip.number) =
                 {n \in DOMAIN snap.Recents : n # tip.number - L}
          /\ \A n \in DOMAIN ShiftOut(snap, tip.number) :
                ShiftOut(snap, tip.number)[n] = snap.Recents[n]
      <3>1. DOMAIN snap.Recents \subseteq Nat
        BY <2>1, <2>2
      <3> QED
        BY <3>1, <2>1, <2>2, ShiftOutResult, Zenon
    <2>7. tip.signer \notin Range(ShiftOut(snap, tip.number))
      <3>1. \A n \in DOMAIN snap.Recents :
                snap.Recents[n] = tip.signer => n = tip.number - L
        BY <2>1, <2>2, <2>3, <2>5
      <3> QED
        BY <2>6, <3>1 DEF Range
    <2> QED
      BY <2>4, <2>7 DEF applyError
  <1>2. Init => TipAccepted
    BY DEF Init, Accepted
  <1>3. TipAccepted /\ [Next]_vars => TipAccepted'
    BY DEF Next, Extend, Sibling, Accepted, vars
  <1> QED
    BY <1>1, <1>2, <1>3, Invariance, PTL DEF Spec
=============================================================================
