------------------------ MODULE SnapshotStoreProofs ------------------------
(***************************************************************************)
(* Proofs, for every tree of headers, every node and any number of         *)
(* callers, of the safety properties of SnapshotStore.                     *)
(***************************************************************************)
EXTENDS ValidatorChainProofs, SnapshotStore, SequenceTheorems

-----------------------------------------------------------------------------
(***************************************************************************)
(* The recursive definitions on the tree have the values they say.         *)
(***************************************************************************)

\* What holds of no lowest header holds of none.
LEMMA LowestHeader ==
    ASSUME NEW S \in SUBSET Hashes, S # {}
    PROVE  \E h \in S : \A g \in S : Num(h) <= Num(g)
<1> DEFINE N == {Num(h) : h \in S}
<1>1. N \in SUBSET Nat /\ N # {}
  BY TreeAssumption
<1>2. PICK n \in N : \A m \in N : n <= m
  <2> HIDE DEF N
  <2> QED
    BY <1>1, LeastNatural, Zenon
<1> QED
  BY <1>2, Zenon

Level(n) == {h \in Hashes : Num(h) <= n}

\* The parent of a header is one level below it.
LEMMA ParentLevel ==
    ASSUME NEW h \in Hashes, h # Genesis
    PROVE  /\ Tree[h].parentHash \in Hashes
           /\ Num(h) = Num(Tree[h].parentHash) + 1
           /\ Num(h) \in Nat /\ Num(Tree[h].parentHash) \in Nat
           /\ Tree[h].parentHash # h
BY TreeAssumption

ReplayBody(f, h) ==
    IF h = Genesis
    THEN newSnapshot(0, Genesis, Tree[Genesis].validators)
    ELSE applyHeader(f[Tree[h].parentHash], Tree[h])

\* Replay up to a height.
ReplayTo(f, n) == f = [h \in Level(n) |-> ReplayBody(f, h)]

\* Two replays agree where both are defined.
LEMMA ReplayToAgree ==
    ASSUME NEW m \in Nat, NEW n \in Nat, m <= n, NEW f, NEW g, ReplayTo(f, m), ReplayTo(g, n)
    PROVE  \A h \in Level(m) : f[h] = g[h]
<1> DEFINE S == {h \in Level(m) : f[h] # g[h]}
<1> SUFFICES ASSUME S # {} PROVE FALSE
  BY Zenon
<1>1. S \in SUBSET Hashes
  BY Zenon DEF Level
<1>2. PICK h \in S : \A k \in S : Num(h) <= Num(k)
  <2> HIDE DEF S
  <2> QED
    BY <1>1, LowestHeader, Zenon
<1>3. h \in Hashes /\ h \in Level(m) /\ h \in Level(n) /\ f[h] # g[h]
  BY TreeAssumption DEF Level
<1>4. f[h] = ReplayBody(f, h) /\ g[h] = ReplayBody(g, h)
  BY <1>3, Zenon DEF ReplayTo
<1>5. h # Genesis
  BY <1>3, <1>4, Zenon DEF ReplayBody
<1>6. Tree[h].parentHash \in Level(m) /\ Tree[h].parentHash \notin S
  BY <1>2, <1>3, <1>5, ParentLevel DEF Level
<1>7. f[Tree[h].parentHash] = g[Tree[h].parentHash]
  BY <1>6, Zenon
<1> QED
  BY <1>3, <1>4, <1>5, <1>7, Zenon DEF ReplayBody

\* There is a replay up to every height: the lowest height without one would have one.
LEMMA ReplayToExists ==
    ASSUME NEW n \in Nat
    PROVE  \E f : ReplayTo(f, n)
<1> DEFINE S == {m \in Nat : ~ \E f : ReplayTo(f, m)}
<1> SUFFICES ASSUME S # {} PROVE FALSE
  BY Zenon
<1>1. PICK m \in S : \A k \in S : m <= k
  <2>1. S \in SUBSET Nat
    BY Zenon
  <2> HIDE DEF S
  <2> QED
    BY <2>1, LeastNatural, Zenon
<1>2. m \in Nat /\ ~ \E f : ReplayTo(f, m)
  BY Zenon
<1>3. CASE m = 0
  <2>1. \A h \in Level(0) : h = Genesis
    BY ParentLevel DEF Level
  <2> DEFINE f == [h \in Level(0) |-> ReplayBody(0, h)]
  <2>2. \A h \in Level(0) : ReplayBody(0, h) = ReplayBody(f, h)
    BY <2>1, Zenon DEF ReplayBody
  <2>3. ReplayTo(f, 0)
    BY <2>2, Zenon DEF ReplayTo
  <2> QED
    BY <1>2, <1>3, <2>3, Zenon
<1>4. CASE m # 0
  <2>1. m - 1 \in Nat /\ m - 1 \notin S
    BY <1>1, <1>2, <1>4
  <2>2. PICK f : ReplayTo(f, m - 1)
    BY <2>1, Zenon
  <2> DEFINE g == [h \in Level(m) |-> ReplayBody(f, h)]
  <2>3. \A h \in Level(m) : h # Genesis => Tree[h].parentHash \in Level(m - 1)
    BY <1>2, ParentLevel DEF Level
  <2>4. \A h \in Level(m - 1) : h \in Level(m) /\ f[h] = ReplayBody(f, h)
    <3>1. \A h \in Level(m - 1) : h \in Level(m)
      BY <1>2, TreeAssumption DEF Level
    <3> QED
      BY <2>2, <3>1, Zenon DEF ReplayTo
  <2>5. \A h \in Level(m) : ReplayBody(f, h) = ReplayBody(g, h)
    <3> TAKE h \in Level(m)
    <3>1. CASE h = Genesis
      BY <3>1, Zenon DEF ReplayBody
    <3>2. CASE h # Genesis
      <4>1. PICK p : p = Tree[h].parentHash
        BY Zenon
      <4>2. p \in Level(m - 1) /\ p \in Level(m) /\ f[p] = ReplayBody(f, p)
        BY <2>3, <2>4, <3>2, <4>1, Zenon
      <4>3. g[p] = f[p]
        BY <4>2, Zenon
      <4> HIDE DEF g
      <4> QED
        BY <3>2, <4>1, <4>3, Zenon DEF ReplayBody
    <3> QED
      BY <3>1, <3>2, Zenon
  <2>6. ReplayTo(g, m)
    <3>1. g = [h \in Level(m) |-> ReplayBody(g, h)]
      BY <2>5, Zenon
    <3> HIDE DEF g
    <3> QED
      BY <3>1, Zenon DEF ReplayTo
  <2> QED
    BY <1>2, <2>6, Zenon
<1> QED
  BY <1>3, <1>4, Zenon

\* Replay is what its definition says.
LEMMA ReplayEquation == \A h \in Hashes : Replay[h] = ReplayBody(Replay, h)
<1> DEFINE upto(n) == CHOOSE f : ReplayTo(f, n)
           F == [h \in Hashes |-> upto(Num(h))[h]]
<1>1. \A n \in Nat : ReplayTo(upto(n), n)
  BY ReplayToExists, Zenon
<1> HIDE DEF upto
<1>2. ASSUME NEW h \in Hashes PROVE F[h] = ReplayBody(F, h)
  <2>1. Num(h) \in Nat /\ h \in Level(Num(h))
    BY TreeAssumption DEF Level
  <2>2. F[h] = ReplayBody(upto(Num(h)), h)
    BY <1>1, <2>1, Zenon DEF ReplayTo
  <2>3. CASE h = Genesis
    BY <2>2, <2>3, Zenon DEF ReplayBody
  <2>4. CASE h # Genesis
    <3>1. PICK p : p = Tree[h].parentHash
      BY Zenon
    <3>2. p \in Hashes /\ Num(p) \in Nat /\ Num(p) <= Num(h) /\ p \in Level(Num(p))
      BY <2>4, <3>1, ParentLevel DEF Level
    <3>3. upto(Num(p))[p] = upto(Num(h))[p]
      BY <1>1, <2>1, <3>2, ReplayToAgree
    <3>4. F[p] = upto(Num(h))[p]
      BY <3>2, <3>3, Zenon
    <3> HIDE DEF F
    <3> QED
      BY <2>2, <2>4, <3>1, <3>4, Zenon DEF ReplayBody
  <2> QED
    BY <2>3, <2>4, Zenon
<1>3. F = [h \in Hashes |-> ReplayBody(F, h)]
  BY <1>2, Zenon
<1> HIDE DEF F
<1>4. Replay = CHOOSE f : f = [h \in Hashes |-> ReplayBody(f, h)]
  BY Zenon DEF Replay, ReplayBody
<1>5. Replay = [h \in Hashes |-> ReplayBody(Replay, h)]
  BY <1>3, <1>4, Zenon
<1> QED
  BY <1>5, Zenon

AncestorsBody(f, h) ==
    IF h = Genesis THEN {h} ELSE {h} \cup f[Tree[h].parentHash]

\* Ancestors up to a height.
AncestorsTo(f, n) == f = [h \in Level(n) |-> AncestorsBody(f, h)]

\* The same for ancestors.
LEMMA AncestorsToAgree ==
    ASSUME NEW m \in Nat, NEW n \in Nat, m <= n, NEW f, NEW g, AncestorsTo(f, m), AncestorsTo(g, n)
    PROVE  \A h \in Level(m) : f[h] = g[h]
<1> DEFINE S == {h \in Level(m) : f[h] # g[h]}
<1> SUFFICES ASSUME S # {} PROVE FALSE
  BY Zenon
<1>1. S \in SUBSET Hashes
  BY Zenon DEF Level
<1>2. PICK h \in S : \A k \in S : Num(h) <= Num(k)
  <2> HIDE DEF S
  <2> QED
    BY <1>1, LowestHeader, Zenon
<1>3. h \in Hashes /\ h \in Level(m) /\ h \in Level(n) /\ f[h] # g[h]
  BY TreeAssumption DEF Level
<1>4. f[h] = AncestorsBody(f, h) /\ g[h] = AncestorsBody(g, h)
  BY <1>3, Zenon DEF AncestorsTo
<1>5. h # Genesis
  BY <1>3, <1>4, Zenon DEF AncestorsBody
<1>6. Tree[h].parentHash \in Level(m) /\ Tree[h].parentHash \notin S
  BY <1>2, <1>3, <1>5, ParentLevel DEF Level
<1>7. f[Tree[h].parentHash] = g[Tree[h].parentHash]
  BY <1>6, Zenon
<1> QED
  BY <1>3, <1>4, <1>5, <1>7, Zenon DEF AncestorsBody

\* The same for ancestors.
LEMMA AncestorsToExists ==
    ASSUME NEW n \in Nat
    PROVE  \E f : AncestorsTo(f, n)
<1> DEFINE S == {m \in Nat : ~ \E f : AncestorsTo(f, m)}
<1> SUFFICES ASSUME S # {} PROVE FALSE
  BY Zenon
<1>1. PICK m \in S : \A k \in S : m <= k
  <2>1. S \in SUBSET Nat
    BY Zenon
  <2> HIDE DEF S
  <2> QED
    BY <2>1, LeastNatural, Zenon
<1>2. m \in Nat /\ ~ \E f : AncestorsTo(f, m)
  BY Zenon
<1>3. CASE m = 0
  <2>1. \A h \in Level(0) : h = Genesis
    BY ParentLevel DEF Level
  <2> DEFINE f == [h \in Level(0) |-> AncestorsBody(0, h)]
  <2>2. \A h \in Level(0) : AncestorsBody(0, h) = AncestorsBody(f, h)
    BY <2>1, Zenon DEF AncestorsBody
  <2>3. AncestorsTo(f, 0)
    BY <2>2, Zenon DEF AncestorsTo
  <2> QED
    BY <1>2, <1>3, <2>3, Zenon
<1>4. CASE m # 0
  <2>1. m - 1 \in Nat /\ m - 1 \notin S
    BY <1>1, <1>2, <1>4
  <2>2. PICK f : AncestorsTo(f, m - 1)
    BY <2>1, Zenon
  <2> DEFINE g == [h \in Level(m) |-> AncestorsBody(f, h)]
  <2>3. \A h \in Level(m) : h # Genesis => Tree[h].parentHash \in Level(m - 1)
    BY <1>2, ParentLevel DEF Level
  <2>4. \A h \in Level(m - 1) : h \in Level(m) /\ f[h] = AncestorsBody(f, h)
    <3>1. \A h \in Level(m - 1) : h \in Level(m)
      BY <1>2, TreeAssumption DEF Level
    <3> QED
      BY <2>2, <3>1, Zenon DEF AncestorsTo
  <2>5. \A h \in Level(m) : AncestorsBody(f, h) = AncestorsBody(g, h)
    <3> TAKE h \in Level(m)
    <3>1. CASE h = Genesis
      BY <3>1, Zenon DEF AncestorsBody
    <3>2. CASE h # Genesis
      <4>1. PICK p : p = Tree[h].parentHash
        BY Zenon
      <4>2. p \in Level(m - 1) /\ p \in Level(m) /\ f[p] = AncestorsBody(f, p)
        BY <2>3, <2>4, <3>2, <4>1, Zenon
      <4>3. g[p] = f[p]
        BY <4>2, Zenon
      <4> HIDE DEF g
      <4> QED
        BY <3>2, <4>1, <4>3, Zenon DEF AncestorsBody
    <3> QED
      BY <3>1, <3>2, Zenon
  <2>6. AncestorsTo(g, m)
    <3>1. g = [h \in Level(m) |-> AncestorsBody(g, h)]
      BY <2>5, Zenon
    <3> HIDE DEF g
    <3> QED
      BY <3>1, Zenon DEF AncestorsTo
  <2> QED
    BY <1>2, <2>6, Zenon
<1> QED
  BY <1>3, <1>4, Zenon

\* Ancestors is what its definition says.
LEMMA AncestorsEquation == \A h \in Hashes : Ancestors[h] = AncestorsBody(Ancestors, h)
<1> DEFINE upto(n) == CHOOSE f : AncestorsTo(f, n)
           F == [h \in Hashes |-> upto(Num(h))[h]]
<1>1. \A n \in Nat : AncestorsTo(upto(n), n)
  BY AncestorsToExists, Zenon
<1> HIDE DEF upto
<1>2. ASSUME NEW h \in Hashes PROVE F[h] = AncestorsBody(F, h)
  <2>1. Num(h) \in Nat /\ h \in Level(Num(h))
    BY TreeAssumption DEF Level
  <2>2. F[h] = AncestorsBody(upto(Num(h)), h)
    BY <1>1, <2>1, Zenon DEF AncestorsTo
  <2>3. CASE h = Genesis
    BY <2>2, <2>3, Zenon DEF AncestorsBody
  <2>4. CASE h # Genesis
    <3>1. PICK p : p = Tree[h].parentHash
      BY Zenon
    <3>2. p \in Hashes /\ Num(p) \in Nat /\ Num(p) <= Num(h) /\ p \in Level(Num(p))
      BY <2>4, <3>1, ParentLevel DEF Level
    <3>3. upto(Num(p))[p] = upto(Num(h))[p]
      BY <1>1, <2>1, <3>2, AncestorsToAgree
    <3>4. F[p] = upto(Num(h))[p]
      BY <3>2, <3>3, Zenon
    <3> HIDE DEF F
    <3> QED
      BY <2>2, <2>4, <3>1, <3>4, Zenon DEF AncestorsBody
  <2> QED
    BY <2>3, <2>4, Zenon
<1>3. F = [h \in Hashes |-> AncestorsBody(F, h)]
  BY <1>2, Zenon
<1> HIDE DEF F
<1>4. Ancestors = CHOOSE f : f = [h \in Hashes |-> AncestorsBody(f, h)]
  BY Zenon DEF Ancestors, AncestorsBody
<1>5. Ancestors = [h \in Hashes |-> AncestorsBody(Ancestors, h)]
  BY <1>3, <1>4, Zenon
<1> QED
  BY <1>5, Zenon

\* The branch of a header: it has one header at every height up to its own, and contains
\* the branch of the parent.
LEMMA AncestorFacts ==
    \A h \in Hashes :
        /\ h \in Ancestors[h]
        /\ \A a \in Ancestors[h] : a \in Hashes /\ Num(a) <= Num(h)
        /\ \A n \in 0 .. Num(h) : \E a \in Ancestors[h] : Num(a) = n
        /\ h # Genesis => Ancestors[Tree[h].parentHash] \subseteq Ancestors[h]
<1> DEFINE Good(h) == /\ h \in Ancestors[h]
                      /\ \A a \in Ancestors[h] : a \in Hashes /\ Num(a) <= Num(h)
                      /\ \A n \in 0 .. Num(h) : \E a \in Ancestors[h] : Num(a) = n
                      /\ h # Genesis => Ancestors[Tree[h].parentHash] \subseteq Ancestors[h]
           S == {h \in Hashes : ~Good(h)}
<1> SUFFICES ASSUME S # {} PROVE FALSE
  BY Zenon
<1>1. PICK h \in S : \A k \in S : Num(h) <= Num(k)
  <2>1. S \in SUBSET Hashes
    BY Zenon
  <2> HIDE DEF S
  <2> QED
    BY <2>1, LowestHeader, Zenon
<1>2. h \in Hashes /\ ~Good(h) /\ Num(h) \in Nat
  BY TreeAssumption, Zenon
<1>3. CASE h = Genesis
  <2>1. Ancestors[h] = {h} /\ Num(h) = 0
    BY <1>2, <1>3, AncestorsEquation, TreeAssumption, ZenonT(30) DEF AncestorsBody
  <2> QED
    BY <1>2, <1>3, <2>1
<1>4. CASE h # Genesis
  <2>1. PICK p : p = Tree[h].parentHash
    BY Zenon
  <2>2. p \in Hashes /\ Num(h) = Num(p) + 1 /\ Num(p) \in Nat
    BY <1>2, <1>4, <2>1, ParentLevel, Zenon
  <2>3. p \notin S
    BY <1>1, <2>2
  <2>4. Ancestors[h] = {h} \cup Ancestors[p]
    BY <1>2, <1>4, <2>1, AncestorsEquation, ZenonT(30) DEF AncestorsBody
  <2>5. Good(p)
    BY <2>2, <2>3, Zenon
  <2>6. \A a \in Ancestors[h] : a \in Hashes /\ Num(a) <= Num(h)
    <3> TAKE a \in Ancestors[h]
    <3>1. a = h \/ a \in Ancestors[p]
      BY <2>4, Zenon
    <3>2. CASE a = h
      BY <1>2, <3>2
    <3>3. CASE a \in Ancestors[p]
      <4>1. a \in Hashes /\ Num(a) <= Num(p) /\ Num(a) \in Nat
        BY <2>5, <3>3, TreeAssumption, Zenon
      <4> QED
        BY <2>2, <4>1
    <3> QED
      BY <3>1, <3>2, <3>3, Zenon
  <2>7. \A n \in 0 .. Num(h) : \E a \in Ancestors[h] : Num(a) = n
    <3> TAKE n \in 0 .. Num(h)
    <3>1. CASE n = Num(h)
      BY <2>4, <3>1, Zenon
    <3>2. CASE n # Num(h)
      <4>1. n \in 0 .. Num(p)
        BY <2>2, <3>2
      <4> QED
        BY <2>4, <2>5, <4>1, Zenon
    <3> QED
      BY <3>1, <3>2, Zenon
  <2> QED
    BY <1>2, <2>1, <2>4, <2>6, <2>7, Zenon
<1> QED
  BY <1>3, <1>4, Zenon

-----------------------------------------------------------------------------
(***************************************************************************)
(* Snapshots.                                                              *)
(***************************************************************************)

\* A snapshot has these four fields, and Recents is a map.
IsSnapshot(s) ==
    /\ s = [Number |-> s.Number, Hash |-> s.Hash, Validators |-> s.Validators,
            Recents |-> s.Recents]
    /\ s.Recents = [n \in DOMAIN s.Recents |-> s.Recents[n]]

\* Applying a header gives a snapshot of its block.
LEMMA ApplyIsSnapshot ==
    ASSUME NEW s, NEW h
    PROVE  IsSnapshot(applyHeader(s, h)) /\ applyHeader(s, h).Hash = h.hash
<1>1. PICK q : q = Put(ShiftOut(s, h.number), h.number, h.signer)
  BY Zenon
<1>2. PICK t : t = applyHeader(s, h)
  BY Zenon
<1>3. /\ t = [Number |-> t.Number, Hash |-> t.Hash, Validators |-> t.Validators,
             Recents |-> t.Recents]
      /\ t.Hash = h.hash
      /\ \/ t.Recents = q
         \/ t.Recents = ShrinkWindow(q, h.number, s.Validators, h.validators)
  BY <1>1, <1>2, Zenon DEF applyHeader
<1>4. q = [n \in DOMAIN q |-> q[n]]
  BY <1>1, Zenon DEF Put
<1>5. \A r, number, old, new : ShrinkWindow(r, number, old, new) =
         [n \in DOMAIN ShrinkWindow(r, number, old, new) |->
             ShrinkWindow(r, number, old, new)[n]]
  BY DEF ShrinkWindow, Without, Restrict
<1>6. t.Recents = [n \in DOMAIN t.Recents |-> t.Recents[n]]
  BY <1>3, <1>4, <1>5
<1> QED
  BY <1>2, <1>3, <1>6, Zenon DEF IsSnapshot

\* newSnapshot gives a snapshot without recent signers.
LEMMA NewIsSnapshot ==
    ASSUME NEW number \in Nat, NEW hash, NEW V, NEW s, s = newSnapshot(number, hash, V)
    PROVE  /\ IsSnapshot(s) /\ DOMAIN s.Recents = {}
           /\ s.Number = number /\ s.Hash = hash /\ s.Validators = V
BY Zenon DEF newSnapshot, IsSnapshot

\* The snapshot of a block by its definition.
LEMMA ReplayFacts ==
    \A h \in Hashes :
        /\ IsSnapshot(Replay[h]) /\ WellFormed(Replay[h])
        /\ Replay[h].Number = Num(h) /\ Replay[h].Hash = h
        /\ isEpoch(Num(h)) => Replay[h].Validators = Tree[h].validators
<1> DEFINE Good(h) == /\ IsSnapshot(Replay[h]) /\ WellFormed(Replay[h])
                      /\ Replay[h].Number = Num(h) /\ Replay[h].Hash = h
                      /\ isEpoch(Num(h)) => Replay[h].Validators = Tree[h].validators
           S == {h \in Hashes : ~Good(h)}
<1> SUFFICES ASSUME S # {} PROVE FALSE
  BY Zenon
<1>1. PICK h \in S : \A k \in S : Num(h) <= Num(k)
  <2>1. S \in SUBSET Hashes
    BY Zenon
  <2> HIDE DEF S
  <2> QED
    BY <2>1, LowestHeader, Zenon
<1>2. h \in Hashes /\ ~Good(h) /\ Num(h) \in Nat
  BY TreeAssumption, Zenon
<1>3. CASE h = Genesis
  <2>1. Replay[h] = newSnapshot(0, h, Tree[h].validators)
    BY <1>2, <1>3, ReplayEquation, Zenon DEF ReplayBody
  <2>2. PICK s : s = Replay[h]
    BY Zenon
  <2>3. /\ IsSnapshot(s) /\ DOMAIN s.Recents = {}
        /\ s.Number = 0 /\ s.Hash = h /\ s.Validators = Tree[h].validators
    BY <2>1, <2>2, NewIsSnapshot
  <2>4. Num(h) = 0 /\ Tree[h].validators \in (SUBSET Addr) \ {{}}
    <3>1. isEpoch(0)
      BY EpochAssumption DEF isEpoch
    <3> QED
      BY <1>3, <3>1, TreeAssumption, Zenon
  <2>5. WellFormed(s)
    BY <2>3, <2>4 DEF WellFormed
  <2> QED
    BY <1>2, <2>2, <2>3, <2>4, <2>5, Zenon
<1>4. CASE h # Genesis
  <2>1. PICK p : p = Tree[h].parentHash
    BY Zenon
  <2>2. p \in Hashes /\ Num(h) = Num(p) + 1 /\ Num(p) \in Nat
    BY <1>2, <1>4, <2>1, ParentLevel, Zenon
  <2>3. p \notin S
    BY <1>1, <2>2
  <2>4. PICK s, t : s = Replay[p] /\ t = Replay[h]
    BY Zenon
  <2>5. t = applyHeader(s, Tree[h])
    BY <1>2, <1>4, <2>1, <2>4, ReplayEquation, Zenon DEF ReplayBody
  <2>6. WellFormed(s) /\ s.Number = Num(p)
    BY <2>2, <2>3, <2>4, Zenon
  <2>7. /\ Tree[h].number = s.Number + 1 /\ Tree[h].validators \in SUBSET Addr
        /\ isEpoch(Tree[h].number) => Tree[h].validators # {}
        /\ Tree[h].hash = h /\ Tree[h].number = Num(h)
    BY <1>2, <2>2, <2>6, TreeAssumption, Zenon DEF Num
  <2>8. WellFormed(t)
    BY <2>5, <2>6, <2>7, ApplyWellFormed, Zenon
  <2>9. /\ t.Number = Num(h)
        /\ isEpoch(Num(h)) => t.Validators = Tree[h].validators
    BY <2>5, <2>6, <2>7, ApplyWindow
  <2>10. IsSnapshot(t) /\ t.Hash = h
    BY <2>5, <2>7, ApplyIsSnapshot, Zenon
  <2> QED
    BY <1>2, <2>4, <2>8, <2>9, <2>10, Zenon
<1> QED
  BY <1>3, <1>4, Zenon

\* Sound, for a set of trusted blocks.
BasesIn(T, hash) == {0} \cup {Num(t) : t \in T \cap Ancestors[hash]}

Known(recent, base) == Restrict(recent, {n \in DOMAIN recent : n > base})

SoundIn(T, s) ==
    /\ IsSnapshot(s)
    /\ s.Hash \in Hashes
    /\ s.Number = Num(s.Hash)
    /\ s.Validators = Replay[s.Hash].Validators
    /\ \E base \in BasesIn(T, s.Hash) : s.Recents = Known(Replay[s.Hash].Recents, base)

\* Trusting more blocks makes no snapshot unsound.
LEMMA SoundGrows ==
    ASSUME NEW T, NEW U, T \subseteq U, NEW s, SoundIn(T, s)
    PROVE  SoundIn(U, s)
<1>1. BasesIn(T, s.Hash) \subseteq BasesIn(U, s.Hash)
  BY Zenon DEF BasesIn
<1> QED
  BY <1>1, Zenon DEF SoundIn

\* What is known from a base on.
LEMMA KnownFacts ==
    ASSUME NEW recent, NEW base
    PROVE  /\ DOMAIN Known(recent, base) = {n \in DOMAIN recent : n > base}
           /\ \A n \in DOMAIN recent : n > base => Known(recent, base)[n] = recent[n]
           /\ Known(recent, base) = [n \in {n \in DOMAIN recent : n > base} |-> recent[n]]
BY Zenon DEF Known, Restrict


\* The heights a snapshot may rest on are not above its block, and a child may rest on
\* those of its parent.
LEMMA BasesBelow ==
    ASSUME NEW T \in SUBSET Hashes, NEW h \in Hashes
    PROVE  \A base \in BasesIn(T, h) : base \in Nat /\ base <= Num(h)
<1>1. Num(h) \in Nat
  BY TreeAssumption, Zenon
<1>2. \A t \in Ancestors[h] : Num(t) \in Nat /\ Num(t) <= Num(h)
  BY AncestorFacts, TreeAssumption, Zenon
<1> QED
  BY <1>1, <1>2 DEF BasesIn

\* Whatever a block may rest on, its child may.
LEMMA BasesOfChild ==
    ASSUME NEW T, NEW h \in Hashes \ {Genesis}
    PROVE  BasesIn(T, Tree[h].parentHash) \subseteq BasesIn(T, h)
<1>1. Ancestors[Tree[h].parentHash] \subseteq Ancestors[h]
  BY AncestorFacts, Zenon
<1> QED
  BY <1>1, Zenon DEF BasesIn

\* A sound snapshot knows at most what the replay knows.
LEMMA SoundWellFormed ==
    ASSUME NEW T \in SUBSET Hashes, NEW s, SoundIn(T, s)
    PROVE  WellFormed(s)
<1>1. PICK r : r = Replay[s.Hash]
  BY Zenon
<1>2. WellFormed(r) /\ r.Number = s.Number /\ r.Validators = s.Validators
  BY <1>1, ReplayFacts, Zenon DEF SoundIn
<1>3. PICK base : s.Recents = Known(r.Recents, base)
  BY <1>1, Zenon DEF SoundIn
<1>4. DOMAIN s.Recents \subseteq DOMAIN r.Recents
  <2>1. PICK R, K : R = r.Recents /\ K = s.Recents
    BY Zenon
  <2>2. K = [n \in {n \in DOMAIN R : n > base} |-> R[n]]
    BY <1>3, <2>1, Zenon DEF Known, Restrict
  <2> QED
    BY <2>1, <2>2, Zenon
<1>5. /\ r.Number \in Nat /\ r.Validators \in (SUBSET Addr) \ {{}}
      /\ DOMAIN r.Recents \subseteq 1 .. r.Number
      /\ \A n \in DOMAIN r.Recents : n > r.Number - Limit(r.Validators)
  BY <1>2, Zenon DEF WellFormed
<1>6. DOMAIN s.Recents \subseteq 1 .. s.Number
  BY <1>2, <1>4, <1>5, Zenon
<1>7. \A n \in DOMAIN s.Recents : n > s.Number - Limit(s.Validators)
  BY <1>2, <1>4, <1>5, Zenon
<1> QED
  BY <1>2, <1>5, <1>6, <1>7, Zenon DEF WellFormed

\* An epoch block taken on trust: its validators are right and it knows no signers.
LEMMA TrustedSound ==
    ASSUME NEW T \in SUBSET Hashes, NEW h \in T, isEpoch(Num(h)),
           NEW s, s = newSnapshot(Num(h), h, Tree[h].validators)
    PROVE  SoundIn(T, s)
<1>1. Num(h) \in Nat /\ h \in Hashes
  BY TreeAssumption, Zenon
<1>2. /\ IsSnapshot(s) /\ DOMAIN s.Recents = {}
      /\ s.Number = Num(h) /\ s.Hash = h /\ s.Validators = Tree[h].validators
  BY <1>1, NewIsSnapshot
<1>3. PICK r : r = Replay[h]
  BY Zenon
<1>4. WellFormed(r) /\ r.Number = Num(h) /\ r.Validators = s.Validators
  BY <1>1, <1>2, <1>3, ReplayFacts, Zenon
<1>5. s.Recents = Known(r.Recents, Num(h))
  <2>1. {n \in DOMAIN r.Recents : n > Num(h)} = {}
    BY <1>1, <1>4 DEF WellFormed
  <2>2. s.Recents = [n \in {} |-> s.Recents[n]]
    BY <1>2, Zenon DEF IsSnapshot
  <2>3. Known(r.Recents, Num(h)) = [n \in {} |-> r.Recents[n]]
    BY <2>1, KnownFacts, ZenonT(30)
  <2> QED
    BY <2>2, <2>3, Zenon
<1>6. Num(h) \in BasesIn(T, h)
  BY <1>1, AncestorFacts, Zenon DEF BasesIn
<1> QED
  BY <1>1, <1>2, <1>3, <1>4, <1>5, <1>6, Zenon DEF SoundIn

\* A header of the tree applied to a sound snapshot of its parent: it is not rejected, and
\* the result is a sound snapshot of its block.
LEMMA SoundStep ==
    ASSUME NEW T \in SUBSET Hashes, NEW s, SoundIn(T, s),
           NEW h \in Hashes \ {Genesis}, Tree[h].parentHash = s.Hash,
           NEW u, u = applyHeader(s, Tree[h])
    PROVE  applyError(s, Tree[h]) = OK /\ SoundIn(T, u) /\ u.Hash = h
<1>1. PICK p, r, v, header :
          p = s.Hash /\ r = Replay[p] /\ v = Replay[h] /\ header = Tree[h]
  BY Zenon
<1>2. /\ p \in Hashes /\ Num(h) = Num(p) + 1 /\ Num(p) \in Nat
      /\ header.number = Num(h) /\ header.hash = h
      /\ header.validators \in SUBSET Addr
      /\ header.parentHash = p
  BY <1>1, ParentLevel, TreeAssumption DEF Num
<1>3. WellFormed(r) /\ WellFormed(v) /\ r.Number = Num(p)
  BY <1>1, <1>2, ReplayFacts, Zenon
<1>4. WellFormed(s) /\ s.Number = Num(p) /\ s.Validators = r.Validators
  BY <1>1, SoundWellFormed, Zenon DEF SoundIn
<1>5. v = applyHeader(r, header)
  BY <1>1, <1>2, ReplayEquation, Zenon DEF ReplayBody
<1>6. PICK base \in BasesIn(T, p) : s.Recents = Known(r.Recents, base)
  BY <1>1, Zenon DEF SoundIn
<1>7. base \in Nat /\ base <= Num(p)
  BY <1>2, <1>6, BasesBelow, Zenon
<1>8. /\ DOMAIN s.Recents = {n \in DOMAIN r.Recents : n > base}
      /\ \A n \in DOMAIN s.Recents : s.Recents[n] = r.Recents[n]
  <2>1. PICK R, K : R = r.Recents /\ K = s.Recents
    BY Zenon
  <2>2. K = [n \in {n \in DOMAIN R : n > base} |-> R[n]]
    BY <1>6, <2>1, Zenon DEF Known, Restrict
  <2> QED
    BY <2>1, <2>2, Zenon
<1>9. /\ DOMAIN r.Recents \subseteq Nat /\ Limit(s.Validators) \in Nat \ {0}
      /\ r.Number \in Nat
  <2>1. /\ DOMAIN r.Recents \subseteq 1 .. r.Number /\ r.Number \in Nat
        /\ s.Validators \in SUBSET Addr
    BY <1>3, <1>4, Zenon DEF WellFormed
  <2>2. DOMAIN r.Recents \subseteq Nat
    BY <2>1
  <2> QED
    BY <2>1, <2>2, LimitType, Zenon
<1>10. applyError(s, header) = OK
  <2>1. applyError(r, header) = OK
    BY <1>1, <1>2, SealAssumption, Zenon
  <2>2. header.signer \in r.Validators /\ header.signer \notin Range(ShiftOut(r, header.number))
    BY <2>1, Zenon DEF applyError, OK, errUnauthorizedValidator, errRecentlySigned
  <2>3. PICK a, b : a = ShiftOut(s, header.number) /\ b = ShiftOut(r, header.number)
    BY Zenon
  <2>4. /\ DOMAIN a = {n \in DOMAIN s.Recents : n # header.number - Limit(s.Validators)}
        /\ \A n \in DOMAIN a : a[n] = s.Recents[n]
        /\ DOMAIN b = {n \in DOMAIN r.Recents : n # header.number - Limit(r.Validators)}
        /\ \A n \in DOMAIN b : b[n] = r.Recents[n]
    <3>1. header.number \in Nat /\ s.Validators \in SUBSET Addr /\ DOMAIN s.Recents \subseteq Nat
      BY <1>2, <1>4, <1>8, <1>9 DEF WellFormed
    <3> QED
      BY <1>4, <1>9, <2>3, <3>1, ShiftOutResult, Zenon
  <2>5. Range(a) \subseteq Range(b)
    BY <1>4, <1>8, <2>4 DEF Range
  <2> QED
    BY <1>4, <2>2, <2>3, <2>5, Zenon DEF applyError
<1>11. /\ u.Number = header.number
       /\ u.Validators = IF isEpoch(header.number) THEN header.validators ELSE s.Validators
       /\ DOMAIN u.Recents =
             {n \in DOMAIN s.Recents \cup {header.number} :
                 /\ n > header.number - Limit(s.Validators)
                 /\ n > header.number - Limit(u.Validators)}
       /\ \A n \in DOMAIN u.Recents :
             u.Recents[n] = IF n = header.number THEN header.signer ELSE s.Recents[n]
  BY <1>1, <1>2, <1>4, ApplyWindow
<1>12. /\ v.Validators = IF isEpoch(header.number) THEN header.validators ELSE r.Validators
       /\ DOMAIN v.Recents =
             {n \in DOMAIN r.Recents \cup {header.number} :
                 /\ n > header.number - Limit(r.Validators)
                 /\ n > header.number - Limit(v.Validators)}
       /\ \A n \in DOMAIN v.Recents :
             v.Recents[n] = IF n = header.number THEN header.signer ELSE r.Recents[n]
  BY <1>2, <1>3, <1>5, ApplyWindow
<1>13. IsSnapshot(u) /\ u.Hash = h
  BY <1>1, <1>2, ApplyIsSnapshot, Zenon
<1>14. u.Validators = v.Validators
  BY <1>4, <1>11, <1>12, Zenon
<1>15. u.Recents = Known(v.Recents, base)
  <2>1. DOMAIN u.Recents = {n \in DOMAIN v.Recents : n > base}
    <3>1. header.number > base /\ header.number \in Nat
      BY <1>2, <1>7
    <3> QED
      BY <1>4, <1>7, <1>8, <1>11, <1>12, <1>14, <3>1, Zenon
  <2>2. \A n \in DOMAIN u.Recents : u.Recents[n] = v.Recents[n]
    <3> SUFFICES ASSUME NEW n \in DOMAIN u.Recents PROVE u.Recents[n] = v.Recents[n]
      BY Zenon
    <3>1. n \in DOMAIN v.Recents /\ (n = header.number \/ n \in DOMAIN s.Recents)
      BY <1>11, <2>1, Zenon
    <3> QED
      BY <3>1, <1>8, <1>11, <1>12, Zenon
  <2>3. u.Recents = [n \in DOMAIN u.Recents |-> u.Recents[n]]
    BY <1>13, Zenon DEF IsSnapshot
  <2>4. Known(v.Recents, base) = [n \in {n \in DOMAIN v.Recents : n > base} |-> v.Recents[n]]
    BY KnownFacts, ZenonT(30)
  <2> QED
    BY <2>1, <2>2, <2>3, <2>4, Zenon
<1>16. base \in BasesIn(T, h)
  BY <1>1, <1>6, BasesOfChild, Zenon
<1>17. SoundIn(T, u)
  BY <1>1, <1>2, <1>11, <1>13, <1>14, <1>15, <1>16, Zenon DEF SoundIn
<1> QED
  BY <1>1, <1>10, <1>13, <1>17, Zenon


-----------------------------------------------------------------------------
(***************************************************************************)
(* apply, on the headers that a walk back through the tree gathers.        *)
(***************************************************************************)

Headers == {Tree[h] : h \in Hashes \ {Genesis}}

\* A header of the tree, its number and its parent.
LEMMA HeaderFacts ==
    ASSUME NEW g \in Headers
    PROVE  /\ g.hash \in Hashes \ {Genesis} /\ g = Tree[g.hash]
           /\ g.parentHash \in Hashes /\ g.number = Num(g.hash)
           /\ Num(g.hash) \in Nat /\ Num(g.parentHash) \in Nat
           /\ Num(g.hash) = Num(g.parentHash) + 1
BY TreeAssumption DEF Headers, Num

\* Headers in the order they are gathered: each one is the child of the next, and the last
\* one is a child of hash.
Downward(hs, hash) ==
    /\ hs \in Seq(Headers)
    /\ hash \in Hashes
    /\ Len(hs) > 0 => hs[Len(hs)].parentHash = hash
    /\ \A i \in 1 .. Len(hs) - 1 : hs[i].parentHash = hs[i + 1].hash

Upward(hs, hash) ==
    /\ hs \in Seq(Headers)
    /\ hash \in Hashes
    /\ Len(hs) > 0 => hs[1].parentHash = hash
    /\ \A i \in 2 .. Len(hs) : hs[i].parentHash = hs[i - 1].hash

\* The swaps turn the gathered headers into a path up.
LEMMA ReverseUpward ==
    ASSUME NEW hs, NEW hash, Downward(hs, hash), NEW up, up = Reverse(hs)
    PROVE  Upward(up, hash)
<1>1. hs \in Seq(Headers) /\ hash \in Hashes
  BY Zenon DEF Downward
<1>2. PICK n \in Nat : n = Len(hs)
  BY <1>1
<1>3. up = [i \in 1 .. n |-> hs[(n - i) + 1]]
  BY <1>1, <1>2 DEF Reverse
<1>4. up \in Seq(Headers) /\ Len(up) = n
  BY <1>1, <1>2, <1>3
<1>5. n > 0 => up[1].parentHash = hash
  <2>1. n > 0 => up[1] = hs[n]
    BY <1>3
  <2> QED
    BY <1>2, <2>1, Zenon DEF Downward
<1>6. ASSUME NEW i \in 2 .. n PROVE up[i].parentHash = up[i - 1].hash
  <2>1. PICK j : j = (n - i) + 1
    BY Zenon
  <2>2. j \in 1 .. n - 1 /\ up[i] = hs[j] /\ up[i - 1] = hs[j + 1]
    BY <1>3, <2>1
  <2>3. hs[j].parentHash = hs[j + 1].hash
    BY <1>2, <2>2, Zenon DEF Downward
  <2> QED
    BY <2>2, <2>3, Zenon
<1> QED
  BY <1>1, <1>4, <1>5, <1>6, Zenon DEF Upward

\* One more header gathered continues the path down.
LEMMA GatherDownward ==
    ASSUME NEW hs, NEW hash, Downward(hs, hash), hash # Genesis,
           NEW more, more = Append(hs, Tree[hash])
    PROVE  Downward(more, Tree[hash].parentHash)
<1>1. /\ hs \in Seq(Headers) /\ hash \in Hashes /\ Tree[hash] \in Headers
      /\ Len(hs) > 0 => hs[Len(hs)].parentHash = hash
      /\ \A i \in 1 .. Len(hs) - 1 : hs[i].parentHash = hs[i + 1].hash
  BY Zenon DEF Downward, Headers
<1>2. Tree[hash].parentHash \in Hashes /\ Tree[hash].hash = hash
  BY <1>1, TreeAssumption, Zenon
<1>3. PICK n \in Nat, g \in Headers : n = Len(hs) /\ g = Tree[hash]
  BY <1>1
<1>4. /\ more \in Seq(Headers) /\ Len(more) = n + 1 /\ more[n + 1] = g
      /\ \A i \in 1 .. n : more[i] = hs[i]
  BY <1>1, <1>3
<1>5. more[Len(more)].parentHash = Tree[hash].parentHash
  BY <1>3, <1>4, Zenon
<1>6. ASSUME NEW i \in 1 .. Len(more) - 1 PROVE more[i].parentHash = more[i + 1].hash
  <2>1. CASE i = n
    BY <1>1, <1>2, <1>3, <1>4, <2>1
  <2>2. CASE i # n
    <3>1. i \in 1 .. n - 1 /\ i + 1 \in 1 .. n
      BY <1>4, <2>2
    <3> QED
      BY <1>1, <1>3, <1>4, <3>1
  <2> QED
    BY <2>1, <2>2, Zenon
<1> QED
  BY <1>2, <1>4, <1>5, <1>6, Zenon DEF Downward

\* The only thing that may be wrong with such headers is that they do not start at the
\* block of the snapshot.
LEMMA SequenceResult ==
    ASSUME NEW s, NEW hs, NEW hash, Upward(hs, hash), s.Number = Num(hash)
    PROVE  \/ sequenceError(s, hs) = errBlockHashInconsistent /\ s.Hash # hash
           \/ /\ sequenceError(s, hs) = OK
              /\ Len(hs) > 0 => hs[1].parentHash = s.Hash
<1> DEFINE before(i) == IF i = 1 THEN [number |-> s.Number, hash |-> s.Hash] ELSE hs[i - 1]
           badNumber == {i \in DOMAIN hs : hs[i].number # before(i).number + 1}
           badHash == {i \in DOMAIN hs : hs[i].parentHash # before(i).hash}
           later == (badNumber \cup badHash) \ {1}
           first == IF later = {} THEN 1 ELSE CHOOSE i \in later : \A j \in later : i <= j
<1>1. /\ hs \in Seq(Headers) /\ hash \in Hashes
      /\ Len(hs) > 0 => hs[1].parentHash = hash
      /\ \A i \in 2 .. Len(hs) : hs[i].parentHash = hs[i - 1].hash
  BY Zenon DEF Upward
<1>2. DOMAIN hs = 1 .. Len(hs) /\ Len(hs) \in Nat
  BY <1>1
<1>3. ASSUME NEW i \in DOMAIN hs
      PROVE  hs[i].number = before(i).number + 1 /\ (i # 1 => hs[i].parentHash = before(i).hash)
  <2>1. hs[i] \in Headers
    BY <1>1
  <2>2. PICK g \in Headers : g = hs[i]
    BY <2>1, Zenon
  <2>3. /\ g.number = Num(g.hash) /\ Num(g.hash) = Num(g.parentHash) + 1
    BY <2>2, HeaderFacts, Zenon
  <2>4. CASE i = 1
    <3>1. g.parentHash = hash
      BY <1>1, <1>2, <2>2, <2>4
    <3> QED
      BY <2>2, <2>3, <2>4, <3>1, Zenon
  <2>5. CASE i # 1
    <3>1. hs[i - 1] \in Headers /\ hs[i].parentHash = hs[i - 1].hash
      BY <1>1, <1>2, <2>5
    <3>2. PICK k \in Headers : k = hs[i - 1]
      BY <3>1, Zenon
    <3>3. k.number = Num(k.hash) /\ g.parentHash = k.hash
      BY <2>2, <3>1, <3>2, HeaderFacts, Zenon
    <3> QED
      BY <2>2, <2>3, <2>5, <3>2, <3>3, Zenon
  <2> QED
    BY <2>4, <2>5, Zenon
<1>4. badNumber = {} /\ later = {}
  BY <1>3, Zenon
<1>5. first = 1
  BY <1>4, Zenon
<1>6. sequenceError(s, hs) = IF first \in badNumber THEN errOutOfRangeChain
                             ELSE IF first \in badHash THEN errBlockHashInconsistent
                             ELSE OK
  BY Zenon DEF sequenceError
<1>7. 1 \notin badHash => (Len(hs) > 0 => hs[1].parentHash = s.Hash)
  BY <1>2
<1>8. 1 \in badHash => s.Hash # hash
  <2>1. 1 \in DOMAIN hs => Len(hs) > 0
    BY <1>2
  <2> QED
    BY <1>1, <2>1, Zenon
<1> HIDE DEF first, badNumber, badHash
<1> QED
  BY <1>4, <1>5, <1>6, <1>7, <1>8, Zenon


\* The results of apply's loop.
LoopBody(s, hs, f, i) ==
    IF i = 0 THEN [err |-> OK, snap |-> s] ELSE applyNext(f[i - 1], hs[i])

\* The loop of apply has a result after every header.
LEMMA LoopExists ==
    ASSUME NEW s, NEW hs, NEW n \in Nat
    PROVE  \E f : f = [i \in 0 .. n |-> LoopBody(s, hs, f, i)]
<1> DEFINE Bad == {k \in Nat : ~ \E f : f = [i \in 0 .. k |-> LoopBody(s, hs, f, i)]}
<1> SUFFICES ASSUME Bad # {} PROVE FALSE
  BY Zenon
<1>1. PICK k \in Bad : \A j \in Bad : k <= j
  <2>1. Bad \in SUBSET Nat
    BY Zenon
  <2> HIDE DEF Bad
  <2> QED
    BY <2>1, LeastNatural, Zenon
<1>2. CASE k = 0
  <2> DEFINE f == [i \in 0 .. 0 |-> [err |-> OK, snap |-> s]]
  <2>1. f = [i \in 0 .. 0 |-> LoopBody(s, hs, f, i)]
    BY DEF LoopBody
  <2> QED
    BY <1>1, <1>2, <2>1, Zenon
<1>3. CASE k # 0
  <2>1. k - 1 \in Nat /\ k - 1 \notin Bad
    BY <1>1, <1>3
  <2>2. PICK f : f = [i \in 0 .. k - 1 |-> LoopBody(s, hs, f, i)]
    BY <2>1, Zenon
  <2> DEFINE g == [i \in 0 .. k |-> IF i = k THEN LoopBody(s, hs, f, k) ELSE f[i]]
  <2>3. \A i \in 0 .. k : g[i] = LoopBody(s, hs, g, i)
    <3> TAKE i \in 0 .. k
    <3>1. i # 0 => i - 1 \in 0 .. k - 1 /\ g[i - 1] = f[i - 1]
      BY <1>1
    <3>2. LoopBody(s, hs, g, i) = LoopBody(s, hs, f, i)
      <4> HIDE DEF g
      <4> QED
        BY <3>1, ZenonT(30) DEF LoopBody
    <3>3. g[i] = IF i = k THEN LoopBody(s, hs, f, k) ELSE f[i]
      BY Zenon
    <3>4. i # k => f[i] = LoopBody(s, hs, f, i)
      <4>1. i # k => i \in 0 .. k - 1
        BY <1>1
      <4> QED
        BY <2>2, <4>1, Zenon
    <3> HIDE DEF g
    <3> QED
      BY <3>2, <3>3, <3>4, Zenon
  <2>4. g = [i \in 0 .. k |-> LoopBody(s, hs, g, i)]
    <3>1. g = [i \in 0 .. k |-> g[i]]
      BY Zenon
    <3> HIDE DEF g
    <3> QED
      BY <2>3, <3>1, Zenon
  <2> HIDE DEF g
  <2> QED
    BY <1>1, <2>4, Zenon
<1> QED
  BY <1>2, <1>3, Zenon

\* apply on a sound snapshot and on headers of the tree: either the headers start at
\* another block, or none is rejected and the result is a sound snapshot.
LEMMA ApplySound ==
    ASSUME NEW T \in SUBSET Hashes, NEW s, SoundIn(T, s),
           NEW hs, NEW hash, Upward(hs, hash), s.Number = Num(hash),
           NEW r, r = apply(s, hs)
    PROVE  \/ r.err = errBlockHashInconsistent /\ s.Hash # hash
           \/ r.err = OK /\ SoundIn(T, r.snap)
<1>1. CASE sequenceError(s, hs) = errBlockHashInconsistent /\ s.Hash # hash
  BY <1>1, ZenonT(30) DEF apply, errBlockHashInconsistent, OK
<1>2. CASE sequenceError(s, hs) = OK /\ (Len(hs) > 0 => hs[1].parentHash = s.Hash)
  <2>1. PICK n \in Nat : n = Len(hs)
    BY DEF Upward
  <2> DEFINE after == CHOOSE f : f = [i \in 0 .. n |-> LoopBody(s, hs, f, i)]
  <2>2. r = after[n]
    BY <1>2, <2>1, Zenon DEF apply, LoopBody
  <2>3. after = [i \in 0 .. n |-> LoopBody(s, hs, after, i)]
    <3>1. PICK g : g = [i \in 0 .. n |-> LoopBody(s, hs, g, i)]
      BY LoopExists, Zenon
    <3> QED
      BY <3>1, Zenon
  <2>4. PICK a : a = after
    BY Zenon
  <2> HIDE DEF after
  <2>5. \A i \in 0 .. n : a[i] = IF i = 0 THEN [err |-> OK, snap |-> s]
                                ELSE applyNext(a[i - 1], hs[i])
    BY <2>3, <2>4, Zenon DEF LoopBody
  <2> DEFINE Good(i) == /\ a[i].err = OK /\ SoundIn(T, a[i].snap)
                        /\ i < n => hs[i + 1].parentHash = a[i].snap.Hash
             Bad == {i \in 0 .. n : ~Good(i)}
  <2>6. Bad = {}
    <3> SUFFICES ASSUME Bad # {} PROVE FALSE
      BY Zenon
    <3>1. PICK k \in Bad : \A j \in Bad : k <= j
      <4>1. Bad \in SUBSET Nat
        OBVIOUS
      <4> HIDE DEF Bad
      <4> QED
        BY <4>1, LeastNatural, Zenon
    <3>2. CASE k = 0
      <4>1. a[0] = [err |-> OK, snap |-> s]
        BY <2>5
      <4>2. 0 < n => hs[0 + 1].parentHash = s.Hash
        BY <1>2, <2>1
      <4> QED
        BY <3>1, <3>2, <4>1, <4>2
    <3>3. CASE k # 0
      <4>1. k - 1 \in 0 .. n /\ k \in 1 .. n /\ k - 1 \notin Bad /\ k - 1 < n
        BY <3>1, <3>3
      <4>2. PICK b, c, g : b = a[k - 1] /\ c = a[k] /\ g = hs[k]
        BY Zenon
      <4>3. b.err = OK /\ SoundIn(T, b.snap) /\ g.parentHash = b.snap.Hash
        <5>1. Good(k - 1)
          BY <4>1, Zenon
        <5>2. hs[(k - 1) + 1] = g
          BY <4>1, <4>2
        <5> QED
          BY <4>1, <4>2, <5>1, <5>2, Zenon
      <4>4. c = [err |-> applyError(b.snap, g), snap |-> applyHeader(b.snap, g)]
        BY <2>5, <3>3, <4>1, <4>2, <4>3, Zenon DEF applyNext
      <4>5. g \in Headers
        BY <2>1, <4>1, <4>2 DEF Upward
      <4>6. PICK h : h = g.hash
        BY Zenon
      <4>7. h \in Hashes \ {Genesis} /\ g = Tree[h]
        BY <4>5, <4>6, HeaderFacts, Zenon
      <4>8. PICK t, u : t = b.snap /\ u = c.snap
        BY Zenon
      <4>9. SoundIn(T, t) /\ Tree[h].parentHash = t.Hash /\ u = applyHeader(t, Tree[h])
        BY <4>3, <4>4, <4>7, <4>8, Zenon
      <4>10. applyError(t, Tree[h]) = OK /\ SoundIn(T, u) /\ u.Hash = h
        BY <4>7, <4>9, SoundStep
      <4>11. c.err = OK
        BY <4>4, <4>7, <4>8, <4>10, Zenon
      <4>12. k < n => hs[k + 1].parentHash = u.Hash
        <5>1. k < n => k + 1 \in 2 .. Len(hs) /\ (k + 1) - 1 = k
          BY <2>1, <4>1
        <5>2. k < n => hs[k + 1].parentHash = hs[(k + 1) - 1].hash
          BY <5>1, Zenon DEF Upward
        <5> QED
          BY <4>2, <4>6, <4>10, <5>1, <5>2, Zenon
      <4> QED
        BY <3>1, <4>2, <4>8, <4>10, <4>11, <4>12, Zenon
    <3> QED
      BY <3>2, <3>3, Zenon
  <2>7. Good(n)
    BY <2>6
  <2> QED
    BY <2>2, <2>4, <2>7, Zenon
<1> QED
  BY <1>1, <1>2, SequenceResult, Zenon


-----------------------------------------------------------------------------
(***************************************************************************)
(* The inductive invariant.                                                *)
(***************************************************************************)

\* The calls of snapshot(): the block looked for is the parent of the last header
\* gathered; the snapshot found is sound and at the height of that block.
Searching(k) ==
    /\ k.pc \in {"lookup", "trust"}
    /\ k = [pc |-> k.pc, number |-> k.number, hash |-> k.hash,
            headers |-> k.headers, parents |-> k.parents]
    /\ k.number = Num(k.hash)
    /\ Downward(k.headers, k.hash)
    /\ k.parents \in Seq(Headers)
    /\ k.pc = "trust" => isEpoch(k.number)

\* OtherBranch, for any set of trusted blocks.
OtherIn(T, base, hash) ==
    base # hash /\ base \in T /\ isEpoch(Num(hash)) /\ Num(base) = Num(hash)

Applying(T, k) ==
    /\ k.pc = "apply"
    /\ SoundIn(T, k.snap)
    /\ Downward(k.headers, k.hash) /\ k.snap.Number = Num(k.hash)
    /\ k.snap.Hash = k.hash \/ OtherIn(T, k.snap.Hash, k.hash)

FailureOf(k) == k.pc = "failed" /\ k.err \in {ErrUnknownAncestor, ErrDatabase}

Rejection(T, k) ==
    k.pc = "rejected" /\ k.err = errBlockHashInconsistent /\ OtherIn(T, k.base, k.hash)

GoodCall(T, k) ==
    k.pc = "idle" \/ FailureOf(k) \/ Rejection(T, k) \/ Searching(k) \/ Applying(T, k)

GoodCalls(T, calls) ==
    /\ calls = [c \in Callers |-> calls[c]]
    /\ \A c \in Callers : GoodCall(T, calls[c])

\* The cache and the database: sound snapshots, filed under their own block.
Filed(T, m) == \A h \in DOMAIN m : m[h].Hash = h /\ SoundIn(T, m[h])

\* The canonical chain names blocks of the right height, and always the genesis.
CanonOK(C) ==
    /\ C = [n \in DOMAIN C |-> C[n]]
    /\ DOMAIN C \subseteq Nat /\ 0 \in DOMAIN C
    /\ \A n \in DOMAIN C : C[n] \in Hashes /\ Num(C[n]) = n

StoreInv ==
    /\ node \in Nodes
    /\ stored \subseteq Hashes
    /\ trusted \subseteq Hashes
    /\ CanonOK(canon)
    /\ Filed(trusted, recents)
    /\ Filed(trusted, disk)
    /\ GoodCalls(trusted, call)


\* A call stays good when another one trusts a block.
LEMMA GoodCallGrows ==
    ASSUME NEW T, NEW U, T \subseteq U, NEW k, GoodCall(T, k)
    PROVE  GoodCall(U, k)
<1>1. Applying(T, k) => Applying(U, k)
  BY SoundGrows, Zenon DEF Applying, OtherIn
<1>2. Rejection(T, k) => Rejection(U, k)
  BY Zenon DEF Rejection, OtherIn
<1> QED
  BY <1>1, <1>2, Zenon DEF GoodCall

\* A cache stays sound when a block is trusted.
LEMMA FiledGrows ==
    ASSUME NEW T, NEW U, T \subseteq U, NEW m, Filed(T, m)
    PROVE  Filed(U, m)
BY SoundGrows, Zenon DEF Filed

\* One call makes a step, and maybe trusts a block.
LEMMA CallsUpdated ==
    ASSUME NEW T, NEW U, T \subseteq U, NEW calls, GoodCalls(T, calls),
           NEW c \in Callers, NEW k, GoodCall(U, k),
           NEW next, next = [calls EXCEPT ![c] = k]
    PROVE  GoodCalls(U, next)
<1>1. calls = [d \in Callers |-> calls[d]] /\ \A d \in Callers : GoodCall(T, calls[d])
  BY Zenon DEF GoodCalls
<1>2. \A d \in Callers : GoodCall(U, calls[d])
  BY <1>1, GoodCallGrows, Zenon
<1>3. next = [d \in Callers |-> IF d = c THEN k ELSE calls[d]]
  BY <1>1, Zenon
<1>4. \A d \in Callers : GoodCall(U, next[d])
  BY <1>2, <1>3, Zenon
<1> QED
  BY <1>3, <1>4, Zenon DEF GoodCalls

\* A sound snapshot is filed under its hash.
LEMMA PutFiled ==
    ASSUME NEW T, NEW m, Filed(T, m), NEW s, SoundIn(T, s), NEW n, n = Put(m, s.Hash, s)
    PROVE  Filed(T, n)
<1>1. /\ DOMAIN n = DOMAIN m \cup {s.Hash}
      /\ \A h \in DOMAIN n : n[h] = IF h = s.Hash THEN s ELSE m[h]
  BY Zenon DEF Put
<1> QED
  BY <1>1, Zenon DEF Filed

\* An eviction leaves sound entries.
LEMMA RestrictFiled ==
    ASSUME NEW T, NEW m, Filed(T, m), NEW kept \in SUBSET DOMAIN m,
           NEW n, n = Restrict(m, kept)
    PROVE  Filed(T, n)
<1>1. DOMAIN n = kept /\ \A h \in kept : n[h] = m[h]
  BY Zenon DEF Restrict
<1> QED
  BY <1>1, Zenon DEF Filed

\* Whatever the cache evicts for a sound snapshot, it stays sound.
LEMMA CacheFiled ==
    ASSUME NEW T, Filed(T, recents), NEW s, SoundIn(T, s), NEW n, n \in CacheAfterAdd(s)
    PROVE  Filed(T, n)
<1>1. PICK full : full = Put(recents, s.Hash, s)
  BY Zenon
<1>2. PICK kept \in SUBSET DOMAIN full : n = Restrict(full, kept)
  BY <1>1, Zenon DEF CacheAfterAdd
<1>3. Filed(T, full)
  BY <1>1, PutFiled, Zenon
<1> QED
  BY <1>2, <1>3, RestrictFiled, Zenon

-----------------------------------------------------------------------------
(***************************************************************************)
(* Every step keeps the invariant.                                         *)
(***************************************************************************)

\* A node starts with an empty cache and database and no call.
LEMMA StoreInvInit == StoreInit => StoreInv
<1> SUFFICES ASSUME StoreInit PROVE StoreInv
  BY Zenon
<1>1. node \in Nodes /\ FirstHeader \in Nat \ {0}
  BY NodesAssumption, Zenon DEF StoreInit, FirstHeader
<1>2. PICK h \in Hashes :
         /\ Num(h) = FirstHeader
         /\ stored = {Genesis, h}
         /\ canon = [n \in {0, FirstHeader} |-> IF n = 0 THEN Genesis ELSE h]
  BY Zenon DEF StoreInit
<1>3. CanonOK(canon)
  BY <1>1, <1>2, TreeAssumption, Zenon DEF CanonOK
<1>4. Filed(trusted, recents) /\ Filed(trusted, disk)
  <2>1. DOMAIN recents = {} /\ DOMAIN disk = {}
    BY Zenon DEF StoreInit
  <2> QED
    BY <2>1, Zenon DEF Filed
<1>5. GoodCalls(trusted, call)
  <2>1. call = [c \in Callers |-> Idle] /\ Idle.pc = "idle"
    BY Zenon DEF StoreInit, Idle
  <2> QED
    BY <2>1, Zenon DEF GoodCalls, GoodCall
<1>6. stored \subseteq Hashes /\ trusted \subseteq Hashes
  BY <1>2, TreeAssumption, Zenon DEF StoreInit
<1> QED
  BY <1>1, <1>3, <1>4, <1>5, <1>6, Zenon DEF StoreInv

\* A header is written.
LEMMA StoreHeaderInv ==
    ASSUME StoreInv, StoreHeader PROVE StoreInv'
<1>1. stored' \subseteq Hashes
  BY Zenon DEF StoreHeader, StoreInv
<1>2. UNCHANGED <<node, canon, recents, disk, trusted, call>>
  BY Zenon DEF StoreHeader
<1> QED
  BY <1>1, <1>2, Zenon DEF StoreInv

\* A canonical hash is written under its height.
LEMMA CanonPut ==
    ASSUME NEW C, CanonOK(C), NEW h \in Hashes, NEW D, D = Put(C, Num(h), h)
    PROVE  CanonOK(D)
<1>1. Num(h) \in Nat
  BY TreeAssumption, Zenon
<1>2. D = [n \in DOMAIN C \cup {Num(h)} |-> IF n = Num(h) THEN h ELSE C[n]]
  BY Zenon DEF Put
<1> HIDE DEF Num
<1> QED
  BY <1>1, <1>2 DEF CanonOK

\* Canonical hashes above a height are deleted.
LEMMA CanonCut ==
    ASSUME NEW C, CanonOK(C), NEW n \in Nat,
           NEW D, D = Restrict(C, {m \in DOMAIN C : m <= n})
    PROVE  CanonOK(D)
<1>1. D = [m \in {m \in DOMAIN C : m <= n} |-> C[m]]
  BY Zenon DEF Restrict
<1>2. /\ DOMAIN C \subseteq Nat /\ 0 \in DOMAIN C
      /\ \A m \in DOMAIN C : C[m] \in Hashes /\ Num(C[m]) = m
  BY Zenon DEF CanonOK
<1>3. DOMAIN D = {m \in DOMAIN C : m <= n} /\ \A m \in DOMAIN D : D[m] = C[m]
  BY <1>1, Zenon
<1>4. 0 \in DOMAIN D
  BY <1>2, <1>3
<1>5. D = [m \in DOMAIN D |-> D[m]]
  BY <1>1, Zenon
<1> QED
  BY <1>2, <1>3, <1>4, <1>5, Zenon DEF CanonOK

\* The two writes of a reorganisation.
LEMMA CanonicalInv ==
    ASSUME StoreInv, WriteCanonical \/ DeleteCanonicalAbove PROVE StoreInv'
<1>1. CanonOK(canon) /\ DOMAIN canon \subseteq Nat
  BY Zenon DEF StoreInv, CanonOK
<1>2. CanonOK(canon')
  <2>1. CASE WriteCanonical
    BY <1>1, <2>1, CanonPut, Zenon DEF WriteCanonical, StoreInv
  <2>2. CASE DeleteCanonicalAbove
    BY <1>1, <2>2, CanonCut, Zenon DEF DeleteCanonicalAbove
  <2> QED
    BY <2>1, <2>2, Zenon
<1>3. UNCHANGED <<node, stored, recents, disk, trusted, call>>
  BY Zenon DEF WriteCanonical, DeleteCanonicalAbove
<1> QED
  BY <1>2, <1>3, Zenon DEF StoreInv

\* A rewind.
LEMMA SetHeadInv ==
    ASSUME StoreInv, SetHead PROVE StoreInv'
<1>1. CanonOK(canon) /\ DOMAIN canon \subseteq Nat
  BY Zenon DEF StoreInv, CanonOK
<1>2. CanonOK(canon')
  BY <1>1, CanonCut, Zenon DEF SetHead
<1>3. stored' \subseteq Hashes
  BY Zenon DEF SetHead, StoreInv
<1>4. UNCHANGED <<node, recents, disk, trusted, call>>
  BY Zenon DEF SetHead
<1> QED
  BY <1>2, <1>3, <1>4, Zenon DEF StoreInv

\* A restart empties the cache and ends all calls.
LEMMA RestartInv ==
    ASSUME StoreInv, Restart PROVE StoreInv'
<1>1. UNCHANGED <<node, stored, canon, disk, trusted>>
  BY Zenon DEF Restart
<1>2. Filed(trusted, recents')
  <2>1. DOMAIN recents' = {}
    BY Zenon DEF Restart
  <2> QED
    BY <2>1, Zenon DEF Filed
<1>3. GoodCalls(trusted, call')
  <2>1. call' = [c \in Callers |-> Idle] /\ Idle.pc = "idle"
    BY Zenon DEF Restart, Idle
  <2> QED
    BY <2>1, Zenon DEF GoodCalls, GoodCall
<1> QED
  BY <1>1, <1>2, <1>3, Zenon DEF StoreInv


\* A call begins: with a block of the tree, and headers of it as parents.
LEMMA StartInv ==
    ASSUME StoreInv, NEW c \in Callers, NEW target \in Hashes, NEW parents \in Seq(Headers),
           Start(c, target, parents)
    PROVE  StoreInv'
<1>1. PICK k : k = [pc |-> "lookup", number |-> Num(target), hash |-> target,
                    headers |-> << >>, parents |-> parents]
  BY Zenon
<1>2. call' = [call EXCEPT ![c] = k] /\ UNCHANGED <<node, stored, canon, recents, disk, trusted>>
  BY <1>1, Zenon DEF Start
<1>3. Downward(<< >>, target)
  BY DEF Downward
<1>4. Searching(k)
  <2>1. /\ k.pc = "lookup" /\ k.number = Num(target) /\ k.hash = target
        /\ k.headers = << >> /\ k.parents = parents
    BY <1>1, Zenon
  <2>2. k = [pc |-> k.pc, number |-> k.number, hash |-> k.hash,
             headers |-> k.headers, parents |-> k.parents]
    BY <1>1, Zenon
  <2> QED
    BY <1>3, <2>1, <2>2, Zenon DEF Searching
<1>5. GoodCall(trusted, k)
  BY <1>4, Zenon DEF GoodCall
<1>6. GoodCalls(trusted, call')
  BY <1>2, <1>5, CallsUpdated, Zenon DEF StoreInv
<1> QED
  BY <1>2, <1>6, Zenon DEF StoreInv

\* The batch that VerifyHeaders passes along consists of headers of the tree.
LEMMA BatchOfHeaders ==
    ASSUME NEW h \in Hashes, NEW b \in Ancestors[h],
           NEW batch, batch = [i \in 1 .. Num(h) - Num(b) |->
                                  Tree[CHOOSE a \in Ancestors[h] : Num(a) = Num(b) + i]]
    PROVE  batch \in Seq(Headers)
<1>1. Num(h) \in Nat /\ Num(b) \in Nat /\ Num(b) <= Num(h) /\ b \in Hashes
  BY AncestorFacts, TreeAssumption, Zenon
<1>2. PICK n \in Nat : n = Num(h) - Num(b)
  BY <1>1
<1>3. ASSUME NEW i \in 1 .. n
      PROVE  Tree[CHOOSE a \in Ancestors[h] : Num(a) = Num(b) + i] \in Headers
  <2>1. PICK m : m = Num(b) + i
    BY Zenon
  <2>2. m \in 0 .. Num(h) /\ m # 0
    BY <1>1, <1>2, <2>1
  <2>3. \E a \in Ancestors[h] : Num(a) = m
    BY <2>2, AncestorFacts, Zenon
  <2>4. PICK a : a = CHOOSE e \in Ancestors[h] : Num(e) = m
    BY Zenon
  <2>5. a \in Ancestors[h] /\ Num(a) = m
    BY <2>3, <2>4, Zenon
  <2>6. a \in Hashes /\ a # Genesis
    BY <2>2, <2>5, AncestorFacts, TreeAssumption, Zenon
  <2>7. Tree[a] \in Headers
    BY <2>6, Zenon DEF Headers
  <2> QED
    BY <2>1, <2>4, <2>7, Zenon
<1>4. batch = [i \in 1 .. n |-> Tree[CHOOSE a \in Ancestors[h] : Num(a) = Num(b) + i]]
  BY <1>2, Zenon
<1>5. batch = [i \in 1 .. n |-> batch[i]] /\ \A i \in 1 .. n : batch[i] \in Headers
  BY <1>3, <1>4, Zenon
<1>6. batch \in [1 .. n -> Headers]
  BY <1>5, Zenon
<1> QED
  BY <1>6, SeqDef, ZenonT(30)

\* A call starts at the block it is asked for.
LEMMA CallInv ==
    ASSUME StoreInv, NEW c \in Callers,
           GetSnapshot(c) \/ GetSnapshotAtHash(c) \/ VerifyHeaders(c)
    PROVE  StoreInv'
<1>1. << >> \in Seq(Headers) /\ stored \subseteq Hashes
  BY DEF StoreInv
<1>2. CASE GetSnapshot(c)
  <2>1. PICK n \in DOMAIN canon : Start(c, canon[n], << >>)
    BY <1>2, Zenon DEF GetSnapshot
  <2>2. canon[n] \in Hashes
    BY <2>1, Zenon DEF StoreInv, CanonOK
  <2> QED
    BY <1>1, <2>1, <2>2, StartInv, Zenon
<1>3. CASE GetSnapshotAtHash(c)
  <2>1. PICK h \in stored : Start(c, h, << >>)
    BY <1>3, Zenon DEF GetSnapshotAtHash
  <2> QED
    BY <1>1, <2>1, StartInv, Zenon
<1>4. CASE VerifyHeaders(c)
  <2>1. PICK h \in Hashes : \E b \in stored \cap (Ancestors[h] \ {h}) :
           Start(c, h, [i \in 1 .. Num(h) - Num(b) |->
                           Tree[CHOOSE a \in Ancestors[h] : Num(a) = Num(b) + i]])
    BY <1>4, Zenon DEF VerifyHeaders
  <2>5. PICK b \in Ancestors[h] :
           Start(c, h, [i \in 1 .. Num(h) - Num(b) |->
                           Tree[CHOOSE a \in Ancestors[h] : Num(a) = Num(b) + i]])
    BY <2>1, Zenon
  <2>2. PICK batch : batch = [i \in 1 .. Num(h) - Num(b) |->
                                 Tree[CHOOSE a \in Ancestors[h] : Num(a) = Num(b) + i]]
    BY ZenonT(30)
  <2>3. batch \in Seq(Headers)
    BY <2>2, <2>5, BatchOfHeaders, Zenon
  <2>4. Start(c, h, batch)
    BY <2>2, <2>5, Zenon
  <2> QED
    BY <2>3, <2>4, StartInv, Zenon
<1> QED
  BY <1>2, <1>3, <1>4, Zenon


\* A search that fails does so with one of two errors.
LEMMA FailInv ==
    ASSUME StoreInv, NEW c \in Callers,
           NEW err \in {ErrUnknownAncestor, ErrDatabase}, Fail(c, err)
    PROVE  GoodCalls(trusted, call')
<1>1. PICK k : k = [pc |-> "failed", err |-> err]
  BY ZenonT(30)
<1>2. call' = [call EXCEPT ![c] = k]
  BY <1>1, Zenon DEF Fail
<1>3. GoodCall(trusted, k)
  BY <1>1, Zenon DEF GoodCall, FailureOf
<1> QED
  BY <1>2, <1>3, CallsUpdated, Zenon DEF StoreInv

\* apply rejects headers only on top of another branch.
LEMMA RejectInv ==
    ASSUME StoreInv, NEW c \in Callers, OtherIn(trusted, call[c].snap.Hash, call[c].hash),
           Reject(c, errBlockHashInconsistent)
    PROVE  GoodCalls(trusted, call')
<1>1. PICK h, b : h = call[c].hash /\ b = call[c].snap.Hash
  BY Zenon
<1>2. PICK k : k = [pc |-> "rejected", err |-> errBlockHashInconsistent, hash |-> h, base |-> b]
  BY ZenonT(30)
<1>3. call' = [call EXCEPT ![c] = k]
  BY <1>1, <1>2, Zenon DEF Reject
<1>4. k.pc = "rejected" /\ k.err = errBlockHashInconsistent /\ k.hash = h /\ k.base = b
  BY <1>2, Zenon
<1>5. GoodCall(trusted, k)
  BY <1>1, <1>4, Zenon DEF GoodCall, Rejection
<1> QED
  BY <1>3, <1>5, CallsUpdated, Zenon DEF StoreInv

\* A sound snapshot is found: that of the block looked for, or one of its height that was
\* trusted.
LEMMA FoundInv ==
    ASSUME StoreInv, NEW c \in Callers, Searching(call[c]), NEW T, trusted \subseteq T,
           NEW s, SoundIn(T, s), s.Number = call[c].number,
           s.Hash = call[c].hash \/ OtherIn(T, s.Hash, call[c].hash), Found(c, s)
    PROVE  GoodCalls(T, call')
<1>1. PICK h, hs : h = call[c].hash /\ hs = call[c].headers
  BY Zenon
<1>2. PICK k : k = [pc |-> "apply", hash |-> h, snap |-> s, headers |-> hs]
  BY ZenonT(30)
<1>3. call' = [call EXCEPT ![c] = k]
  BY <1>1, <1>2, Zenon DEF Found
<1>4. k.pc = "apply" /\ k.hash = h /\ k.snap = s /\ k.headers = hs
  BY <1>2, Zenon
<1>5. Downward(hs, h) /\ s.Number = Num(h)
  BY <1>1, Zenon DEF Searching
<1>6. GoodCall(T, k)
  BY <1>1, <1>4, <1>5, Zenon DEF GoodCall, Applying
<1> QED
  BY <1>3, <1>6, CallsUpdated, Zenon DEF StoreInv

\* The next header is gathered: it is the one looked for.
LEMMA GatherInv ==
    ASSUME StoreInv, NEW c \in Callers, Searching(call[c]), call[c].number # 0, Gather(c)
    PROVE  GoodCalls(trusted, call')
<1>1. PICK k : k = call[c]
  BY Zenon
<1>2. /\ k = [pc |-> k.pc, number |-> k.number, hash |-> k.hash,
              headers |-> k.headers, parents |-> k.parents]
      /\ k.number = Num(k.hash) /\ Downward(k.headers, k.hash) /\ k.parents \in Seq(Headers)
      /\ k.hash \in Hashes /\ k.number # 0
  BY <1>1, Zenon DEF Searching, Downward
<1>3. k.hash # Genesis
  BY <1>2, TreeAssumption, Zenon
<1>4. ErrUnknownAncestor \in {ErrUnknownAncestor, ErrDatabase}
  BY Zenon
<1>5. CASE Fail(c, ErrUnknownAncestor)
  BY <1>4, <1>5, FailInv, Zenon
<1>6. ASSUME NEW rest \in Seq(Headers),
             call' = [call EXCEPT ![c] =
                 [pc |-> "lookup", number |-> @.number - 1, hash |-> Tree[k.hash].parentHash,
                  headers |-> Append(@.headers, Tree[k.hash]), parents |-> rest]]
      PROVE  GoodCalls(trusted, call')
  <2>1. PICK n, p, g, more : /\ n = k.number - 1 /\ g = Tree[k.hash] /\ p = g.parentHash
                             /\ more = Append(k.headers, g)
    BY Zenon
  <2>2. PICK next : next = [pc |-> "lookup", number |-> n, hash |-> p, headers |-> more,
                            parents |-> rest]
    BY ZenonT(30)
  <2>3. call' = [call EXCEPT ![c] = next]
    <3>1. call = [d \in Callers |-> call[d]]
      BY Zenon DEF StoreInv, GoodCalls
    <3> QED
      BY <1>1, <1>6, <2>1, <2>2, <3>1, Zenon
  <2>4. Downward(more, p)
    BY <1>2, <1>3, <2>1, GatherDownward, Zenon
  <2>5. n = Num(p)
    BY <1>2, <1>3, <2>1, ParentLevel
  <2>6. /\ next.pc = "lookup" /\ next.number = n /\ next.hash = p /\ next.headers = more
        /\ next.parents = rest
    BY <2>2, Zenon
  <2>7. Searching(next)
    <3>1. next = [pc |-> next.pc, number |-> next.number, hash |-> next.hash,
                  headers |-> next.headers, parents |-> next.parents]
      BY <2>2, Zenon
    <3> QED
      BY <2>4, <2>5, <2>6, <3>1, Zenon DEF Searching
  <2>8. GoodCall(trusted, next)
    BY <2>7, Zenon DEF GoodCall
  <2> QED
    BY <2>3, <2>8, CallsUpdated, Zenon DEF StoreInv
<1>7. CASE k.parents # << >>
  <2>1. PICK p, l, f : p = k.parents /\ l = p[Len(p)] /\ f = SubSeq(p, 1, Len(p) - 1)
    BY ZenonT(30)
  <2>2. p \in Seq(Headers) /\ p # << >>
    BY <1>2, <1>7, <2>1, Zenon
  <2>3. l \in Headers /\ f \in Seq(Headers)
    BY <2>1, <2>2
  <2>4. CASE l.hash = k.hash /\ l.number = k.number
    <3>1. l = Tree[k.hash]
      BY <2>3, <2>4, HeaderFacts, Zenon
    <3>2. call' = [call EXCEPT ![c] =
                 [pc |-> "lookup", number |-> @.number - 1, hash |-> l.parentHash,
                  headers |-> Append(@.headers, l), parents |-> f]]
      BY <1>1, <1>7, <2>1, <2>4, Zenon DEF Gather
    <3> QED
      BY <1>6, <2>3, <3>1, <3>2, Zenon
  <2>5. CASE ~(l.hash = k.hash /\ l.number = k.number)
    <3>1. Fail(c, ErrUnknownAncestor)
      BY <1>1, <1>7, <2>1, <2>5, Zenon DEF Gather
    <3> QED
      BY <3>1, <1>5, Zenon
  <2> QED
    BY <2>4, <2>5, Zenon
<1>8. CASE k.parents = << >>
  <2>1. CASE k.hash \in stored
    <3>1. call' = [call EXCEPT ![c] =
                 [pc |-> "lookup", number |-> @.number - 1, hash |-> Tree[k.hash].parentHash,
                  headers |-> Append(@.headers, Tree[k.hash]), parents |-> k.parents]]
      BY <1>1, <1>8, <2>1, Zenon DEF Gather
    <3> QED
      BY <1>2, <1>6, <3>1, Zenon
  <2>2. CASE k.hash \notin stored
    <3>1. Fail(c, ErrUnknownAncestor)
      BY <1>1, <1>8, <2>2, Zenon DEF Gather
    <3> QED
      BY <3>1, <1>5, Zenon
  <2> QED
    BY <2>1, <2>2, Zenon
<1> QED
  BY <1>7, <1>8, Zenon


\* What is known of a call at each place of snapshot().
LEMMA CallAt ==
    ASSUME StoreInv, NEW c \in Callers
    PROVE  /\ call[c].pc \in {"lookup", "trust"} => Searching(call[c])
           /\ call[c].pc = "apply" => Applying(trusted, call[c])
           /\ call[c].pc = "rejected" => Rejection(trusted, call[c])
<1>1. GoodCall(trusted, call[c])
  BY Zenon DEF StoreInv, GoodCalls
<1>2. PICK k : k = call[c]
  BY Zenon
<1>3. /\ FailureOf(k) => k.pc = "failed"
      /\ Searching(k) => k.pc \in {"lookup", "trust"}
      /\ Applying(trusted, k) => k.pc = "apply"
      /\ Rejection(trusted, k) => k.pc = "rejected"
  BY Zenon DEF FailureOf, Searching, Applying, Rejection
<1> HIDE DEF FailureOf, Searching, Applying, Rejection
<1> QED
  BY <1>1, <1>2, <1>3, Zenon DEF GoodCall

\* An entry of a sound cache.
LEMMA FiledAt ==
    ASSUME NEW T, NEW m, Filed(T, m), NEW h \in DOMAIN m
    PROVE  SoundIn(T, m[h]) /\ m[h].Number = Num(h) /\ m[h].Hash = h
BY Zenon DEF Filed, SoundIn

\* One round of the search.
LEMMA LookupInv ==
    ASSUME StoreInv, NEW c \in Callers, Lookup(c) PROVE StoreInv'
<1>1. UNCHANGED <<node, stored, canon, recents, disk, trusted>>
  BY Zenon DEF Lookup
<1>2. Searching(call[c]) /\ call[c].pc = "lookup"
  BY CallAt, Zenon DEF Lookup
<1>3. PICK h : h = call[c].hash
  BY Zenon
<1>4. call[c].number = Num(h)
  BY <1>2, <1>3, Zenon DEF Searching
<1>5. GoodCalls(trusted, call')
  <2>1. CASE h \in DOMAIN recents
    <3>1. PICK s : s = recents[h]
      BY Zenon
    <3>2. Found(c, s)
      BY <1>3, <2>1, <3>1, Zenon DEF Lookup
    <3>3. SoundIn(trusted, s) /\ s.Number = Num(h) /\ s.Hash = h
      BY <2>1, <3>1, FiledAt, Zenon DEF StoreInv
    <3> QED
      BY <1>2, <1>3, <1>4, <3>2, <3>3, FoundInv, Zenon
  <2>2. CASE h \notin DOMAIN recents /\ call[c].number % CheckpointInterval = 0 /\ h \in DOMAIN disk
    <3>1. PICK s : s = disk[h]
      BY Zenon
    <3>2. Found(c, s)
      BY <1>3, <2>2, <3>1, Zenon DEF Lookup, loadSnapshot
    <3>3. SoundIn(trusted, s) /\ s.Number = Num(h) /\ s.Hash = h
      BY <2>2, <3>1, FiledAt, Zenon DEF StoreInv
    <3> QED
      BY <1>2, <1>3, <1>4, <3>2, <3>3, FoundInv, Zenon
  <2>3. CASE /\ h \notin DOMAIN recents
             /\ ~(call[c].number % CheckpointInterval = 0 /\ h \in DOMAIN disk)
             /\ MayTrust(c)
    <3>1. call' = [call EXCEPT ![c].pc = "trust"]
      BY <1>3, <2>3, Zenon DEF Lookup
    <3>2. isEpoch(call[c].number)
      <4>1. isEpoch(0)
        BY EpochAssumption DEF isEpoch
      <4> QED
        BY <2>3, <4>1, Zenon DEF MayTrust
    <3>3. PICK k : k = call[c]
      BY Zenon
    <3>4. PICK next : next = [pc |-> "trust", number |-> k.number, hash |-> k.hash,
                              headers |-> k.headers, parents |-> k.parents]
      BY ZenonT(30)
    <3>5. k = [pc |-> k.pc, number |-> k.number, hash |-> k.hash,
               headers |-> k.headers, parents |-> k.parents]
      BY <1>2, <3>3, Zenon DEF Searching
    <3>6. next = [k EXCEPT !.pc = "trust"]
      BY <3>4, <3>5
    <3>7. call' = [call EXCEPT ![c] = next]
      BY <3>1, <3>3, <3>6, Zenon
    <3>8. Searching(next)
      <4>1. /\ next.pc = "trust" /\ next.number = k.number /\ next.hash = k.hash
            /\ next.headers = k.headers /\ next.parents = k.parents
        BY <3>4, Zenon
      <4>2. /\ k.number = Num(k.hash) /\ Downward(k.headers, k.hash)
            /\ k.parents \in Seq(Headers) /\ isEpoch(k.number)
        BY <1>2, <3>2, <3>3, Zenon DEF Searching
      <4>3. next = [pc |-> next.pc, number |-> next.number, hash |-> next.hash,
                    headers |-> next.headers, parents |-> next.parents]
        BY <3>4, Zenon
      <4> QED
        BY <4>1, <4>2, <4>3, Zenon DEF Searching
    <3>9. GoodCall(trusted, next)
      BY <3>8, Zenon DEF GoodCall
    <3> QED
      BY <3>7, <3>9, CallsUpdated, Zenon DEF StoreInv
  <2>4. CASE /\ h \notin DOMAIN recents
             /\ ~(call[c].number % CheckpointInterval = 0 /\ h \in DOMAIN disk)
             /\ ~MayTrust(c)
    <3>1. Gather(c)
      BY <1>3, <2>4, Zenon DEF Lookup
    <3>2. call[c].number # 0
      BY <2>4, Zenon DEF MayTrust
    <3> QED
      BY <1>2, <3>1, <3>2, GatherInv, Zenon
  <2> QED
    BY <2>1, <2>2, <2>3, <2>4, Zenon
<1> QED
  BY <1>1, <1>5, Zenon DEF StoreInv

\* The second read of the canonical chain, after which an epoch block may be trusted.
LEMMA TrustInv ==
    ASSUME StoreInv, NEW c \in Callers, Trust(c) PROVE StoreInv'
<1>1. UNCHANGED <<node, stored, canon, recents>>
  BY Zenon DEF Trust
<1>2. Searching(call[c]) /\ call[c].pc = "trust"
  BY CallAt, Zenon DEF Trust
<1>3. PICK n : n = call[c].number
  BY Zenon
<1>4. isEpoch(n)
  BY <1>2, <1>3, Zenon DEF Searching
<1>5. CanonOK(canon) /\ trusted \subseteq Hashes
  BY Zenon DEF StoreInv
<1>6. CASE n \notin DOMAIN canon
  <2>1. Gather(c) /\ UNCHANGED <<disk, trusted>>
    BY <1>3, <1>6, Zenon DEF Trust
  <2>2. call[c].number # 0
    BY <1>3, <1>5, <1>6, Zenon DEF CanonOK
  <2>3. GoodCalls(trusted, call')
    BY <1>2, <2>1, <2>2, GatherInv, Zenon
  <2> QED
    BY <1>1, <2>1, <2>3, Zenon DEF StoreInv
<1>7. CASE n \in DOMAIN canon
  <2>1. PICK h, s : h = canon[n] /\ s = newSnapshot(n, h, Tree[h].validators)
    BY Zenon
  <2>2. h \in Hashes /\ Num(h) = n
    BY <1>5, <1>7, <2>1, Zenon DEF CanonOK
  <2>3. \/ disk' = store(s) /\ trusted' = trusted \cup {h} /\ Found(c, s)
        \/ Fail(c, ErrDatabase) /\ UNCHANGED <<disk, trusted>>
    BY <1>3, <1>7, <2>1, Zenon DEF Trust
  <2>4. CASE disk' = store(s) /\ trusted' = trusted \cup {h} /\ Found(c, s)
    <3>1. PICK T : T = trusted \cup {h}
      BY ZenonT(30)
    <3>2. T \in SUBSET Hashes /\ h \in T /\ trusted \subseteq T
      BY <1>5, <2>2, <3>1, Zenon
    <3>3. SoundIn(T, s)
      BY <1>4, <2>1, <2>2, <3>2, TrustedSound, Zenon
    <3>4. s.Number = call[c].number
      BY <1>3, <2>1, Zenon DEF newSnapshot
    <3>8. s.Hash = call[c].hash \/ OtherIn(T, s.Hash, call[c].hash)
      <4>1. s.Hash = h /\ Num(call[c].hash) = n
        BY <1>2, <1>3, <2>1, Zenon DEF newSnapshot, Searching
      <4> QED
        BY <1>4, <2>2, <3>2, <4>1, Zenon DEF OtherIn
    <3>5. GoodCalls(T, call')
      BY <1>2, <2>4, <3>2, <3>3, <3>4, <3>8, FoundInv, Zenon
    <3>6. Filed(T, recents) /\ Filed(T, disk)
      BY <3>2, FiledGrows, Zenon DEF StoreInv
    <3>7. Filed(T, disk')
      BY <2>4, <3>3, <3>6, PutFiled, Zenon DEF store
    <3> QED
      BY <1>1, <2>4, <3>1, <3>2, <3>5, <3>6, <3>7, Zenon DEF StoreInv
  <2>5. CASE Fail(c, ErrDatabase) /\ UNCHANGED <<disk, trusted>>
    <3>1. GoodCalls(trusted, call')
      BY <2>5, FailInv, Zenon
    <3> QED
      BY <1>1, <2>5, <3>1, Zenon DEF StoreInv
  <2> QED
    BY <2>3, <2>4, <2>5, Zenon
<1> QED
  BY <1>6, <1>7, Zenon


\* The gathered headers are applied, and the result is cached and stored, or they start at
\* another block than the snapshot and are rejected.
LEMMA ApplyInv ==
    ASSUME StoreInv, NEW c \in Callers, Apply(c) PROVE StoreInv'
<1>1. UNCHANGED <<node, stored, canon, trusted>>
  BY Zenon DEF Apply
<1>2. Applying(trusted, call[c])
  BY CallAt, Zenon DEF Apply
<1>3. PICK down, s, up, r : /\ down = call[c].headers /\ s = call[c].snap
                            /\ up = Reverse(down) /\ r = apply(s, up)
  BY Zenon
<1>4. SoundIn(trusted, s)
  BY <1>2, <1>3, Zenon DEF Applying
<1>5. PICK hash : /\ hash = call[c].hash /\ Downward(down, hash) /\ s.Number = Num(hash)
                  /\ s.Hash = hash \/ OtherIn(trusted, s.Hash, hash)
  BY <1>2, <1>3, Zenon DEF Applying
<1>6. Upward(up, hash)
  BY <1>3, <1>5, ReverseUpward, Zenon
<1>7. \/ r.err = errBlockHashInconsistent /\ s.Hash # hash
      \/ r.err = OK /\ SoundIn(trusted, r.snap)
  <2>1. trusted \in SUBSET Hashes
    BY Zenon DEF StoreInv
  <2>2. s.Number = Num(hash) /\ r = apply(s, up)
    BY <1>3, <1>5, Zenon
  <2> QED
    BY <1>4, <1>6, <2>1, <2>2, ApplySound
<1>8. PICK t : t = r.snap
  BY Zenon
<1>9. \/ r.err # OK /\ Reject(c, r.err) /\ UNCHANGED <<recents, disk>>
      \/ /\ r.err = OK
         /\ recents' \in CacheAfterAdd(t)
         /\ \/ disk' = store(t) /\ Answer(c)
            \/ UNCHANGED disk /\ Fail(c, ErrDatabase)
            \/ UNCHANGED disk /\ Answer(c)
  BY <1>3, <1>8, Zenon DEF Apply
<1>10. CASE r.err # OK /\ Reject(c, r.err) /\ UNCHANGED <<recents, disk>>
  <2>1. Reject(c, errBlockHashInconsistent) /\ s.Hash # hash
    BY <1>7, <1>10, Zenon
  <2>2. GoodCalls(trusted, call')
    BY <1>3, <1>5, <2>1, RejectInv, Zenon
  <2> QED
    BY <1>1, <1>10, <2>2, Zenon DEF StoreInv
<1>11. CASE /\ r.err = OK
            /\ recents' \in CacheAfterAdd(t)
            /\ \/ disk' = store(t) /\ Answer(c)
               \/ UNCHANGED disk /\ Fail(c, ErrDatabase)
               \/ UNCHANGED disk /\ Answer(c)
  <2>1. SoundIn(trusted, t)
    BY <1>7, <1>8, <1>11, Zenon DEF OK, errBlockHashInconsistent
  <2>2. Filed(trusted, recents')
    BY <1>11, <2>1, CacheFiled, Zenon DEF StoreInv
  <2>3. Filed(trusted, disk')
    <3>1. Filed(trusted, disk)
      BY Zenon DEF StoreInv
    <3>2. CASE disk' = store(t)
      BY <2>1, <3>1, <3>2, PutFiled, Zenon DEF store
    <3> QED
      BY <1>11, <3>1, <3>2, Zenon
  <2>4. GoodCalls(trusted, call')
    <3>1. CASE Answer(c)
      <4>1. call' = [call EXCEPT ![c] = Idle] /\ Idle.pc = "idle"
        BY <3>1, Zenon DEF Answer, Idle
      <4>2. GoodCall(trusted, Idle)
        BY <4>1, Zenon DEF GoodCall
      <4> QED
        BY <4>1, <4>2, CallsUpdated, Zenon DEF StoreInv
    <3>2. CASE Fail(c, ErrDatabase)
      BY <3>2, FailInv, Zenon
    <3> QED
      BY <1>11, <3>1, <3>2, Zenon
  <2> QED
    BY <1>1, <2>2, <2>3, <2>4, Zenon DEF StoreInv
<1> QED
  BY <1>9, <1>10, <1>11, Zenon

\* Every step keeps the invariant.
LEMMA StoreStep ==
    ASSUME StoreInv, [StoreNext]_storeVars PROVE StoreInv'
<1>1. CASE UNCHANGED storeVars
  BY <1>1, Zenon DEF storeVars, StoreInv
<1>2. CASE StoreHeader
  BY <1>2, StoreHeaderInv, Zenon
<1>3. CASE WriteCanonical \/ DeleteCanonicalAbove
  BY <1>3, CanonicalInv, Zenon
<1>4. CASE SetHead
  BY <1>4, SetHeadInv, Zenon
<1>5. CASE Restart
  BY <1>5, RestartInv, Zenon
<1>6. ASSUME NEW c \in Callers, GetSnapshot(c) \/ GetSnapshotAtHash(c) \/ VerifyHeaders(c)
      PROVE  StoreInv'
  BY <1>6, CallInv, Zenon
<1>7. ASSUME NEW c \in Callers, Lookup(c) PROVE StoreInv'
  BY <1>7, LookupInv, Zenon
<1>8. ASSUME NEW c \in Callers, Trust(c) PROVE StoreInv'
  BY <1>8, TrustInv, Zenon
<1>9. ASSUME NEW c \in Callers, Apply(c) PROVE StoreInv'
  BY <1>9, ApplyInv, Zenon
<1> QED
  BY <1>1, <1>2, <1>3, <1>4, <1>5, <1>6, <1>7, <1>8, <1>9, Zenon DEF StoreNext

\* The invariant of the search for snapshots: what a call has gathered is a path of the
\* tree down to the block it looks for, and every snapshot in a cache, in the database or
\* in a call is sound.
THEOREM StoreInvariance == StoreSpec => []StoreInv
<1>1. StoreInv /\ [StoreNext]_storeVars => StoreInv'
  BY StoreStep, Zenon
<1> QED
  BY <1>1, StoreInvInit, PTL DEF StoreSpec

\* What is filed is sound.
LEMMA InvSound == StoreInv => SnapshotsSound
<1> SUFFICES ASSUME StoreInv PROVE SnapshotsSound
  BY Zenon
<1>1. ASSUME NEW s, SoundIn(trusted, s) PROVE Sound(s)
  <2>1. s.Number = Replay[s.Hash].Number
    BY <1>1, ReplayFacts, Zenon DEF SoundIn
  <2>2. \E base \in Bases(s.Hash) :
           s.Recents = Restrict(Replay[s.Hash].Recents,
                                {n \in DOMAIN Replay[s.Hash].Recents : n > base})
    BY <1>1, Zenon DEF SoundIn, Known, Bases, BasesIn
  <2> QED
    BY <1>1, <2>1, <2>2, Zenon DEF Sound, SoundIn
<1> QED
  BY <1>1, Zenon DEF StoreInv, Filed, SnapshotsSound

\* Every snapshot in the cache and in the database is filed under its own block and is
\* what replaying the chain gives, but for signers up to a trusted checkpoint: whatever
\* the tree, and however callers, reorganisations, evictions, failed writes and restarts
\* interleave.
THEOREM CachedSnapshotsAreSound == StoreSpec => []SnapshotsSound
BY StoreInvariance, InvSound, PTL

\* What is known of the calls is what the property says.
LEMMA InvBranchKept == StoreInv => BranchKept
<1> SUFFICES ASSUME StoreInv, NEW c \in Callers
             PROVE  /\ call[c].pc = "apply" =>
                          \/ call[c].snap.Hash = call[c].hash
                          \/ OtherBranch(call[c].snap.Hash, call[c].hash)
                    /\ call[c].pc = "rejected" =>
                          /\ call[c].err = errBlockHashInconsistent
                          /\ OtherBranch(call[c].base, call[c].hash)
  BY Zenon DEF BranchKept
<1> QED
  BY CallAt, Zenon DEF Applying, Rejection, OtherIn, OtherBranch

\* snapshot() starts from the snapshot of the very block its search has come to and
\* rejects no valid header, unless the checkpoint it trusted, the canonical block of its
\* height, lies on another branch; then it rejects the headers as inconsistent.
THEOREM SnapshotsKeepTheBranch == StoreSpec => []BranchKept
BY StoreInvariance, InvBranchKept, PTL

\* What lies above every base by a window or more has the recent signers of the replay.
LEMMA InvWearsOff == StoreInv => TrustWearsOff
<1> SUFFICES ASSUME StoreInv, NEW h \in DOMAIN recents,
                    \A base \in Bases(h) \ {0} : Num(h) - base >= Limit(Replay[h].Validators)
             PROVE  recents[h] = Replay[h]
  BY Zenon DEF TrustWearsOff
<1>1. PICK s, r : s = recents[h] /\ r = Replay[h]
  BY Zenon
<1>2. s.Hash = h /\ SoundIn(trusted, s)
  BY <1>1, Zenon DEF StoreInv, Filed
<1>3. h \in Hashes /\ Num(h) \in Nat
  BY <1>2, TreeAssumption, Zenon DEF SoundIn
<1>4. IsSnapshot(r) /\ WellFormed(r) /\ r.Number = Num(h) /\ r.Hash = h
  BY <1>1, <1>3, ReplayFacts, Zenon
<1>5. /\ IsSnapshot(s) /\ s.Number = Num(h) /\ s.Validators = r.Validators
  BY <1>1, <1>2, Zenon DEF SoundIn
<1>6. PICK base \in BasesIn(trusted, h) : s.Recents = Known(r.Recents, base)
  BY <1>1, <1>2, Zenon DEF SoundIn
<1>7. base \in Nat /\ (base # 0 => Num(h) - base >= Limit(r.Validators))
  <2>1. base \in Nat
    BY <1>3, <1>6, BasesBelow, Zenon DEF StoreInv
  <2>2. base \in Bases(h)
    BY <1>6, Zenon DEF Bases, BasesIn
  <2> QED
    BY <1>1, <2>1, <2>2, Zenon
<1>8. \A n \in DOMAIN r.Recents : n > base
  <2>1. /\ r.Validators \in SUBSET Addr /\ DOMAIN r.Recents \subseteq 1 .. Num(h)
        /\ \A n \in DOMAIN r.Recents : n > Num(h) - Limit(r.Validators)
    BY <1>4, Zenon DEF WellFormed
  <2>2. Limit(r.Validators) \in Nat
    BY <2>1, LimitType, Zenon
  <2>3. PICK l \in Nat : l = Limit(r.Validators)
    BY <2>2, Zenon
  <2> QED
    BY <1>3, <1>7, <2>1, <2>3
<1>9. s.Recents = r.Recents
  <2>1. PICK R : R = r.Recents
    BY Zenon
  <2>2. {n \in DOMAIN R : n > base} = DOMAIN R
    BY <1>8, <2>1, Zenon
  <2>3. s.Recents = [n \in DOMAIN R |-> R[n]]
    BY <1>6, <2>1, <2>2, Zenon DEF Known, Restrict
  <2>4. R = [n \in DOMAIN R |-> R[n]]
    BY <1>4, <2>1, Zenon DEF IsSnapshot
  <2> QED
    BY <2>1, <2>3, <2>4, Zenon
<1>10. s = r
  <2>1. s = [Number |-> s.Number, Hash |-> s.Hash, Validators |-> s.Validators,
             Recents |-> s.Recents]
    BY <1>5, Zenon DEF IsSnapshot
  <2>2. r = [Number |-> r.Number, Hash |-> r.Hash, Validators |-> r.Validators,
             Recents |-> r.Recents]
    BY <1>4, Zenon DEF IsSnapshot
  <2> QED
    BY <1>2, <1>4, <1>5, <1>9, <2>1, <2>2, Zenon
<1> QED
  BY <1>1, <1>10, Zenon

\* A snapshot far enough above every checkpoint it may rest on is exact.
THEOREM CheckpointsWearOff == StoreSpec => []TrustWearsOff
BY StoreInvariance, InvWearsOff, PTL
=============================================================================
