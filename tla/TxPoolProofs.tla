---------------------------- MODULE TxPoolProofs ----------------------------
(***************************************************************************)
(* For any accounts, transactions, blocks and limits: the indexes of the   *)
(* transaction pool agree, what is pending is executable and has been or   *)
(* will be announced, and no executable transaction is stranded.           *)
(*                                                                         *)
(* IndexesAgree is inductive by itself.  What is ready, cut, dropped or    *)
(* discarded does not matter for it, only that every operation takes it    *)
(* from, or puts it into, both the list and the lookup.  The others hold   *)
(* together, by PoolInv.                                                   *)
(***************************************************************************)
EXTENDS TxPool, FiniteSetTheorems, WellFoundedInduction, TLAPS

(***************************************************************************)
(* The operations: what add and removeTx make of a pool whose indexes      *)
(* agree and whose pending lists are executable, and that the operations   *)
(* of runReorg keep the indexes in agreement.                              *)
(***************************************************************************)
OneEach(S) == \A t, u \in S : SameSlot(t, u) => t = u

Agree(p) ==
    /\ p.all = p.pending \cup p.queue
    /\ p.pending \cap p.queue = {}
    /\ OneEach(p.all)

\* enqueueTx of transactions that were taken from the pending list replaces none.
LEMMA EnqueueAgrees ==
    ASSUME NEW p, NEW S,
           p.all = p.pending \cup p.queue \cup S,
           p.pending \cap p.queue = {}, S \cap (p.pending \cup p.queue) = {},
           OneEach(p.all)
    PROVE  Agree(Enqueue(p, S)) /\ Enqueue(p, S).all = p.all
<1>1. Beaten(p.queue, S) = {} /\ Refused(p.queue, S) = {}
      BY Zenon DEF Beaten, Refused, OneEach
<1>2. Enqueue(p, S) = Pool(p.pending, p.queue \cup S, p.all, p.nonces)
      BY <1>1, Zenon DEF Enqueue, Added
<1>3. QED
      BY <1>2 DEF Agree, Pool

\* removeTx keeps the indexes in agreement, and removes no more from the lookup.
LEMMA WithoutAgrees ==
    ASSUME NEW p, NEW S, Agree(p)
    PROVE  Agree(Without(p, S)) /\ Without(p, S).all = p.all \ S
<1> DEFINE gone == p.pending \cap S
           invalids == {t \in p.pending \ S : \E u \in gone : From[t] = From[u] /\ Nonce[t] > Nonce[u]}
           nonces == [a \in Account |-> Lower(p.nonces[a], {Nonce[t] : t \in Of(gone, a)})]
           q == Pool(p.pending \ (S \cup invalids), p.queue \ S, p.all \ S, nonces)
<1>1. Without(p, S) = Enqueue(q, invalids)
      BY Zenon DEF Without
<1>2. invalids \subseteq p.pending \ S
      BY Zenon
<1> HIDE DEF invalids, nonces
<1>3. /\ q.pending = p.pending \ (S \cup invalids)
      /\ q.queue = p.queue \ S
      /\ q.all = p.all \ S
      BY Zenon DEF Pool
<1> HIDE DEF q
<1>4. /\ q.all = q.pending \cup q.queue \cup invalids
      /\ q.pending \cap q.queue = {} /\ invalids \cap (q.pending \cup q.queue) = {}
      /\ OneEach(q.all)
      BY <1>2, <1>3, Zenon DEF Agree, OneEach
<1>5. QED
      BY <1>1, <1>3, <1>4, EnqueueAgrees

\* add keeps the indexes in agreement, whatever it discards, replaces or refuses.
LEMMA AddAgrees ==
    ASSUME NEW t, NEW local, NEW from, Agree(pool), t \notin pool.all, add(t, local, from)
    PROVE  Agree(pool')
<1>1. CASE pool' = pool
      BY <1>1, Zenon DEF Agree
<1>2. CASE \E drop \in IF Full THEN Discards ELSE {{}} :
              LET p == Without(pool, drop)
              IN  IF \E u \in p.pending : SameSlot(t, u)
                  THEN from = NoAccount /\ ReplacePending(p, t)
                  ELSE /\ from = IF \E u \in p.queue : SameSlot(t, u) THEN NoAccount ELSE From[t]
                       /\ AddToQueue(p, t, local)
  <2>1. PICK drop :
              LET p == Without(pool, drop)
              IN  IF \E u \in p.pending : SameSlot(t, u)
                  THEN from = NoAccount /\ ReplacePending(p, t)
                  ELSE /\ from = IF \E u \in p.queue : SameSlot(t, u) THEN NoAccount ELSE From[t]
                       /\ AddToQueue(p, t, local)
        BY <1>2, Zenon
  <2> DEFINE p == Without(pool, drop)
  <2>2. Agree(p) /\ t \notin p.all
        BY WithoutAgrees
  <2> HIDE DEF p
  <2>3. CASE (\E u \in p.pending : SameSlot(t, u)) /\ ReplacePending(p, t)
    <3>1. CASE pool' = p
          BY <2>2, <3>1, Zenon
    <3>2. CASE Refused(p.pending, {t}) = {} /\
               pool' = Pool(Added(p.pending, {t}), p.queue,
                            (p.all \ Beaten(p.pending, {t})) \cup {t}, p.nonces)
      <4>1. PICK old \in p.pending : SameSlot(t, old)
            BY <2>3, Zenon
      <4>2. \A u \in p.all : SameSlot(t, u) => u = old
            BY <4>1, <2>2, Zenon DEF Agree, OneEach, SameSlot
      <4>3. Beaten(p.pending, {t}) = {old}
            BY <3>2, <4>1, <4>2, <2>2 DEF Beaten, Refused, Agree
      <4>4. /\ pool'.pending = (p.pending \ {old}) \cup {t}
            /\ pool'.queue = p.queue
            /\ pool'.all = (p.all \ {old}) \cup {t}
            BY <3>2, <4>3, Zenon DEF Pool, Added
      <4>5. OneEach(pool'.all)
            BY <4>2, <4>4, <2>2, Zenon DEF Agree, OneEach, SameSlot
      <4>6. QED
            BY <4>1, <4>4, <4>5, <2>2 DEF Agree
    <3>3. QED
          BY <2>3, <3>1, <3>2, Zenon DEF ReplacePending
  <2>4. CASE ~(\E u \in p.pending : SameSlot(t, u)) /\ AddToQueue(p, t, local)
    <3>1. CASE pool' = p
          BY <2>2, <3>1, Zenon
    <3>2. CASE Refused(p.queue, {t}) = {} /\
               pool' = Enqueue(Pool(p.pending, p.queue, p.all \cup {t}, p.nonces), {t})
      <4>1. /\ pool'.pending = p.pending
            /\ pool'.queue = (p.queue \ Beaten(p.queue, {t})) \cup {t}
            /\ pool'.all = (p.all \cup {t}) \ Beaten(p.queue, {t})
            BY <3>2, Zenon DEF Enqueue, Pool, Added
      <4>2. Beaten(p.queue, {t}) = {u \in p.queue : SameSlot(t, u)}
            BY <3>2, Zenon DEF Beaten, Refused
      <4>3. OneEach(pool'.all)
            BY <4>1, <4>2, <2>2, <2>4, Zenon DEF Agree, OneEach, SameSlot
      <4>4. QED
            BY <4>1, <4>2, <4>3, <2>2, ZenonT(30) DEF Agree
    <3>3. QED
          BY <2>4, <3>1, <3>2, Zenon DEF AddToQueue
  <2>5. QED
        BY <2>1, <2>3, <2>4, Zenon DEF p
<1>3. QED
      BY <1>1, <1>2, Zenon DEF add

\* promoteExecutables: nothing pending has the nonce of what is promoted.
LEMMA PromoteAgrees ==
    ASSUME NEW p, NEW accounts, Agree(p)
    PROVE  Agree(promoteExecutables(p, accounts))
<1> DEFINE invalid == {t \in Invalid(p.queue) : From[t] \in accounts}
           ready == ReadyTxs(p, accounts)
           inserted == ready \ Refused(p.pending, ready)
           rest == p.queue \ (invalid \cup ready)
           caps == UNION {Of(rest, a) \ Lowest(rest, a, AccountQueue) : a \in accounts \ locals}
           q == promoteExecutables(p, accounts)
<1>1. ready \subseteq p.queue \ Invalid(p.queue)
      BY Zenon DEF ReadyTxs, Ready, Of
<1>2. ready \cap invalid = {} /\ invalid \subseteq p.queue
      BY <1>1, Zenon DEF Invalid
<1>3. caps \subseteq rest
      BY ZenonT(30) DEF Of
<1>4. Beaten(p.pending, ready) = {} /\ Refused(p.pending, ready) = {}
      BY <1>1, Zenon DEF Beaten, Refused, Agree, OneEach
<1>5. /\ q.pending = p.pending \cup ready
      /\ q.queue = rest \ caps
      /\ q.all = p.all \ (invalid \cup caps)
      BY <1>4, Zenon DEF promoteExecutables, Pool, Added
<1> HIDE DEF invalid, ready, caps, q
<1>6. QED
      BY <1>1, <1>2, <1>3, <1>5, Zenon DEF Agree, OneEach, q

\* demoteUnexecutables drops from both indexes, and moves the rest from list to list.
LEMMA DemoteAgrees ==
    ASSUME NEW p, Agree(p)
    PROVE  Agree(demoteUnexecutables(p))
<1> DEFINE nonce(t) == StateNonce[current][From[t]]
           olds == {t \in p.pending : Nonce[t] < nonce(t)}
           drops == (p.pending \ olds) \ Payable[current]
           invalids == {t \in p.pending \ (olds \cup drops) :
                          \E u \in drops : From[t] = From[u] /\ Nonce[t] > Nonce[u]}
           left == p.pending \ (olds \cup drops \cup invalids)
           gapped == {t \in left : \A u \in Of(left, From[t]) : Nonce[u] # nonce(t)}
           q == Pool(left \ gapped, p.queue, p.all \ (olds \cup drops), p.nonces)
<1>1. demoteUnexecutables(p) = Enqueue(q, invalids \cup gapped)
      BY Zenon DEF demoteUnexecutables
<1>2. /\ olds \subseteq p.pending /\ drops \subseteq p.pending
      /\ invalids \subseteq p.pending \ (olds \cup drops)
      /\ gapped \subseteq left
      BY Zenon
<1> HIDE DEF olds, drops, invalids, gapped
<1>3. /\ q.pending = left \ gapped
      /\ q.queue = p.queue
      /\ q.all = p.all \ (olds \cup drops)
      BY Zenon DEF Pool
<1> HIDE DEF q
<1>4. /\ q.all = q.pending \cup q.queue \cup (invalids \cup gapped)
      /\ q.pending \cap q.queue = {}
      /\ (invalids \cup gapped) \cap (q.pending \cup q.queue) = {}
      BY <1>2, <1>3, Zenon DEF Agree
<1>5. OneEach(q.all)
      BY <1>3, Zenon DEF Agree, OneEach
<1>6. QED
      BY <1>1, <1>4, <1>5, EnqueueAgrees, Zenon

\* truncatePending drops what it cuts from both indexes.
LEMMA TruncateAgrees ==
    ASSUME NEW p, Agree(p)
    PROVE  Agree(truncatePending(p))
<1>1. PICK caps : /\ truncatePending(p).pending = p.pending \ caps
                  /\ truncatePending(p).queue = p.queue
                  /\ truncatePending(p).all = p.all \ caps
                  /\ caps \subseteq p.pending
  <2> DEFINE cut(n) == {t \in p.pending : From[t] \notin locals /\ t \notin Lowest(p.pending, From[t], n)}
             fits(n) == Cardinality(p.pending \ cut(n)) <= GlobalSlots
             levels == {AccountSlots} \cup {n \in AccountSlots .. Cardinality(p.pending) : fits(n)}
             caps == IF Cardinality(p.pending) <= GlobalSlots THEN {}
                     ELSE cut(CHOOSE n \in levels : \A m \in levels : m <= n)
             nonces == [a \in Account |-> Lower(p.nonces[a], {Nonce[t] : t \in Of(caps, a)})]
  <2>1. truncatePending(p) = Pool(p.pending \ caps, p.queue, p.all \ caps, nonces)
        BY Zenon DEF truncatePending
  <2>2. \A n : cut(n) \subseteq p.pending
        BY Zenon
  <2> HIDE DEF cut, levels, nonces
  <2>3. caps \subseteq p.pending
        BY <2>2, Zenon
  <2> HIDE DEF caps
  <2>4. QED
        BY <2>1, <2>3 DEF Pool
<1>2. QED
      BY <1>1, Zenon DEF Agree, OneEach

-----------------------------------------------------------------------------
(***************************************************************************)
(* Lemmas on the operators: least and greatest nonces.                     *)
(***************************************************************************)

\* Every nonempty set of naturals has a least element.
LEMMA LeastNatural ==
    ASSUME NEW N \in SUBSET Nat, N # {}
    PROVE  \E n \in N : \A m \in N : n <= m
<1> DEFINE R == OpToRel(<, Nat)
<1>1. IsWellFoundedOn(R, Nat)
      BY NatLessThanWellFounded, Zenon
<1>2. \A m, n \in Nat : <<m, n>> \in R <=> m < n
      BY Zenon DEF OpToRel
<1> HIDE DEF R
<1>3. N \subseteq Nat
      BY Zenon
<1>4. \E n \in N : \A m \in N : ~ (<<m, n>> \in R)
      BY <1>1, <1>3, WFMin, Zenon
<1>5. \E n \in N : \A m \in N : ~ (m < n)
      BY <1>2, <1>3, <1>4, Zenon
<1>6. QED
      BY <1>3, <1>5

\* One with an upper bound has a greatest: the least upper bound.
LEMMA GreatestNatural ==
    ASSUME NEW N \in SUBSET Nat, N # {}, NEW bound \in Nat, \A m \in N : m <= bound
    PROVE  \E n \in N : \A m \in N : m <= n
<1> DEFINE Bounds == {b \in Nat : \A m \in N : m <= b}
<1>1. Bounds \in SUBSET Nat /\ Bounds # {}
      BY Zenon
<1>2. PICK b \in Bounds : \A c \in Bounds : b <= c
  <2> HIDE DEF Bounds
  <2> QED
      BY <1>1, LeastNatural, Zenon
<1>3. ASSUME b \notin N
      PROVE  FALSE
  <2>1. PICK m \in N : m <= b
        BY Zenon
  <2>2. b - 1 \in Nat /\ \A k \in N : k <= b - 1
        BY <1>3, <2>1
  <2>3. b - 1 \in Bounds
        BY <2>2, Zenon
  <2>4. QED
        BY <1>2, <2>3
<1>4. QED
      BY <1>3, Zenon

\* setIfLower, with the lowest of several nonces.
LEMMA LowerLemma ==
    ASSUME NEW n \in Nat, NEW S \in SUBSET Nat
    PROVE  /\ Lower(n, S) \in Nat /\ Lower(n, S) <= n
           /\ Lower(n, S) \in S \cup {n}
           /\ \A k \in S : Lower(n, S) <= k
<1>1. CASE \E m \in S : m < n
  <2>1. \E m \in S : \A k \in S : m <= k
        BY <1>1, LeastNatural, Zenon
  <2> DEFINE least == CHOOSE m \in S : \A k \in S : m <= k
  <2>2. least \in S /\ \A k \in S : least <= k
        BY <2>1, Zenon
  <2>3. Lower(n, S) = least
        BY <1>1, Zenon DEF Lower
  <2> HIDE DEF least
  <2>4. QED
        BY <1>1, <2>2, <2>3
<1>2. CASE ~ \E m \in S : m < n
      BY <1>2 DEF Lower
<1>3. QED
      BY <1>1, <1>2, Zenon

LEMMA LowerNone == \A n : Lower(n, {}) = n
BY Zenon DEF Lower

\* What the pool holds is finitely many transactions, hence there is a highest nonce.
Holds(S) ==
    /\ S \subseteq Tx /\ IsFiniteSet(S)
    /\ \E bound \in Nat : \A t \in S : Nonce[t] <= bound

LEMMA HoldsLess ==
    ASSUME NEW S, NEW T, Holds(S), T \subseteq S
    PROVE  Holds(T)
<1>1. IsFiniteSet(T)
      BY FS_Subset, Zenon DEF Holds
<1>2. QED
      BY <1>1, Zenon DEF Holds

LEMMA HoldsMore ==
    ASSUME NEW S, NEW t \in Tx, Holds(S)
    PROVE  Holds(S \cup {t})
<1>1. IsFiniteSet(S \cup {t})
      BY FS_AddElement, Zenon DEF Holds
<1>2. PICK bound \in Nat : \A u \in S : Nonce[u] <= bound
      BY Zenon DEF Holds
<1>3. S \cup {t} \subseteq Tx /\ \A u \in Tx : Nonce[u] \in Nat
      BY TxPoolAssumption, Zenon DEF Holds
<1>4. bound + Nonce[t] \in Nat /\ \A u \in S \cup {t} : Nonce[u] <= bound + Nonce[t]
      BY <1>2, <1>3
<1>5. QED
      BY <1>1, <1>3, <1>4, Zenon DEF Holds

\* NextNonces is above every nonce of an account, if it has any.
LEMMA NextNoncesLemma ==
    ASSUME NEW nonces, NEW S, Holds(S), NEW a \in Account
    PROVE  /\ Of(S, a) = {} => NextNonces(nonces, S)[a] = nonces[a]
           /\ Of(S, a) # {} =>
                 /\ NextNonces(nonces, S)[a] \in Nat
                 /\ \A t \in Of(S, a) : Nonce[t] < NextNonces(nonces, S)[a]
<1> DEFINE N == {Nonce[t] : t \in Of(S, a)}
<1>1. CASE Of(S, a) = {}
      BY <1>1, Zenon DEF NextNonces
<1>2. CASE Of(S, a) # {}
  <2>0. Of(S, a) \subseteq S /\ \A t \in S : Nonce[t] \in Nat
        BY TxPoolAssumption, Zenon DEF Holds, Of
  <2>1. N \in SUBSET Nat /\ N # {}
        BY <1>2, <2>0, Zenon
  <2>2. PICK bound \in Nat : \A t \in S : Nonce[t] <= bound
        BY Zenon DEF Holds
  <2>3. \A m \in N : m <= bound
        BY <2>0, <2>2, Zenon
  <2>4. \E n \in N : \A m \in N : m <= n
    <3> HIDE DEF N
    <3> QED
        BY <2>1, <2>3, GreatestNatural, ZenonT(30)
  <2>5. \E n \in N : \A t \in Of(S, a) : Nonce[t] <= n
        BY <2>4, Zenon
  <2> DEFINE top == CHOOSE n \in N : \A t \in Of(S, a) : Nonce[t] <= n
  <2>6. top \in N /\ \A t \in Of(S, a) : Nonce[t] <= top
        BY <2>5, Zenon
  <2>7. NextNonces(nonces, S)[a] = 1 + top
        BY <1>2, Zenon DEF NextNonces
  <2> HIDE DEF top
  <2>8. QED
        BY <1>2, <2>0, <2>1, <2>6, <2>7
<1>3. QED
      BY <1>1, <1>2, Zenon

-----------------------------------------------------------------------------
(***************************************************************************)
(* What is executable, and what is stranded.                               *)
(***************************************************************************)

\* Neither too old for the pool's state nor too expensive.
Good(t) == Nonce[t] >= StateNonce[current][From[t]] /\ t \in Payable[current]

\* PendingExecutable of an account, and it can pay for everything it has pending.
Executable(p, a) ==
    /\ \A t \in Of(p.pending, a) : Good(t) /\ Nonce[t] < p.nonces[a]
    /\ Of(p.pending, a) # {} => \E t \in Of(p.pending, a) : Nonce[t] = StateNonce[current][a]
    /\ Of(p.pending, a) = {} => p.nonces[a] <= StateNonce[current][a]

\* The account has nothing pending, but this transaction in the queue could be executed.
Stranded(p, t) ==
    t \in p.queue /\ Of(p.pending, From[t]) = {} /\ Nonce[t] = p.nonces[From[t]]

TypedPool(p) == Holds(p.all) /\ p.nonces \in [Account -> Nat]

NoncesOf(S, a) == {Nonce[t] : t \in Of(S, a)}

\* What follows in the pending list what removeTx takes from it.
Following(p, S) ==
    {t \in p.pending \ S : \E u \in p.pending \cap S : From[t] = From[u] /\ Nonce[t] > Nonce[u]}

\* The pool that removeTx leaves.
LEMMA WithoutNonces ==
    ASSUME NEW p, NEW S, NEW a \in Account
    PROVE  Without(p, S).nonces[a] = Lower(p.nonces[a], NoncesOf(p.pending \cap S, a))
BY Zenon DEF Without, Enqueue, Pool, NoncesOf

LEMMA WithoutFields ==
    ASSUME NEW p, NEW S, Agree(p), TypedPool(p)
    PROVE  /\ Without(p, S).pending = p.pending \ (S \cup Following(p, S))
           /\ Without(p, S).queue \subseteq (p.queue \cup Following(p, S)) \ S
           /\ TypedPool(Without(p, S))
<1> DEFINE gone == p.pending \cap S
           invalids == Following(p, S)
           nonces == [a \in Account |-> Lower(p.nonces[a], NoncesOf(gone, a))]
           q == Without(p, S)
<1>1. /\ q.pending = p.pending \ (S \cup invalids) /\ q.nonces = nonces
      /\ q.queue = Added(p.queue \ S, invalids)
      BY Zenon DEF Without, Enqueue, Pool, Following, NoncesOf
<1>2. q.queue \subseteq (p.queue \cup invalids) \ S
      BY <1>1, Zenon DEF Added, Following
<1>3. q.all = p.all \ S
      BY WithoutAgrees, Zenon
<1>4. Holds(q.all)
      BY <1>3, HoldsLess, Zenon DEF TypedPool
<1>5. ASSUME NEW a \in Account
      PROVE  Lower(p.nonces[a], NoncesOf(gone, a)) \in Nat
  <2>1. p.nonces[a] \in Nat /\ NoncesOf(gone, a) \in SUBSET Nat
        BY TxPoolAssumption DEF TypedPool, Holds, Of, Agree, NoncesOf
  <2>2. QED
        BY <2>1, LowerLemma, Zenon
<1>6. nonces \in [Account -> Nat]
      BY <1>5, Zenon
<1>7. QED
      BY <1>1, <1>2, <1>4, <1>6, ZenonT(30) DEF TypedPool

\* removeTx keeps what is left executable, and strands nothing: if it removes all that an
\* account has pending, the nonce goes back to one that the account has no transaction for.
LEMMA WithoutExecutable ==
    ASSUME NEW p, NEW S, Agree(p), TypedPool(p), current \in Block,
           NEW a \in Account, Executable(p, a)
    PROVE  /\ Executable(Without(p, S), a)
           /\ \A t \in Of(Without(p, S).queue, a) : Stranded(Without(p, S), t) => Stranded(p, t)
<1> DEFINE gone == p.pending \cap S
           invalids == Following(p, S)
           D == NoncesOf(gone, a)
           q == Without(p, S)
           s == StateNonce[current][a]
<1>1. /\ q.pending = p.pending \ (S \cup invalids)
      /\ q.nonces[a] = Lower(p.nonces[a], D)
      /\ q.queue \subseteq (p.queue \cup invalids) \ S
      BY WithoutFields, WithoutNonces
<1>2. s \in Nat /\ p.nonces[a] \in Nat /\ p.pending \subseteq Tx /\ p.queue \subseteq Tx
      BY TxPoolAssumption DEF TypedPool, Holds, Agree
<1>3. \A t \in Tx : Nonce[t] \in Nat
      BY TxPoolAssumption, Zenon
<1>4. D \in SUBSET Nat
      BY <1>2, <1>3, Zenon DEF Of, NoncesOf
<1>5. /\ q.nonces[a] \in Nat /\ q.nonces[a] <= p.nonces[a]
      /\ q.nonces[a] \in D \cup {p.nonces[a]} /\ \A k \in D : q.nonces[a] <= k
  <2> HIDE DEF D, q
  <2> QED
      BY <1>1, <1>2, <1>4, LowerLemma
<1>6. \A t \in p.pending : From[t] = a => s <= Nonce[t] /\ Nonce[t] < p.nonces[a] /\ Good(t)
      BY Zenon DEF Executable, Good, Of
<1>7. \A t, u \in p.all : From[t] = a /\ From[u] = a /\ Nonce[t] = Nonce[u] => t = u
      BY Zenon DEF Agree, OneEach, SameSlot
<1> DEFINE First(t) == t \in p.pending /\ From[t] = a /\ Nonce[t] = s
<1>8. (\E t \in p.pending : From[t] = a) => \E t : First(t)
      BY Zenon DEF Executable, Of
<1>9. ASSUME NEW first, First(first)
      PROVE  /\ first \notin invalids
             /\ first \in S => q.nonces[a] = s /\ \A t \in q.pending : From[t] # a
  <2>1. first \notin invalids
        BY <1>2, <1>3, <1>6, <1>9 DEF Following
  <2>2. ASSUME first \in S
        PROVE  q.nonces[a] = s /\ \A t \in q.pending : From[t] # a
    <3>1. s \in D /\ \A k \in D : s <= k /\ k < p.nonces[a]
          BY <1>6, <1>9, <2>2, Zenon DEF Of, NoncesOf
    <3> HIDE DEF D, q
    <3>2. q.nonces[a] = s
          BY <1>2, <1>4, <1>5, <3>1
    <3> USE DEF q
    <3>3. ASSUME NEW t \in q.pending, From[t] = a
          PROVE  FALSE
      <4>1. t \in p.pending /\ t \notin S /\ t # first
            BY <1>1, <2>2, <3>3, Zenon
      <4>2. Nonce[t] # s
            BY <1>7, <1>9, <4>1, <3>3, Zenon DEF Agree
      <4>3. Nonce[t] > Nonce[first]
            BY <1>2, <1>3, <1>6, <1>9, <3>3, <4>1, <4>2
      <4>4. t \in invalids
            BY <1>9, <2>2, <3>3, <4>1, <4>3, Zenon DEF Following
      <4>5. QED
            BY <1>1, <4>4, Zenon
    <3>4. QED
          BY <3>2, <3>3, Zenon
  <2>3. QED
        BY <2>1, <2>2, Zenon
<1>10. ASSUME NEW t \in Of(q.pending, a)
       PROVE  Good(t) /\ Nonce[t] < q.nonces[a]
  <2>1. t \in p.pending /\ t \notin S /\ t \notin invalids /\ From[t] = a
        BY <1>1, <1>10, Zenon DEF Of
  <2>2. \A u \in gone : From[u] = a => Nonce[t] < Nonce[u]
        BY <1>2, <1>3, <1>7, <2>1 DEF Agree, Following
  <2>3. \A k \in D : Nonce[t] < k
        BY <2>2, Zenon DEF Of, NoncesOf
  <2>4. QED
        BY <1>5, <1>6, <2>1, <2>3, Zenon
<1>11. ASSUME Of(q.pending, a) # {}
       PROVE  \E t \in Of(q.pending, a) : Nonce[t] = s
  <2>1. PICK first : First(first)
        BY <1>1, <1>8, <1>11, Zenon DEF Of
  <2>2. first \notin S /\ first \notin invalids
        BY <1>9, <1>11, <2>1, Zenon DEF Of
  <2>3. QED
        BY <1>1, <2>1, <2>2, Zenon DEF Of
<1>12. ASSUME Of(q.pending, a) = {}
       PROVE  /\ q.nonces[a] <= s
              /\ \A t \in Of(q.queue, a) : Stranded(q, t) => Stranded(p, t)
  <2>1. CASE Of(p.pending, a) = {}
    <3>1. D = {} /\ \A t \in invalids : From[t] # a
          BY <2>1, Zenon DEF Of, Following, NoncesOf
    <3>2. q.nonces[a] = p.nonces[a] /\ p.nonces[a] <= s
          BY <1>5, <2>1, <3>1, Zenon DEF Executable
    <3>3. QED
          BY <1>1, <2>1, <3>1, <3>2, Zenon DEF Stranded, Of
  <2>2. CASE Of(p.pending, a) # {}
    <3>1. PICK first : First(first)
          BY <1>8, <2>2, Zenon DEF Of
    <3>2. first \in S /\ q.nonces[a] = s
          BY <1>1, <1>9, <1>12, <3>1, Zenon DEF Of
    <3>3. ASSUME NEW t \in Of(q.queue, a), Nonce[t] = s
          PROVE  FALSE
      <4>1. t \in p.all /\ t \notin S /\ From[t] = a
            BY <1>1, <3>3, Zenon DEF Of, Agree, Following
      <4>2. t = first
            BY <1>7, <3>1, <3>3, <4>1, Zenon DEF Agree
      <4>3. QED
            BY <3>2, <4>1, <4>2, Zenon
    <3>4. QED
          BY <1>2, <3>2, <3>3 DEF Stranded, Of
  <2>3. QED
        BY <2>1, <2>2, Zenon
<1>13. Executable(q, a)
  <2> HIDE DEF q
  <2> QED
      BY <1>10, <1>11, <1>12, Zenon DEF Executable
<1>14. ASSUME NEW t \in Of(q.queue, a), Stranded(q, t)
       PROVE  Stranded(p, t)
       BY <1>12, <1>14, Zenon DEF Stranded, Of
<1>15. QED
       BY <1>13, <1>14, Zenon

\* What add does to the pool it has made room in: nothing, or it replaces the pending or
\* the queued transaction of the slot, or it adds to the queue and the sender is dirty.
Replaces(p, t) ==
    \E old \in p.pending :
        /\ SameSlot(t, old)
        /\ pool'.pending = (p.pending \ {old}) \cup {t} /\ pool'.queue = p.queue
        /\ pool'.all = (p.all \ {old}) \cup {t} /\ pool'.nonces = p.nonces
        /\ events' = Put(events, {t})

Queues(p, t, from) ==
    \E same \in {{u \in p.queue : SameSlot(t, u)}} :
        /\ pool'.pending = p.pending /\ pool'.queue = (p.queue \ same) \cup {t}
        /\ pool'.all = (p.all \cup {t}) \ same /\ pool'.nonces = p.nonces
        /\ events' = events
        /\ same = {} => from = From[t]

LEMMA AddCases ==
    ASSUME NEW t, NEW local, NEW from, Agree(pool), t \notin pool.all, add(t, local, from)
    PROVE  \/ pool' = pool /\ events' = events
           \/ /\ ValidateTx(t)
              /\ \E drop : \/ pool' = Without(pool, drop) /\ events' = events
                           \/ Replaces(Without(pool, drop), t)
                           \/ Queues(Without(pool, drop), t, from)
<1>1. CASE ~ValidateTx(t) \/ (Full /\ ~local /\ Underpriced(t))
      BY <1>1, Zenon DEF add
<1>2. CASE ~(~ValidateTx(t) \/ (Full /\ ~local /\ Underpriced(t)))
  <2>1. PICK drop :
              LET p == Without(pool, drop)
              IN  IF \E u \in p.pending : SameSlot(t, u)
                  THEN from = NoAccount /\ ReplacePending(p, t)
                  ELSE /\ from = IF \E u \in p.queue : SameSlot(t, u) THEN NoAccount ELSE From[t]
                       /\ AddToQueue(p, t, local)
        BY <1>2, ZenonT(30) DEF add
  <2> DEFINE p == Without(pool, drop)
  <2>2. Agree(p) /\ t \notin p.all
        BY WithoutAgrees
  <2> HIDE DEF p
  <2>3. CASE (\E u \in p.pending : SameSlot(t, u)) /\ ReplacePending(p, t)
    <3>1. CASE Refused(p.pending, {t}) # {}
          BY <2>3, <3>1, <1>2, ZenonT(30) DEF ReplacePending, p
    <3>2. CASE Refused(p.pending, {t}) = {}
      <4>1. PICK old \in p.pending : SameSlot(t, old)
            BY <2>3, Zenon
      <4>2. Beaten(p.pending, {t}) = {old}
        <5>1. \A u \in p.all : SameSlot(t, u) => u = old
              BY <4>1, <2>2, Zenon DEF Agree, OneEach, SameSlot
        <5>2. QED
              BY <3>2, <4>1, <5>1, <2>2 DEF Beaten, Refused, Agree
      <4>3. /\ pool' = Pool((p.pending \ {old}) \cup {t}, p.queue, (p.all \ {old}) \cup {t}, p.nonces)
            /\ events' = Put(events, {t})
            BY <2>3, <3>2, <4>2, Zenon DEF ReplacePending, Added
      <4>4. Replaces(p, t)
            BY <4>1, <4>3, ZenonT(30) DEF Replaces, Pool
      <4>5. QED
            BY <1>2, <4>4, Zenon DEF p
    <3>3. QED
          BY <3>1, <3>2, Zenon
  <2>4. CASE /\ from = IF \E u \in p.queue : SameSlot(t, u) THEN NoAccount ELSE From[t]
             /\ AddToQueue(p, t, local)
    <3>1. CASE Refused(p.queue, {t}) # {}
          BY <2>4, <3>1, <1>2, Zenon DEF AddToQueue, p
    <3>2. CASE Refused(p.queue, {t}) = {}
      <4> DEFINE same == {u \in p.queue : SameSlot(t, u)}
      <4>1. Beaten(p.queue, {t}) = same
            BY <3>2, Zenon DEF Beaten, Refused
      <4>2. /\ pool' = Pool(p.pending, (p.queue \ same) \cup {t}, (p.all \cup {t}) \ same, p.nonces)
            /\ events' = events
            BY <2>4, <3>2, <4>1, Zenon DEF AddToQueue, Enqueue, Added, Pool
      <4>3. same = {} => from = From[t]
            BY <2>4, Zenon
      <4>4. Queues(p, t, from)
            BY <4>2, <4>3, Zenon DEF Queues, Pool
      <4>5. QED
            BY <1>2, <4>4, Zenon DEF p
    <3>3. QED
          BY <3>1, <3>2, Zenon
  <2>5. QED
        BY <2>1, <2>3, <2>4, Zenon DEF p
<1>3. QED
      BY <1>1, <1>2, ZenonT(30)

\* add holds on to the types of the pool and never raises a nonce.
LEMMA AddTyped ==
    ASSUME NEW t \in Tx, NEW local, NEW from, Agree(pool), TypedPool(pool), t \notin pool.all,
           add(t, local, from)
    PROVE  /\ TypedPool(pool')
           /\ \A a \in Account : pool'.nonces[a] <= pool.nonces[a]
           /\ pool'.pending \subseteq pool.pending \cup {t}
           /\ t \in pool'.pending => events' = Put(events, {t})
           /\ t \notin pool'.pending => events' = events
<1>1. CASE pool' = pool /\ events' = events
  <2>1. t \notin pool.pending
        BY Zenon DEF Agree
  <2>2. QED
        BY <1>1, <2>1 DEF TypedPool
<1>2. ASSUME NEW drop, \/ pool' = Without(pool, drop) /\ events' = events
                       \/ Replaces(Without(pool, drop), t)
                       \/ Queues(Without(pool, drop), t, from)
      PROVE  /\ TypedPool(pool')
             /\ \A a \in Account : pool'.nonces[a] <= pool.nonces[a]
             /\ pool'.pending \subseteq pool.pending \cup {t}
             /\ t \in pool'.pending => events' = Put(events, {t})
             /\ t \notin pool'.pending => events' = events
  <2> DEFINE p == Without(pool, drop)
  <2>1. TypedPool(p) /\ p.pending \subseteq pool.pending
        BY WithoutFields
  <2>2. ASSUME NEW a \in Account
        PROVE  p.nonces[a] <= pool.nonces[a]
    <3> DEFINE D == NoncesOf(pool.pending \cap drop, a)
    <3>1. p.nonces[a] = Lower(pool.nonces[a], D)
          BY WithoutNonces, Zenon
    <3>2. pool.nonces[a] \in Nat /\ D \in SUBSET Nat
          BY TxPoolAssumption DEF TypedPool, Holds, Of, Agree, NoncesOf
    <3> HIDE DEF D, p
    <3>3. QED
          BY <3>1, <3>2, LowerLemma
  <2>3. t \notin p.pending
        BY <2>1, Zenon DEF Agree
  <2>4. \/ pool' = p /\ events' = events
        \/ Replaces(p, t)
        \/ Queues(p, t, from)
        BY <1>2, Zenon
  <2>5. Holds(p.all \cup {t})
        BY <2>1, HoldsMore, Zenon DEF TypedPool
  <2> HIDE DEF p
  <2>6. CASE pool' = p /\ events' = events
        BY <2>1, <2>2, <2>3, <2>6, Zenon
  <2>7. CASE Replaces(p, t)
    <3>1. pool'.all \subseteq p.all \cup {t} /\ pool'.nonces = p.nonces
          BY <2>7, Zenon DEF Replaces
    <3>2. TypedPool(pool')
          BY <2>1, <2>5, <3>1, HoldsLess, Zenon DEF TypedPool
    <3>3. QED
          BY <2>1, <2>2, <2>7, <3>1, <3>2, Zenon DEF Replaces
  <2>8. CASE Queues(p, t, from)
    <3>1. pool'.all \subseteq p.all \cup {t} /\ pool'.nonces = p.nonces
          BY <2>8, Zenon DEF Queues
    <3>2. TypedPool(pool')
          BY <2>1, <2>5, <3>1, HoldsLess, Zenon DEF TypedPool
    <3>3. QED
          BY <2>1, <2>2, <2>3, <2>8, <3>1, <3>2, Zenon DEF Queues
  <2>9. QED
        BY <2>4, <2>6, <2>7, <2>8, Zenon
<1>3. QED
      BY <1>1, <1>2, AddCases, Zenon

\* From p to q a nonce is lowered only to that of a pending transaction which leaves the pool.
Lowered(p, q) ==
    \A a \in Account :
        \/ q.nonces[a] = p.nonces[a]
        \/ \E u \in p.pending \ q.all : From[u] = a /\ Nonce[u] = q.nonces[a]

LEMMA WithoutLowers ==
    ASSUME NEW p, NEW S, Agree(p), TypedPool(p)
    PROVE  Lowered(p, Without(p, S))
<1> SUFFICES ASSUME NEW a \in Account
             PROVE  \/ Without(p, S).nonces[a] = p.nonces[a]
                    \/ \E u \in p.pending \ Without(p, S).all :
                          From[u] = a /\ Nonce[u] = Without(p, S).nonces[a]
    BY Zenon DEF Lowered
<1> DEFINE D == NoncesOf(p.pending \cap S, a)
           q == Without(p, S)
<1>1. q.nonces[a] = Lower(p.nonces[a], D) /\ q.all = p.all \ S
  <2>1. q.nonces[a] = Lower(p.nonces[a], D)
        BY WithoutNonces, Zenon
  <2>2. q.all = p.all \ S
        BY WithoutAgrees, Zenon
  <2>3. QED
        BY <2>1, <2>2, Zenon
<1>2. p.nonces[a] \in Nat /\ D \in SUBSET Nat
      BY TxPoolAssumption DEF TypedPool, Holds, Of, Agree, NoncesOf
<1>3. q.nonces[a] \in D \cup {p.nonces[a]}
  <2> HIDE DEF D, q
  <2>1. Lower(p.nonces[a], D) \in D \cup {p.nonces[a]}
        BY <1>2, LowerLemma, Zenon
  <2> QED
      BY <1>1, <2>1, Zenon
<1>4. \A k \in D : \E u \in p.pending \cap S : From[u] = a /\ Nonce[u] = k
      BY Zenon DEF NoncesOf, Of
<1> HIDE DEF D
<1>5. QED
      BY <1>1, <1>3, <1>4, Zenon

LEMMA AddLowers ==
    ASSUME NEW t \in Tx, NEW local, NEW from, Agree(pool), TypedPool(pool), t \notin pool.all,
           add(t, local, from)
    PROVE  Lowered(pool, pool')
<1>1. CASE pool' = pool
      BY <1>1, Zenon DEF Lowered
<1>2. ASSUME NEW drop, \/ pool' = Without(pool, drop)
                       \/ Replaces(Without(pool, drop), t)
                       \/ Queues(Without(pool, drop), t, from)
      PROVE  Lowered(pool, pool')
  <2>1. PICK p : p = Without(pool, drop)
        BY Zenon
  <2>2. pool' = p \/ Replaces(p, t) \/ Queues(p, t, from)
        BY <1>2, <2>1, Zenon
  <2>3. Lowered(pool, p)
        BY <2>1, WithoutLowers, Zenon
  <2>4. pool'.nonces = p.nonces /\ pool'.all \subseteq p.all \cup {t}
        BY <2>2, Zenon DEF Replaces, Queues
  <2>5. t \notin pool.pending
        BY Zenon DEF Agree
  <2>6. QED
        BY <2>3, <2>4, <2>5, Zenon DEF Lowered
<1>3. QED
      BY <1>1, <1>2, AddCases, Zenon

\* The account has a stranded transaction.
Stuck(p, a) == \E t \in p.queue : From[t] = a /\ Stranded(p, t)

\* add keeps what is pending executable, and strands a transaction only of the dirty sender.
LEMMA AddExecutable ==
    ASSUME NEW t \in Tx, NEW local, NEW from, Agree(pool), TypedPool(pool), t \notin pool.all,
           current \in Block, \A a \in Account : Executable(pool, a), add(t, local, from)
    PROVE  /\ \A a \in Account : Executable(pool', a)
           /\ \A a \in Account : Stuck(pool', a) => Stuck(pool, a) \/ a = from
<1>1. CASE pool' = pool /\ events' = events
      BY <1>1, Zenon
<1>2. ASSUME NEW drop, ValidateTx(t),
             \/ pool' = Without(pool, drop) /\ events' = events
             \/ Replaces(Without(pool, drop), t)
             \/ Queues(Without(pool, drop), t, from)
      PROVE  /\ \A a \in Account : Executable(pool', a)
             /\ \A a \in Account : Stuck(pool', a) => Stuck(pool, a) \/ a = from
  <2> DEFINE p == Without(pool, drop)
  <2>1. Agree(p) /\ TypedPool(p)
        BY WithoutAgrees, WithoutFields, ZenonT(30)
  <2>2. \A a \in Account : Executable(p, a)
        BY WithoutExecutable, ZenonT(30)
  <2>3. ASSUME NEW a \in Account, Stuck(p, a)
        PROVE  Stuck(pool, a)
    <3>1. PICK u \in Of(p.queue, a) : Stranded(p, u)
          BY <2>3, Zenon DEF Stuck, Of
    <3>2. Stranded(pool, u)
          BY <3>1, WithoutExecutable, Zenon
    <3>3. QED
          BY <3>1, <3>2, Zenon DEF Stuck, Of, Stranded
  <2>4. \/ pool' = p
        \/ Replaces(p, t)
        \/ Queues(p, t, from)
        BY <1>2, Zenon
  <2>5. From[t] \in Account /\ Good(t)
        BY <1>2, TxPoolAssumption, ZenonT(30) DEF ValidateTx, Good
  <2> HIDE DEF p
  <2>6. CASE pool' = p
        BY <2>2, <2>3, <2>6, Zenon
  <2>7. CASE Replaces(p, t)
    <3>1. PICK old \in p.pending :
             /\ SameSlot(t, old)
             /\ pool'.pending = (p.pending \ {old}) \cup {t} /\ pool'.queue = p.queue
             /\ pool'.nonces = p.nonces
          BY <2>7, Zenon DEF Replaces
    <3>2. ASSUME NEW a \in Account, a # From[t]
          PROVE  Of(pool'.pending, a) = Of(p.pending, a)
          BY <3>1, <3>2, Zenon DEF Of, SameSlot
    <3>3. ASSUME NEW a \in Account, a = From[t]
          PROVE  Executable(pool', a)
      <4>1. old \in Of(p.pending, a) /\ Nonce[old] = Nonce[t] /\ t \in Of(pool'.pending, a)
            BY <3>1, <3>3, Zenon DEF Of, SameSlot
      <4>2. Of(pool'.pending, a) = (Of(p.pending, a) \ {old}) \cup {t}
            BY <3>1, <3>3, <4>1, Zenon DEF Of
      <4>3. Executable(p, a)
            BY <2>2, Zenon
      <4>4. QED
            BY <2>5, <3>1, <4>1, <4>2, <4>3, Zenon DEF Executable
    <3>4. \A a \in Account : a # From[t] => Executable(pool', a)
          BY <2>2, <3>1, <3>2, Zenon DEF Executable
    <3>5. ASSUME NEW a \in Account, Stuck(pool', a)
          PROVE  Stuck(p, a)
      <4>1. PICK u \in p.queue : From[u] = a /\ Stranded(pool', u)
            BY <3>1, <3>5, Zenon DEF Stuck
      <4>2. a # From[t]
            BY <3>1, <4>1, Zenon DEF Stranded, Of
      <4>3. QED
            BY <3>1, <3>2, <4>1, <4>2, ZenonT(30) DEF Stranded, Stuck
    <3>6. QED
          BY <2>3, <3>3, <3>4, <3>5, Zenon
  <2>8. CASE Queues(p, t, from)
    <3>1. PICK same : /\ same = {u \in p.queue : SameSlot(t, u)}
                      /\ pool'.pending = p.pending /\ pool'.queue = (p.queue \ same) \cup {t}
                      /\ pool'.nonces = p.nonces
                      /\ same = {} => from = From[t]
          BY <2>8, Zenon DEF Queues
    <3>2. \A a \in Account : Executable(pool', a)
          BY <2>2, <3>1, Zenon DEF Executable
    <3>3. ASSUME NEW a \in Account, Stuck(pool', a), a # from
          PROVE  Stuck(p, a)
      <4>1. PICK u \in pool'.queue : From[u] = a /\ Stranded(pool', u)
            BY <3>3, Zenon DEF Stuck
      <4>2. PICK v \in p.queue : From[v] = a /\ Nonce[v] = Nonce[u]
        <5>1. CASE u \in p.queue
              BY <4>1, <5>1, Zenon
        <5>2. CASE u = t
              BY <3>1, <3>3, <4>1, <5>2, Zenon DEF SameSlot
        <5>3. QED
              BY <3>1, <5>1, <5>2, Zenon
      <4>3. QED
            BY <3>1, <4>1, <4>2, ZenonT(30) DEF Stranded, Stuck
    <3>4. QED
          BY <2>3, <3>2, <3>3, Zenon
  <2>9. QED
        BY <2>4, <2>6, <2>7, <2>8, Zenon
<1>3. QED
      BY <1>1, <1>2, AddCases, ZenonT(30)

-----------------------------------------------------------------------------
(***************************************************************************)
(* runReorg: its promotions, demotions and truncations leave every account *)
(* they handle with an executable pending list and nothing stranded in its *)
(* queue.                                                                  *)
(***************************************************************************)
\* Ready begins at a nonce that is not above start, and is empty only if there is none.
LEMMA ReadyLemma ==
    ASSUME NEW S, S \subseteq Tx, NEW a, NEW start
    PROVE  /\ Ready(S, a, start) \subseteq Of(S, a)
           /\ Ready(S, a, start) # {} => \E f \in Ready(S, a, start) : Nonce[f] <= start
           /\ \A t \in Of(S, a) : Nonce[t] = start => Ready(S, a, start) # {}
<1>1. \A t \in Of(S, a) : Nonce[t] \in Nat
      BY TxPoolAssumption, Zenon DEF Of
<1>2. ASSUME NEW f \in Of(S, a), Nonce[f] <= start, \A u \in Of(S, a) : Nonce[f] <= Nonce[u]
      PROVE  f \in Ready(S, a, start)
  <2>1. \A n \in Nonce[f] .. Nonce[f] : n = Nonce[f]
        BY <1>1
  <2>2. QED
        BY <1>2, <2>1, Zenon DEF Ready
<1>3. ASSUME NEW t \in Ready(S, a, start)
      PROVE  \E f \in Ready(S, a, start) : Nonce[f] <= start
      BY <1>2, Zenon DEF Ready
<1>4. ASSUME NEW t \in Of(S, a), Nonce[t] = start
      PROVE  Ready(S, a, start) # {}
  <2> DEFINE N == {Nonce[u] : u \in Of(S, a)}
  <2>1. N \in SUBSET Nat /\ N # {} /\ Nonce[t] \in N
        BY <1>1, Zenon
  <2>2. PICK n \in N : \A m \in N : n <= m
    <3> HIDE DEF N
    <3> QED
        BY <2>1, LeastNatural, Zenon
  <2>3. PICK f \in Of(S, a) : Nonce[f] = n
        BY Zenon
  <2>4. Nonce[f] <= start /\ \A u \in Of(S, a) : Nonce[f] <= Nonce[u]
        BY <1>4, <2>1, <2>2, <2>3, Zenon
  <2>5. QED
        BY <1>2, <2>4, Zenon
<1>5. QED
      BY <1>3, <1>4, Zenon DEF Ready

\* promoteExecutables: what it promotes follows what is pending, starts at the state's nonce
\* if the account has none, and it leaves no transaction at the account's nonce in the queue.
LEMMA PromoteLemma ==
    ASSUME NEW p, NEW accounts, Agree(p), TypedPool(p), current \in Block, NEW a \in Account,
           NEW R, R = ReadyTxs(p, accounts), NEW q, q = promoteExecutables(p, accounts)
    PROVE  /\ q.pending = p.pending \cup R
           /\ Refused(p.pending, R) = {}
           /\ q.queue \subseteq p.queue \ R
           /\ \A t \in R : Good(t) /\ t \in p.queue /\ From[t] \in accounts
           /\ Of(R, a) = {} => q.nonces[a] = p.nonces[a]
           /\ Of(R, a) # {} /\ p.nonces[a] <= StateNonce[current][a] =>
                 \E f \in Of(R, a) : Nonce[f] = StateNonce[current][a]
           /\ a \in accounts =>
                 \A u \in Of(q.queue, a) : Nonce[u] = p.nonces[a] => Of(R, a) # {}
<1> DEFINE invalid == {t \in Invalid(p.queue) : From[t] \in accounts}
           rest == p.queue \ (invalid \cup R)
           caps == UNION {Of(rest, b) \ Lowest(rest, b, AccountQueue) : b \in accounts \ locals}
           valid == p.queue \ Invalid(p.queue)
<1>1. valid \subseteq Tx /\ \A t \in valid : Nonce[t] \in Nat /\ From[t] \in Account
      BY TxPoolAssumption, Zenon DEF Agree, TypedPool, Holds
<1>2. \A b \in Account : StateNonce[current][b] \in Nat /\ p.nonces[b] \in Nat
      BY TxPoolAssumption DEF TypedPool
<1>3. \A t \in valid : Good(t)
      BY <1>1, <1>2 DEF Invalid, Good
<1>4. a \in accounts => Of(R, a) = Ready(valid, a, p.nonces[a])
  <2>1. \A b : Ready(valid, b, p.nonces[b]) \subseteq Of(valid, b)
        BY <1>1, ReadyLemma, Zenon
  <2>2. ASSUME a \in accounts, NEW t
        PROVE  t \in Of(R, a) <=> t \in Ready(valid, a, p.nonces[a])
    <3>1. t \in R <=> \E b \in accounts : t \in Ready(valid, b, p.nonces[b])
          BY Zenon DEF ReadyTxs
    <3> HIDE DEF valid
    <3>2. QED
          BY <2>1, <2>2, <3>1, Zenon DEF Of
  <2> HIDE DEF valid
  <2>3. QED
        BY <2>2, Zenon
<1>5. R \subseteq valid /\ \A t \in R : From[t] \in accounts
      BY Zenon DEF ReadyTxs, Ready, Of
<1>6. Beaten(p.pending, R) = {} /\ Refused(p.pending, R) = {}
      BY <1>5, Zenon DEF Beaten, Refused, Agree, OneEach
<1>7. /\ q.pending = p.pending \cup R
      /\ q.queue = rest \ caps
      /\ q.nonces = NextNonces(p.nonces, R)
      BY <1>6 DEF promoteExecutables, Pool, Added
<1> HIDE DEF caps
<1>8. ASSUME Of(R, a) = {}
      PROVE  q.nonces[a] = p.nonces[a]
      BY <1>7, <1>8, Zenon DEF NextNonces
<1>9. ASSUME Of(R, a) # {}, p.nonces[a] <= StateNonce[current][a]
      PROVE  \E f \in Of(R, a) : Nonce[f] = StateNonce[current][a]
  <2>1. a \in accounts
        BY <1>5, <1>9, Zenon DEF Of
  <2>2. PICK f \in Of(R, a) : Nonce[f] <= p.nonces[a]
    <3>1. Ready(valid, a, p.nonces[a]) # {}
          BY <1>4, <1>9, <2>1, Zenon
    <3>2. \E f \in Ready(valid, a, p.nonces[a]) : Nonce[f] <= p.nonces[a]
      <4> HIDE DEF valid
      <4> QED
          BY <1>1, <3>1, ReadyLemma, Zenon
    <3>3. QED
          BY <1>4, <2>1, <3>2, Zenon
  <2>3. f \in valid /\ From[f] = a
        BY <1>5, Zenon DEF Of
  <2>4. Nonce[f] >= StateNonce[current][a] /\ Nonce[f] \in Nat
        BY <1>1, <1>3, <2>3, Zenon DEF Good
  <2>5. QED
        BY <1>2, <1>9, <2>2, <2>4
<1>10. ASSUME a \in accounts, NEW u \in Of(q.queue, a), Nonce[u] = p.nonces[a]
       PROVE  Of(R, a) # {}
  <2>1. u \in Of(valid, a)
        BY <1>7, <1>10, Zenon DEF Of
  <2>2. Ready(valid, a, p.nonces[a]) # {}
    <3> HIDE DEF valid
    <3> QED
        BY <1>1, <1>10, <2>1, ReadyLemma, Zenon
  <2>3. QED
        BY <1>4, <1>10, <2>2, Zenon
<1>11. q.queue \subseteq p.queue \ R /\ \A t \in R : Good(t) /\ t \in p.queue /\ From[t] \in accounts
       BY <1>3, <1>5, <1>7, Zenon
<1>12. QED
       BY <1>6, <1>7, <1>8, <1>9, <1>10, <1>11, Zenon

\* demoteUnexecutables: what is left starts at the state's nonce, and is not empty if there
\* was a good transaction at that nonce.
LEMMA DemoteLemma ==
    ASSUME NEW p, Agree(p), Holds(p.all), current \in Block, NEW q, q = demoteUnexecutables(p)
    PROVE  /\ q.pending \subseteq p.pending /\ q.nonces = p.nonces /\ q.all \subseteq p.all
           /\ \A t \in q.pending : Good(t)
           /\ \A t \in q.pending : \E u \in q.pending :
                 From[u] = From[t] /\ Nonce[u] = StateNonce[current][From[t]]
           /\ \A t \in p.pending :
                 Good(t) /\ Nonce[t] = StateNonce[current][From[t]] => t \in q.pending
           /\ \A t \in q.queue : t \in p.queue \/ (t \in p.pending /\ Good(t))
<1> DEFINE nonce(t) == StateNonce[current][From[t]]
<1>1. PICK olds, drops, invalids, left, gapped :
         /\ olds = {t \in p.pending : Nonce[t] < nonce(t)}
         /\ drops = (p.pending \ olds) \ Payable[current]
         /\ invalids = {t \in p.pending \ (olds \cup drops) :
                          \E u \in drops : From[t] = From[u] /\ Nonce[t] > Nonce[u]}
         /\ left = p.pending \ (olds \cup drops \cup invalids)
         /\ gapped = {t \in left : \A u \in Of(left, From[t]) : Nonce[u] # nonce(t)}
         /\ q = Enqueue(Pool(left \ gapped, p.queue, p.all \ (olds \cup drops), p.nonces),
                        invalids \cup gapped)
      BY ZenonT(30) DEF demoteUnexecutables
<1>2. \A t \in p.pending : Nonce[t] \in Nat /\ nonce(t) \in Nat
      BY TxPoolAssumption DEF Agree, Holds
<1>3. \A t \in p.pending : t \notin olds \cup drops <=> Good(t)
  <2>1. olds = {t \in p.pending : Nonce[t] < nonce(t)} /\ drops = (p.pending \ olds) \ Payable[current]
        BY <1>1, Zenon
  <2>2. QED
        BY <1>2, <2>1 DEF Good
<1>4. \A t \in p.pending : t \in drops => Nonce[t] >= nonce(t)
  <2>1. olds = {t \in p.pending : Nonce[t] < nonce(t)} /\ drops = (p.pending \ olds) \ Payable[current]
        BY <1>1, Zenon
  <2>2. QED
        BY <1>2, <2>1
<1>5. \A t \in gapped : t \in left /\ \A u \in left : From[u] = From[t] => Nonce[u] # nonce(t)
  <2>1. gapped = {t \in left : \A u \in Of(left, From[t]) : Nonce[u] # nonce(t)}
        BY <1>1, Zenon
  <2>2. QED
        BY <2>1, Zenon DEF Of
<1>6. \A t \in left : t \notin gapped => \E u \in left : From[u] = From[t] /\ Nonce[u] = nonce(t)
  <2>1. gapped = {t \in left : \A u \in Of(left, From[t]) : Nonce[u] # nonce(t)}
        BY <1>1, Zenon
  <2>2. QED
        BY <2>1, Zenon DEF Of
<1>7. \A t \in invalids : /\ t \in p.pending /\ t \notin olds \cup drops
                          /\ \E u \in drops : From[t] = From[u] /\ Nonce[t] > Nonce[u]
      BY <1>1, Zenon
<1>8. left = p.pending \ (olds \cup drops \cup invalids) /\ drops \subseteq p.pending
      BY <1>1, Zenon
<1>9. /\ q.pending = left \ gapped /\ q.nonces = p.nonces /\ q.all \subseteq p.all
      /\ q.queue \subseteq p.queue \cup invalids \cup gapped
  <2>1. q = Enqueue(Pool(left \ gapped, p.queue, p.all \ (olds \cup drops), p.nonces),
                    invalids \cup gapped)
        BY <1>1, Zenon
  <2>2. QED
        BY <2>1 DEF Enqueue, Pool, Added
<1>10. ASSUME NEW t \in q.pending
       PROVE  \E u \in q.pending : From[u] = From[t] /\ Nonce[u] = nonce(t)
       BY <1>5, <1>6, <1>9
<1>11. ASSUME NEW t \in p.pending, Good(t), Nonce[t] = nonce(t)
       PROVE  t \in q.pending
  <2>1. t \notin invalids
        BY <1>2, <1>4, <1>7, <1>8, <1>11
  <2>2. t \in left
        BY <1>3, <1>8, <1>11, <2>1, Zenon
  <2>3. QED
        BY <1>5, <1>9, <1>11, <2>2, Zenon
<1>12. \A t \in left \cup invalids \cup gapped : t \in p.pending /\ Good(t)
       BY <1>3, <1>5, <1>7, <1>8, Zenon
<1>13. QED
       BY <1>9, <1>10, <1>11, <1>12, Zenon

\* What has to be true of an account before promoteExecutables: Nonce returns no more than
\* the state's nonce, or there is a good transaction at that nonce.
Anchored(p, a) ==
    \/ p.nonces[a] <= StateNonce[current][a]
    \/ \E t \in Of(p.pending, a) : Good(t) /\ Nonce[t] = StateNonce[current][a]

\* What is true of an account once promoteExecutables, for some accounts, and, in a reset,
\* demoteUnexecutables have turned the pool into q.
Settled(q, a, accounts) ==
    /\ \A t \in Of(q.pending, a) : Good(t)
    /\ Of(q.pending, a) # {} => \E t \in Of(q.pending, a) : Nonce[t] = StateNonce[current][a]
    /\ Of(q.pending, a) = {} =>
          /\ q.nonces[a] = pool.nonces[a] /\ pool.nonces[a] <= StateNonce[current][a]
          /\ a \in accounts => \A u \in Of(q.queue, a) : Nonce[u] # pool.nonces[a]
          /\ a \notin accounts => Of(q.queue, a) \subseteq Of(pool.queue, a) /\ Of(pool.pending, a) = {}

\* A run for dirty accounts, of a pool in which everything pending is executable.
LEMMA PromoteSettles ==
    ASSUME NEW accounts, Agree(pool), TypedPool(pool), current \in Block,
           NEW a \in Account, Executable(pool, a)
    PROVE  Settled(promoteExecutables(pool, accounts), a, accounts)
<1> DEFINE s == StateNonce[current][a]
<1>0. PICK R, q : R = ReadyTxs(pool, accounts) /\ q = promoteExecutables(pool, accounts)
      BY Zenon
<1>1. /\ q.pending = pool.pending \cup R /\ q.queue \subseteq pool.queue
      /\ \A t \in R : Good(t) /\ From[t] \in accounts
      /\ Of(R, a) = {} => q.nonces[a] = pool.nonces[a]
      /\ Of(R, a) # {} /\ pool.nonces[a] <= s => \E f \in Of(R, a) : Nonce[f] = s
      /\ a \in accounts => \A u \in Of(q.queue, a) : Nonce[u] = pool.nonces[a] => Of(R, a) # {}
      BY <1>0, PromoteLemma
<1>2. Of(q.pending, a) = Of(pool.pending, a) \cup Of(R, a)
      BY <1>1, Zenon DEF Of
<1>3. \A t \in Of(q.pending, a) : Good(t)
      BY <1>1, <1>2, Zenon DEF Executable, Of
<1>4. ASSUME Of(q.pending, a) # {}
      PROVE  \E t \in Of(q.pending, a) : Nonce[t] = s
  <2>1. CASE Of(pool.pending, a) # {}
        BY <1>2, <2>1, Zenon DEF Executable
  <2>2. CASE Of(pool.pending, a) = {}
        BY <1>1, <1>2, <1>4, <2>2, Zenon DEF Executable
  <2>3. QED
        BY <2>1, <2>2, Zenon
<1>5. ASSUME Of(q.pending, a) = {}
      PROVE  /\ q.nonces[a] = pool.nonces[a] /\ pool.nonces[a] <= s
             /\ a \in accounts => \A u \in Of(q.queue, a) : Nonce[u] # pool.nonces[a]
             /\ a \notin accounts => Of(q.queue, a) \subseteq Of(pool.queue, a) /\ Of(pool.pending, a) = {}
  <2>1. Of(R, a) = {} /\ Of(pool.pending, a) = {}
        BY <1>2, <1>5, Zenon
  <2>2. QED
        BY <1>1, <2>1, Zenon DEF Executable, Of
<1>6. QED
      BY <1>0, <1>3, <1>4, <1>5, Zenon DEF Settled

\* A run that resets, of a pool in which every account is anchored.
LEMMA DemoteSettles ==
    ASSUME Agree(pool), TypedPool(pool), current \in Block,
           NEW a \in Account, Anchored(pool, a)
    PROVE  Settled(demoteUnexecutables(promoteExecutables(pool, Account)), a, Account)
<1> DEFINE s == StateNonce[current][a]
<1>0. PICK R, p1, q : /\ R = ReadyTxs(pool, Account) /\ p1 = promoteExecutables(pool, Account)
                      /\ q = demoteUnexecutables(p1)
      BY Zenon
<1>1. /\ p1.pending = pool.pending \cup R /\ p1.queue \subseteq pool.queue
      /\ \A t \in R : Good(t) /\ From[t] \in Account
      /\ Of(R, a) = {} => p1.nonces[a] = pool.nonces[a]
      /\ Of(R, a) # {} /\ pool.nonces[a] <= s => \E f \in Of(R, a) : Nonce[f] = s
      /\ a \in Account => \A u \in Of(p1.queue, a) : Nonce[u] = pool.nonces[a] => Of(R, a) # {}
      BY <1>0, PromoteLemma
<1>2. Agree(p1)
      BY <1>0, PromoteAgrees, Zenon
<1>3. Holds(p1.all)
  <2>1. p1.all \subseteq pool.all
        BY <1>0, Zenon DEF promoteExecutables, Pool
  <2>2. QED
        BY <2>1, HoldsLess, Zenon DEF TypedPool
<1>4. /\ q.pending \subseteq p1.pending /\ q.nonces = p1.nonces
      /\ \A t \in q.pending : Good(t)
      /\ \A t \in q.pending : \E u \in q.pending :
            From[u] = From[t] /\ Nonce[u] = StateNonce[current][From[t]]
      /\ \A t \in p1.pending : Good(t) /\ Nonce[t] = StateNonce[current][From[t]] => t \in q.pending
      /\ \A t \in q.queue : t \in p1.queue \/ (t \in p1.pending /\ Good(t))
      BY <1>0, <1>2, <1>3, DemoteLemma
<1>5. s \in Nat /\ pool.nonces[a] \in Nat /\ \A t \in p1.pending : Nonce[t] \in Nat
      BY <1>2, <1>3, TxPoolAssumption DEF TypedPool, Agree, Holds
<1>6. \A t \in Of(q.pending, a) : Good(t)
      BY <1>4, Zenon DEF Of
<1>7. ASSUME Of(q.pending, a) # {}
      PROVE  \E t \in Of(q.pending, a) : Nonce[t] = s
      BY <1>4, <1>7 DEF Of
<1>8. ASSUME Of(q.pending, a) = {}
      PROVE  /\ q.nonces[a] = pool.nonces[a] /\ pool.nonces[a] <= s
             /\ \A u \in Of(q.queue, a) : Nonce[u] # pool.nonces[a]
  <2>1. \A t \in p1.pending : From[t] = a /\ Good(t) => Nonce[t] # s
        BY <1>4, <1>8, Zenon DEF Of
  <2>2. pool.nonces[a] <= s
        BY <1>1, <2>1, Zenon DEF Anchored, Of
  <2>3. Of(R, a) = {}
        BY <1>1, <2>1, <2>2, Zenon DEF Of
  <2>4. ASSUME NEW u \in Of(q.queue, a), Nonce[u] = pool.nonces[a]
        PROVE  FALSE
    <3>1. CASE u \in p1.queue
          BY <1>1, <2>3, <2>4, <3>1, Zenon DEF Of
    <3>2. CASE u \in p1.pending /\ Good(u)
          BY <1>5, <2>1, <2>2, <2>4, <3>2 DEF Of, Good
    <3>3. QED
          BY <1>4, <2>4, <3>1, <3>2, Zenon DEF Of
  <2>5. QED
        BY <1>1, <1>4, <2>2, <2>3, <2>4, Zenon
<1>9. QED
      BY <1>0, <1>6, <1>7, <1>8, Zenon DEF Settled

\* truncatePending cuts no account below its first transaction.
LEMMA TruncateLemma ==
    ASSUME NEW p, Agree(p), Holds(p.all), NEW q, q = truncatePending(p), NEW a \in Account
    PROVE  /\ q.pending \subseteq p.pending /\ q.queue = p.queue /\ q.all \subseteq p.all
           /\ Of(p.pending, a) = {} => q.nonces[a] = p.nonces[a]
           /\ \A t \in Of(p.pending, a) :
                 (\A u \in Of(p.pending, a) : Nonce[t] <= Nonce[u]) => t \in q.pending
<1> DEFINE cut(n) == {t \in p.pending : From[t] \notin locals /\ t \notin Lowest(p.pending, From[t], n)}
           fits(n) == Cardinality(p.pending \ cut(n)) <= GlobalSlots
           levels == {AccountSlots} \cup {n \in AccountSlots .. Cardinality(p.pending) : fits(n)}
           level == CHOOSE n \in levels : \A m \in levels : m <= n
           caps == IF Cardinality(p.pending) <= GlobalSlots THEN {} ELSE cut(level)
           nonces == [b \in Account |-> Lower(p.nonces[b], {Nonce[t] : t \in Of(caps, b)})]
<1>1. q = Pool(p.pending \ caps, p.queue, p.all \ caps, nonces)
      BY Zenon DEF truncatePending
<1>2. AccountSlots \in Nat /\ AccountSlots >= 1
      BY TxPoolAssumption
<1>3. p.pending \subseteq Tx /\ Cardinality(p.pending) \in Nat
      BY FS_Subset, FS_CardinalityType, Zenon DEF Agree, Holds
<1>4. level \in Nat /\ level >= 1
  <2>1. levels \in SUBSET Nat /\ levels # {} /\ \A m \in levels : m >= 1
        BY <1>2, <1>3
  <2>2. \A m \in levels : m <= AccountSlots + Cardinality(p.pending)
        BY <1>2, <1>3
  <2>3. AccountSlots + Cardinality(p.pending) \in Nat
        BY <1>2, <1>3
  <2> HIDE DEF levels
  <2>4. \E n \in levels : \A m \in levels : m <= n
        BY <2>1, <2>2, <2>3, GreatestNatural, Zenon
  <2>5. level \in levels
        BY <2>4, Zenon
  <2>6. QED
        BY <2>1, <2>5, Zenon
<1> HIDE DEF level
<1>5. caps \subseteq p.pending
      BY Zenon
<1>6. ASSUME NEW t \in Of(p.pending, a), \A u \in Of(p.pending, a) : Nonce[t] <= Nonce[u]
      PROVE  t \notin caps
  <2>1. From[t] = a /\ \A u \in Of(p.pending, a) : Nonce[u] \in Nat /\ Nonce[t] \in Nat
        BY <1>3, TxPoolAssumption, Zenon DEF Of
  <2>2. {u \in Of(p.pending, a) : Nonce[u] < Nonce[t]} = {}
        BY <1>6, <2>1
  <2>3. Cardinality({u \in Of(p.pending, a) : Nonce[u] < Nonce[t]}) < level
        BY <1>4, <2>2, FS_EmptySet
  <2>4. t \in Lowest(p.pending, From[t], level)
        BY <2>1, <2>3, Zenon DEF Lowest
  <2>5. QED
        BY <2>4, Zenon
<1>7. ASSUME Of(p.pending, a) = {}
      PROVE  nonces[a] = p.nonces[a]
  <2>1. {Nonce[t] : t \in Of(caps, a)} = {}
        BY <1>5, <1>7, Zenon DEF Of
  <2> HIDE DEF caps
  <2>2. QED
        BY <2>1, LowerNone, Zenon
<1> HIDE DEF caps, nonces
<1>8. q.pending = p.pending \ caps /\ q.queue = p.queue /\ q.all = p.all \ caps /\ q.nonces = nonces
      BY <1>1 DEF Pool
<1>9. QED
      BY <1>6, <1>7, <1>8, Zenon DEF Of

\* The end of a run: truncatePending, truncateQueue and the setting of the nonces.
Ends(p2, r) ==
    \E p3, p : \E drop \in QueueOverflows(p3) :
        /\ p3 = truncatePending(p2) /\ p = Without(p3, drop)
        /\ r = Pool(p.pending, p.queue, p.all, NextNonces(p.nonces, p.pending))

\* After truncatePending, truncateQueue and the setting of the nonces a
\* settled account is executable and has nothing stranded that the run was to promote.
LEMMA RunSettles ==
    ASSUME NEW accounts, NEW p2, NEW r, NEW a \in Account,
           Agree(p2), Holds(p2.all), Settled(p2, a, accounts), current \in Block,
           Ends(p2, r), pool.nonces[a] \in Nat
    PROVE  /\ Executable(r, a) /\ r.nonces[a] \in Nat
           /\ r.all \subseteq p2.all /\ r.pending \subseteq p2.pending
           /\ Of(r.pending, a) = {} => r.nonces[a] = pool.nonces[a]
           /\ Stuck(r, a) => a \notin accounts /\ Stuck(pool, a)
<1> DEFINE s == StateNonce[current][a]
<1>0. PICK p3, p, drop :
         /\ p3 = truncatePending(p2) /\ drop \in QueueOverflows(p3) /\ p = Without(p3, drop)
         /\ r = Pool(p.pending, p.queue, p.all, NextNonces(p.nonces, p.pending))
      BY Zenon DEF Ends
<1>1. Agree(p3)
      BY <1>0, TruncateAgrees, Zenon
<1>2. /\ p3.pending \subseteq p2.pending /\ p3.queue = p2.queue /\ p3.all \subseteq p2.all
      /\ Of(p2.pending, a) = {} => p3.nonces[a] = p2.nonces[a]
      /\ \A t \in Of(p2.pending, a) :
            (\A u \in Of(p2.pending, a) : Nonce[t] <= Nonce[u]) => t \in p3.pending
      BY <1>0, TruncateLemma
<1>3. p3.pending \cap drop = {}
      BY <1>0, <1>1, Zenon DEF QueueOverflows, Agree
<1>4. p.pending = p3.pending /\ p.queue \subseteq p3.queue
      BY <1>0, <1>3, ZenonT(30) DEF Without, Enqueue, Pool, Added
<1>5. p.nonces[a] = p3.nonces[a]
  <2>1. NoncesOf(p3.pending \cap drop, a) = {}
        BY <1>3, Zenon DEF NoncesOf, Of
  <2>2. p.nonces[a] = Lower(p3.nonces[a], NoncesOf(p3.pending \cap drop, a))
        BY <1>0, WithoutNonces, ZenonT(30)
  <2>3. p.nonces[a] = Lower(p3.nonces[a], {})
        BY <2>1, <2>2, Zenon
  <2>4. QED
        BY <2>3, LowerNone, Zenon
<1>6. p.all \subseteq p3.all
      BY <1>0, <1>1, WithoutAgrees, Zenon
<1>7. /\ r.pending = p.pending /\ r.queue = p.queue /\ r.all = p.all
      /\ r.nonces = NextNonces(p.nonces, p.pending)
      BY <1>0, Zenon DEF Pool
<1>8. Holds(p.pending) /\ s \in Nat /\ \A t \in p2.pending : Nonce[t] \in Nat
  <2>1. p.pending \subseteq p2.all /\ p2.pending \subseteq Tx
        BY <1>2, <1>4, Zenon DEF Agree, Holds
  <2>2. Holds(p.pending)
        BY <2>1, HoldsLess, Zenon
  <2>3. QED
        BY <2>1, <2>2, TxPoolAssumption
<1>9. /\ Of(r.pending, a) = {} => r.nonces[a] = p.nonces[a]
      /\ Of(r.pending, a) # {} =>
            r.nonces[a] \in Nat /\ \A t \in Of(r.pending, a) : Nonce[t] < r.nonces[a]
      BY <1>7, <1>8, NextNoncesLemma
<1>10. Of(r.pending, a) \subseteq Of(p2.pending, a) /\ Of(r.queue, a) \subseteq Of(p2.queue, a)
       BY <1>2, <1>4, <1>7, Zenon DEF Of
<1>11. ASSUME Of(p2.pending, a) # {}
       PROVE  \E t \in Of(r.pending, a) : Nonce[t] = s
  <2>1. PICK t \in Of(p2.pending, a) : Nonce[t] = s
        BY <1>11, Zenon DEF Settled
  <2>2. \A u \in Of(p2.pending, a) : Nonce[t] <= Nonce[u]
        BY <2>1, Zenon DEF Settled, Good, Of
  <2>3. t \in p3.pending
        BY <1>2, <2>2, Zenon
  <2>4. QED
        BY <1>4, <1>7, <2>1, <2>3, Zenon DEF Of
<1>12. ASSUME Of(r.pending, a) = {}
       PROVE  Of(p2.pending, a) = {} /\ r.nonces[a] = pool.nonces[a] /\ pool.nonces[a] <= s
  <2>1. Of(p2.pending, a) = {}
        BY <1>11, <1>12, Zenon
  <2>2. QED
        BY <1>2, <1>5, <1>9, <1>12, <2>1, Zenon DEF Settled
<1>13. Executable(r, a)
  <2>1. \A t \in Of(r.pending, a) : Good(t) /\ Nonce[t] < r.nonces[a]
        BY <1>9, <1>10, ZenonT(30) DEF Settled
  <2>2. Of(r.pending, a) # {} => \E t \in Of(r.pending, a) : Nonce[t] = s
        BY <1>10, <1>11, Zenon
  <2>3. QED
        BY <1>12, <2>1, <2>2, Zenon DEF Executable
<1>14. r.nonces[a] \in Nat
       BY <1>9, <1>12, Zenon
<1>15. ASSUME Stuck(r, a)
       PROVE  a \notin accounts /\ Stuck(pool, a)
  <2>1. PICK t \in Of(r.queue, a) : Of(r.pending, a) = {} /\ Nonce[t] = r.nonces[a]
        BY <1>15, Zenon DEF Stuck, Stranded, Of
  <2>2. t \in Of(p2.queue, a) /\ Of(p2.pending, a) = {} /\ Nonce[t] = pool.nonces[a]
        BY <1>10, <1>12, <2>1, Zenon
  <2>3. a \notin accounts
        BY <2>2, Zenon DEF Settled
  <2>4. t \in Of(pool.queue, a) /\ Of(pool.pending, a) = {}
        BY <2>2, <2>3, Zenon DEF Settled
  <2>5. QED
        BY <2>2, <2>3, <2>4 DEF Stuck, Stranded, Of
<1>16. QED
       BY <1>2, <1>4, <1>6, <1>7, <1>12, <1>13, <1>14, <1>15, Zenon

-----------------------------------------------------------------------------
(***************************************************************************)
(* The pool and its callers.                                               *)
(***************************************************************************)
\* Every step of the pool and of its callers keeps the indexes in agreement.
LEMMA StepAgrees ==
    ASSUME Agree(pool), [Next]_vars
    PROVE  Agree(pool')
<1>1. CASE pool' = pool
      BY <1>1, Zenon
<1>2. ASSUME NEW arrival \in Arrivals, AddTxs(arrival[1], arrival[2])
      PROVE  Agree(pool')
      BY <1>2, AddAgrees, Zenon DEF AddTxs
<1>3. CASE Reset
  <2>1. CASE pool' = Pool(pool.pending, pool.queue, pool.all, StateNonce[run.to])
        BY <2>1, Zenon DEF Agree, Pool
  <2>2. QED
        BY <1>1, <1>3, <2>1, Zenon DEF Reset
<1>4. CASE Reinject
  <2>1. PICK t : \/ pool' = pool
                 \/ t \notin pool.all /\ \E from : add(t, FALSE, from)
        BY <1>4, Zenon DEF Reinject
  <2>2. QED
        BY <1>1, <2>1, AddAgrees, Zenon
<1>5. CASE ReorgRun
  <2>1. PICK accounts, p1, p2, p3, drop, p :
           /\ p1 = promoteExecutables(pool, accounts)
           /\ p2 = p1 \/ p2 = demoteUnexecutables(p1)
           /\ p3 = truncatePending(p2)
           /\ p = Without(p3, drop)
           /\ pool' = Pool(p.pending, p.queue, p.all, NextNonces(p.nonces, p.pending))
        BY <1>5 DEF ReorgRun
  <2>2. Agree(p1)
        BY <2>1, PromoteAgrees, Zenon
  <2>3. Agree(p2)
        BY <2>1, <2>2, DemoteAgrees, Zenon
  <2>4. Agree(p3)
        BY <2>1, <2>3, TruncateAgrees, Zenon
  <2>5. Agree(p)
        BY <2>1, <2>4, WithoutAgrees, Zenon
  <2>6. pool'.pending = p.pending /\ pool'.queue = p.queue /\ pool'.all = p.all
        BY <2>1, Zenon DEF Pool
  <2>7. QED
        BY <2>5, <2>6, Zenon DEF Agree
<1>6. ASSUME NEW a \in Account, Evict(a)
      PROVE  Agree(pool')
      BY <1>6, WithoutAgrees, Zenon DEF Evict
<1>7. ASSUME NEW price \in Prices, SetGasPrice(price)
      PROVE  Agree(pool')
      BY <1>7, WithoutAgrees, Zenon DEF SetGasPrice
<1>8. CASE RequestPromote \/ (\E b \in Block : RequestReset(b)) \/ Launch \/ Announce
  <2>1. pool' = pool
        BY <1>8, Zenon DEF RequestPromote, RequestReset, Launch, Announce
  <2>2. QED
        BY <1>1, <2>1, Zenon
<1>9. CASE UNCHANGED vars
      BY <1>1, <1>9, Zenon DEF vars
<1>10. QED
       BY <1>2, <1>3, <1>4, <1>5, <1>6, <1>7, <1>8, <1>9, Zenon DEF Next

\* In every behaviour of the pool, for every set of accounts, transactions and blocks and
\* all limits, what can be looked up is what is pending or queued, nothing is both, and an
\* account has one transaction for a nonce.
THEOREM IndexesAlwaysAgree == Spec => []IndexesAgree
<1>1. Init => Agree(pool)
      BY DEF Init, Agree, OneEach, Pool
<1>2. Agree(pool) /\ [Next]_vars => Agree(pool)'
      BY StepAgrees, Zenon DEF Agree, OneEach, SameSlot
<1>3. Agree(pool) => IndexesAgree
      BY Zenon DEF Agree, OneEach, IndexesAgree
<1>4. QED
      BY <1>1, <1>2, <1>3, PTL DEF Spec

-----------------------------------------------------------------------------
(***************************************************************************)
(* The inductive invariant.                                                *)
(***************************************************************************)
Stages == {"none", "launched", "reinject", "sending"}

TypesKept ==
    /\ TypedPool(pool)
    /\ current \in Block /\ head \in Block /\ resetFrom \in Block \cup {NoBlock}
    /\ asking \subseteq Account \cup {NoAccount} /\ dirty \subseteq Account \cup {NoAccount}
    /\ run \in [stage : Stages, from : Block \cup {NoBlock}, to : Block \cup {NoBlock},
                dirty : SUBSET (Account \cup {NoAccount}), events : SUBSET Tx, reinject : SUBSET Tx]
    /\ run.from # NoBlock => run.to \in Block
    /\ events \subseteq Tx

\* While a reset that did not give up holds the lock, Nonce returns no more than the state's
\* nonce, so that the events of what was replaced meanwhile are not dropped; at any other
\* time what is pending is executable.
StagesKept ==
    /\ run.stage \in {"none", "sending"} => run.from = NoBlock /\ run.dirty = {}
    /\ run.stage # "reinject" => run.reinject = {} /\ \A a \in Account : Executable(pool, a)
    /\ run.stage = "reinject" =>
          /\ run.from # NoBlock
          /\ \/ \A a \in Account : pool.nonces[a] <= StateNonce[current][a]
             \/ skipped /\ run.reinject = {} /\ \A a \in Account : Executable(pool, a)

\* Unless a reset is asked for or under way, a promotion is for every stuck account.
StuckAsked ==
    run.stage # "reinject" /\ resetFrom = NoBlock /\ run.from = NoBlock =>
        \A a \in Account : Stuck(pool, a) => a \in asking \cup dirty \cup run.dirty

\* Nonce is below the state's nonce only where a mined transaction was discarded.
SunkKept == \A a \in Account : pool.nonces[a] < StateNonce[current][a] => a \in sunk

PoolInv == Agree(pool) /\ TypesKept /\ StagesKept /\ StuckAsked /\ PendingAnnounced /\ SunkKept

\* While the lock is free, what is pending and leaves the pool is not mined.
LEMMA LoweredKept ==
    ASSUME SunkKept, Lowered(pool, pool'), TypedPool(pool), Agree(pool), current \in Block,
           \A a \in Account : Executable(pool, a), current' = current, sunk' = sunk
    PROVE  SunkKept'
<1> SUFFICES ASSUME NEW a \in Account, pool'.nonces[a] < StateNonce[current][a]
             PROVE  a \in sunk
    BY Zenon DEF SunkKept
<1>1. CASE pool'.nonces[a] = pool.nonces[a]
      BY <1>1, Zenon DEF SunkKept
<1>2. ASSUME NEW u \in pool.pending, From[u] = a, Nonce[u] = pool'.nonces[a]
      PROVE  FALSE
  <2>1. Nonce[u] >= StateNonce[current][a]
        BY <1>2, Zenon DEF Executable, Good, Of
  <2>2. Nonce[u] \in Nat /\ StateNonce[current][a] \in Nat
        BY TxPoolAssumption DEF TypedPool, Holds, Agree
  <2>3. QED
        BY <1>2, <2>1, <2>2
<1>3. QED
      BY <1>1, <1>2, Zenon DEF Lowered

\* The events of a transaction that stays pending are kept when another is added.
LEMMA EventsKept ==
    ASSUME NEW t, Agree(pool'), PendingAnnounced, skipped' = skipped, run'.events = run.events,
           announced' = announced \cap pool'.pending,
           pool'.pending \subseteq pool.pending \cup {t},
           t \in pool'.pending => events' = Put(events, {t}),
           t \notin pool'.pending => events' = events
    PROVE  PendingAnnounced'
<1> SUFFICES ASSUME ~skipped, NEW u \in pool'.pending
             PROVE  u \in announced' \cup events' \cup run'.events
    BY Zenon DEF PendingAnnounced
<1>1. CASE u = t
      BY <1>1, Zenon DEF Put
<1>2. CASE u # t
  <2>1. u \in announced \cup events \cup run.events
        BY <1>2, Zenon DEF PendingAnnounced
  <2>2. u \in events => u \in events'
        BY <1>2, Zenon DEF Put, Agree, OneEach
  <2>3. QED
        BY <2>1, <2>2, Zenon
<1>3. QED
      BY <1>1, <1>2, Zenon

\* Adding a transaction.
LEMMA AddStep ==
    ASSUME PoolInv, NEW t \in Tx, NEW local, AddTxs(t, local)
    PROVE  PoolInv'
<1>1. PICK from \in {From[t], NoAccount} : add(t, local, from) /\ asking' = asking \cup {from}
      BY Zenon DEF AddTxs
<1>2. /\ t \notin pool.all /\ run.stage # "reinject" /\ announced' = announced \cap pool'.pending
      /\ UNCHANGED <<gasPrice, current, head, resetFrom, dirty, run, heads, skipped, sunk>>
      BY Zenon DEF AddTxs, Unlocked
<1>3. Agree(pool) /\ TypedPool(pool) /\ current \in Block /\ \A a \in Account : Executable(pool, a)
      BY <1>2, Zenon DEF PoolInv, TypesKept, StagesKept
<1>4. Agree(pool')
      BY <1>1, <1>2, <1>3, AddAgrees, Zenon
<1>5. /\ TypedPool(pool')
      /\ pool'.pending \subseteq pool.pending \cup {t}
      /\ t \in pool'.pending => events' = Put(events, {t})
      /\ t \notin pool'.pending => events' = events
      BY <1>1, <1>2, <1>3, AddTyped, Zenon
<1>6. /\ \A a \in Account : Executable(pool', a)
      /\ \A a \in Account : Stuck(pool', a) => Stuck(pool, a) \/ a = from
      BY <1>1, <1>2, <1>3, AddExecutable, Zenon
<1>7. TypesKept'
  <2>1. events' \subseteq Tx /\ asking' \subseteq Account \cup {NoAccount}
        BY <1>1, <1>5, TxPoolAssumption DEF PoolInv, TypesKept, Put
  <2>2. TypedPool(pool)'
        BY <1>5, Zenon DEF TypedPool, Holds
  <2>3. QED
        BY <1>2, <2>1, <2>2, Zenon DEF PoolInv, TypesKept
<1>8. \A a \in Account : Executable(pool, a)'
      BY <1>2, <1>6, Zenon DEF Executable, Good, Of
<1>9. StagesKept'
      BY <1>2, <1>8, Zenon DEF PoolInv, StagesKept
<1>10. StuckAsked'
  <2>1. \A a \in Account : Stuck(pool, a)' => Stuck(pool, a) \/ a = from
        BY <1>6, Zenon DEF Stuck, Stranded, Of
  <2>2. QED
        BY <1>1, <1>2, <2>1, Zenon DEF PoolInv, StuckAsked
<1>11. PendingAnnounced'
       BY <1>2, <1>4, <1>5, EventsKept, Zenon DEF PoolInv
<1>12. Agree(pool)'
       BY <1>4, Zenon DEF Agree, OneEach, SameSlot
<1>13. SunkKept'
  <2>1. Lowered(pool, pool')
        BY <1>1, <1>2, <1>3, AddLowers, Zenon
  <2>2. QED
        BY <1>2, <1>3, <2>1, LoweredKept, Zenon DEF PoolInv
<1>14. QED
       BY <1>7, <1>9, <1>10, <1>11, <1>12, <1>13, Zenon DEF PoolInv

\* Removing transactions: the eviction of idle queues, a higher price.
LEMMA RemoveStep ==
    ASSUME PoolInv, NEW S, run.stage # "reinject", pool' = Without(pool, S),
           announced' = announced \/ announced' = announced \cap pool'.pending,
           UNCHANGED <<current, head, asking, resetFrom, dirty, events, run, skipped, sunk>>
    PROVE  PoolInv'
<1>1. Agree(pool) /\ TypedPool(pool) /\ current \in Block /\ \A a \in Account : Executable(pool, a)
      BY Zenon DEF PoolInv, TypesKept, StagesKept
<1>2. Agree(pool') /\ TypedPool(pool') /\ pool'.pending \subseteq pool.pending
      BY <1>1, WithoutAgrees, WithoutFields
<1>3. TypesKept'
  <2>1. TypedPool(pool)'
        BY <1>2, Zenon DEF TypedPool, Holds
  <2>2. QED
        BY <2>1, Zenon DEF PoolInv, TypesKept
<1>4. \A a \in Account : Executable(pool', a)
      BY <1>1, WithoutExecutable, Zenon
<1>5. StagesKept'
  <2>1. \A a \in Account : Executable(pool, a)'
        BY <1>4, Zenon DEF Executable, Good, Of
  <2>2. QED
        BY <2>1, Zenon DEF PoolInv, StagesKept
<1>6. StuckAsked'
  <2>1. ASSUME NEW a \in Account, Stuck(pool', a)
        PROVE  Stuck(pool, a)
    <3>1. PICK t \in Of(pool'.queue, a) : Stranded(pool', t)
          BY <2>1, Zenon DEF Stuck, Of
    <3>2. Stranded(pool, t)
          BY <1>1, <3>1, WithoutExecutable, Zenon
    <3>3. QED
          BY <3>1, <3>2, Zenon DEF Stuck, Of, Stranded
  <2>2. \A a \in Account : Stuck(pool, a)' => Stuck(pool, a)
        BY <2>1, Zenon DEF Stuck, Stranded, Of
  <2>3. QED
        BY <2>2, Zenon DEF PoolInv, StuckAsked
<1>7. PendingAnnounced'
      BY <1>2, Zenon DEF PoolInv, PendingAnnounced
<1>8. Agree(pool)'
      BY <1>2, Zenon DEF Agree, OneEach, SameSlot
<1>9. SunkKept'
  <2>1. Lowered(pool, pool')
        BY <1>1, WithoutLowers, Zenon
  <2>2. QED
        BY <1>1, <2>1, LoweredKept, Zenon DEF PoolInv
<1>10. QED
       BY <1>3, <1>5, <1>6, <1>7, <1>8, <1>9, Zenon DEF PoolInv

\* While pool and state stay what they are, so does what is executable and what is stuck.
LEMMA SamePool ==
    ASSUME pool' = pool, current' = current
    PROVE  /\ \A a \in Account : Executable(pool, a)' <=> Executable(pool, a)
           /\ \A a \in Account : Stuck(pool, a)' <=> Stuck(pool, a)
           /\ TypedPool(pool) => TypedPool(pool)'
           /\ Agree(pool) => Agree(pool)'
<1>1. \A a \in Account : Executable(pool, a)' <=> Executable(pool, a)
      BY Zenon DEF Executable, Good, Of
<1>2. \A a \in Account : Stuck(pool, a)' <=> Stuck(pool, a)
      BY Zenon DEF Stuck, Stranded, Of
<1>3. (TypedPool(pool) => TypedPool(pool)') /\ (Agree(pool) => Agree(pool)')
      BY Zenon DEF TypedPool, Holds, Agree, OneEach, SameSlot
<1>4. QED
      BY <1>1, <1>2, <1>3, Zenon

\* Asking for a promotion or a reset.
LEMMA RequestStep ==
    ASSUME PoolInv, RequestPromote \/ \E b \in Block : RequestReset(b)
    PROVE  PoolInv'
<1>1. /\ UNCHANGED <<pool, current, events, run, announced, skipped, sunk>>
      BY Zenon DEF RequestPromote, RequestReset
<1>2. Agree(pool)' /\ TypedPool(pool)'
      BY <1>1, SamePool, Zenon DEF PoolInv, TypesKept
<1>3. TypesKept'
  <2>1. CASE RequestPromote
        BY <1>1, <1>2, <2>1, Zenon DEF PoolInv, TypesKept, RequestPromote
  <2>2. ASSUME NEW b \in Block, RequestReset(b)
        PROVE  TypesKept'
        BY <1>1, <1>2, <2>2, Zenon DEF PoolInv, TypesKept, RequestReset
  <2>3. QED
        BY <2>1, <2>2, Zenon
<1>4. StagesKept'
  <2>1. \A a \in Account : Executable(pool, a)' <=> Executable(pool, a)
        BY <1>1, SamePool, Zenon
  <2>2. QED
        BY <1>1, <2>1, Zenon DEF PoolInv, StagesKept
<1>5. StuckAsked'
  <2>1. \A a \in Account : Stuck(pool, a)' <=> Stuck(pool, a)
        BY <1>1, SamePool, Zenon
  <2>2. CASE RequestPromote
    <3>1. resetFrom' = resetFrom /\ \A a \in Account : a \in asking \cup dirty => a \in asking' \cup dirty'
          BY <2>2, TxPoolAssumption, Zenon DEF RequestPromote
    <3>2. QED
          BY <1>1, <2>1, <3>1, Zenon DEF PoolInv, StuckAsked
  <2>3. ASSUME NEW b \in Block, RequestReset(b)
        PROVE  resetFrom' # NoBlock
        BY <2>3, TxPoolAssumption, Zenon DEF RequestReset, PoolInv, TypesKept
  <2>4. QED
        BY <2>2, <2>3, Zenon DEF StuckAsked
<1>6. PendingAnnounced' /\ SunkKept'
      BY <1>1, Zenon DEF PoolInv, PendingAnnounced, SunkKept
<1>7. QED
      BY <1>2, <1>3, <1>4, <1>5, <1>6, Zenon DEF PoolInv

\* The launch of a run and its end.
LEMMA LaunchStep ==
    ASSUME PoolInv, Launch \/ Announce
    PROVE  PoolInv'
<1>1. UNCHANGED <<pool, current, head, asking, skipped, sunk>>
      BY Zenon DEF Launch, Announce
<1>2. Agree(pool)' /\ TypedPool(pool)'
      BY <1>1, SamePool, Zenon DEF PoolInv, TypesKept
<1>3. TypesKept'
  <2>1. CASE Launch
        BY <1>1, <1>2, <2>1, Zenon DEF PoolInv, TypesKept, Launch, Stages
  <2>2. CASE Announce
        BY <1>1, <1>2, <2>2, Zenon DEF PoolInv, TypesKept, Announce, NoRun, Stages
  <2>3. QED
        BY <2>1, <2>2, Zenon
<1>4. run.stage # "reinject" /\ run'.stage # "reinject" /\ run'.reinject = {}
      BY DEF Launch, Announce, NoRun
<1>5. StagesKept'
  <2>1. \A a \in Account : Executable(pool, a)' <=> Executable(pool, a)
        BY <1>1, SamePool, Zenon
  <2>2. run'.stage \in {"none", "sending"} => run'.from = NoBlock /\ run'.dirty = {}
        BY DEF Launch, Announce, NoRun
  <2>3. QED
        BY <1>4, <2>1, <2>2, Zenon DEF PoolInv, StagesKept
<1>6. StuckAsked'
  <2>1. \A a \in Account : Stuck(pool, a)' <=> Stuck(pool, a)
        BY <1>1, SamePool, Zenon
  <2>2. ASSUME resetFrom' = NoBlock, run'.from = NoBlock
        PROVE  /\ resetFrom = NoBlock /\ run.from = NoBlock
               /\ dirty \cup run.dirty \subseteq dirty' \cup run'.dirty
    <3>1. CASE Launch
          BY <2>2, <3>1 DEF Launch, NoRun
    <3>2. CASE Announce
          BY <2>2, <3>2, Zenon DEF Announce, NoRun, PoolInv, StagesKept
    <3>3. QED
          BY <3>1, <3>2, Zenon
  <2>3. QED
        BY <1>1, <1>4, <2>1, <2>2, Zenon DEF PoolInv, StuckAsked
<1>7. PendingAnnounced'
  <2>1. CASE Launch
        BY <1>1, <2>1 DEF PoolInv, PendingAnnounced, Launch, NoRun
  <2>2. CASE Announce
        BY <1>1, <2>2 DEF PoolInv, PendingAnnounced, Announce, NoRun
  <2>3. QED
        BY <2>1, <2>2, Zenon
<1>8. SunkKept'
      BY <1>1, Zenon DEF PoolInv, SunkKept
<1>9. QED
      BY <1>2, <1>3, <1>5, <1>6, <1>7, <1>8, Zenon DEF PoolInv

\* The reset of a run.
LEMMA ResetStep ==
    ASSUME PoolInv, Reset
    PROVE  PoolInv'
<1> DEFINE old == run.from
           new == run.to
           discarded == UNION {Txs[b] : b \in Ancestry[old] \ Ancestry[new]}
           included == UNION {Txs[b] : b \in Ancestry[new] \ Ancestry[old]}
           reinject == IF old = Parent[new] \/ Deep(old, new) THEN {} ELSE discarded \ included
<1>1. /\ run.stage = "launched" /\ old # NoBlock
      /\ \/ /\ current' = new
            /\ pool' = Pool(pool.pending, pool.queue, pool.all, StateNonce[new])
            /\ run' = [run EXCEPT !.stage = "reinject", !.reinject = reinject]
            /\ sunk' = {} /\ UNCHANGED skipped
         \/ /\ run' = [run EXCEPT !.stage = "reinject"]
            /\ skipped' = TRUE
            /\ UNCHANGED <<pool, current, sunk>>
      /\ UNCHANGED <<locals, gasPrice, head, asking, resetFrom, dirty, events, announced, heads>>
      BY Zenon DEF Reset
<1>2. old \in Block /\ new \in Block
      BY <1>1, Zenon DEF PoolInv, TypesKept
<1>3. reinject \subseteq Tx
  <2>1. discarded \subseteq Tx
        BY <1>2, TxPoolAssumption
  <2> HIDE DEF discarded, included
  <2>2. QED
        BY <2>1, Zenon
<1>4. /\ pool'.pending = pool.pending /\ pool'.queue = pool.queue /\ pool'.all = pool.all
      /\ pool'.nonces \in [Account -> Nat] /\ current' \in Block
      BY <1>1, <1>2, TxPoolAssumption DEF Pool, PoolInv, TypesKept, TypedPool
<1> HIDE DEF reinject
<1>5. TypesKept'
  <2>1. TypedPool(pool)'
        BY <1>4, Zenon DEF PoolInv, TypesKept, TypedPool, Holds
  <2>2. run' \in [stage : Stages, from : Block \cup {NoBlock}, to : Block \cup {NoBlock},
                  dirty : SUBSET (Account \cup {NoAccount}), events : SUBSET Tx, reinject : SUBSET Tx]
        /\ run'.to \in Block
        BY <1>1, <1>2, <1>3, Zenon DEF PoolInv, TypesKept, Stages
  <2>3. QED
        BY <1>1, <1>4, <2>1, <2>2, Zenon DEF PoolInv, TypesKept
<1>6. run'.stage = "reinject" /\ run'.from = run.from /\ run'.events = run.events
      BY <1>1, Zenon DEF PoolInv, TypesKept
<1>7. \/ \A a \in Account : pool'.nonces[a] <= StateNonce[current'][a]
      \/ skipped' /\ run'.reinject = {} /\ \A a \in Account : Executable(pool, a)'
  <2>1. CASE current' = new /\ pool' = Pool(pool.pending, pool.queue, pool.all, StateNonce[new])
        BY <1>2, <2>1, TxPoolAssumption DEF Pool
  <2>2. CASE run' = [run EXCEPT !.stage = "reinject"] /\ skipped' /\ UNCHANGED <<pool, current>>
    <3>1. run'.reinject = {} /\ \A a \in Account : Executable(pool, a)
          BY <1>1, <2>2, Zenon DEF PoolInv, TypesKept, StagesKept
    <3>2. QED
          BY <2>2, <3>1, SamePool, Zenon
  <2>3. QED
        BY <1>1, <2>1, <2>2, Zenon
<1>8. StagesKept'
      BY <1>1, <1>6, <1>7, Zenon DEF StagesKept
<1>9. StuckAsked'
      BY <1>6, Zenon DEF StuckAsked
<1>10. PendingAnnounced'
       BY <1>1, <1>4, <1>6 DEF PoolInv, PendingAnnounced
<1>11. Agree(pool)'
       BY <1>4, Zenon DEF PoolInv, Agree, OneEach, SameSlot
<1>12. SunkKept'
  <2>1. CASE current' = new /\ pool' = Pool(pool.pending, pool.queue, pool.all, StateNonce[new])
    <3>1. \A a \in Account : pool'.nonces[a] = StateNonce[current'][a] /\ pool'.nonces[a] \in Nat
          BY <1>2, <2>1, TxPoolAssumption DEF Pool
    <3>2. QED
          BY <3>1 DEF SunkKept
  <2>2. CASE UNCHANGED <<pool, current, sunk>>
        BY <2>2, Zenon DEF PoolInv, SunkKept
  <2>3. QED
        BY <1>1, <2>1, <2>2, Zenon
<1>13. QED
       BY <1>5, <1>8, <1>9, <1>10, <1>11, <1>12, Zenon DEF PoolInv

\* The reinjection of a transaction.
LEMMA ReinjectStep ==
    ASSUME PoolInv, Reinject
    PROVE  PoolInv'
<1>1. PICK t \in run.reinject :
         /\ IF t \in pool.all THEN UNCHANGED <<pool, locals, events>>
            ELSE \E from \in {From[t], NoAccount} : add(t, FALSE, from)
         /\ run' = [run EXCEPT !.reinject = @ \ {t}]
      BY Zenon DEF Reinject
<1>2. /\ run.stage = "reinject" /\ announced' = announced \cap pool'.pending
      /\ sunk' = sunk \cup {From[u] : u \in Mined(pool) \ pool'.all}
      /\ UNCHANGED <<current, head, asking, resetFrom, dirty, skipped>>
      BY Zenon DEF Reinject
<1>3. Agree(pool) /\ TypedPool(pool) /\ t \in Tx
      BY <1>1, Zenon DEF PoolInv, TypesKept
<1>4. /\ Agree(pool') /\ TypedPool(pool')
      /\ \A a \in Account : pool'.nonces[a] <= pool.nonces[a]
      /\ pool'.pending \subseteq pool.pending \cup {t}
      /\ \/ /\ t \in pool'.pending => events' = Put(events, {t})
            /\ t \notin pool'.pending => events' = events
         \/ pool' = pool /\ events' = events
  <2>1. CASE t \in pool.all
        BY <1>1, <1>3, <2>1 DEF TypedPool
  <2>2. CASE t \notin pool.all
    <3>1. PICK from : add(t, FALSE, from)
          BY <1>1, <2>2, Zenon
    <3>2. Agree(pool')
          BY <1>3, <2>2, <3>1, AddAgrees, ZenonT(30)
    <3>3. QED
          BY <1>3, <2>2, <3>1, <3>2, AddTyped, Zenon
  <2>3. QED
        BY <2>1, <2>2, Zenon
<1>5. /\ run'.stage = "reinject" /\ run'.from = run.from /\ run'.to = run.to
      /\ run'.events = run.events /\ run'.reinject \subseteq Tx
      /\ run' \in [stage : Stages, from : Block \cup {NoBlock}, to : Block \cup {NoBlock},
                   dirty : SUBSET (Account \cup {NoAccount}), events : SUBSET Tx, reinject : SUBSET Tx]
      BY <1>1, <1>2, Zenon DEF PoolInv, TypesKept
<1>6. TypesKept'
  <2>1. TypedPool(pool)'
        BY <1>4, Zenon DEF TypedPool, Holds
  <2>2. events' \subseteq Tx
        BY <1>3, <1>4 DEF PoolInv, TypesKept, Put
  <2>3. QED
        BY <1>2, <1>5, <2>1, <2>2, Zenon DEF PoolInv, TypesKept
<1>7. \A a \in Account : pool'.nonces[a] <= StateNonce[current'][a]
  <2>1. \A a \in Account : pool.nonces[a] <= StateNonce[current][a]
        BY <1>1, <1>2, Zenon DEF PoolInv, StagesKept
  <2>2. \A a \in Account : /\ pool.nonces[a] \in Nat /\ pool'.nonces[a] \in Nat
                           /\ StateNonce[current][a] \in Nat
        BY <1>3, <1>4, TxPoolAssumption DEF PoolInv, TypesKept, TypedPool
  <2>3. QED
        BY <1>2, <1>4, <2>1, <2>2
<1>8. StagesKept'
      BY <1>2, <1>5, <1>7, Zenon DEF PoolInv, StagesKept
<1>9. StuckAsked'
      BY <1>5, Zenon DEF StuckAsked
<1>10. PendingAnnounced'
  <2>1. CASE pool' = pool /\ events' = events
        BY <1>2, <1>5, <2>1, Zenon DEF PoolInv, PendingAnnounced
  <2>2. CASE /\ t \in pool'.pending => events' = Put(events, {t})
             /\ t \notin pool'.pending => events' = events
        BY <1>2, <1>4, <1>5, <2>2, EventsKept, Zenon DEF PoolInv
  <2>3. QED
        BY <1>4, <2>1, <2>2, Zenon
<1>11. Agree(pool)'
       BY <1>4, Zenon DEF Agree, OneEach, SameSlot
<1>12. SunkKept'
  <2> SUFFICES ASSUME NEW a \in Account, pool'.nonces[a] < StateNonce[current][a]
               PROVE  a \in sunk'
      BY <1>2, Zenon DEF SunkKept
  <2>1. Lowered(pool, pool')
    <3>1. CASE t \in pool.all
          BY <1>1, <3>1, Zenon DEF Lowered
    <3>2. CASE t \notin pool.all
          BY <1>1, <1>3, <3>2, AddLowers, Zenon
    <3>3. QED
          BY <3>1, <3>2, Zenon
  <2>2. CASE pool'.nonces[a] = pool.nonces[a]
        BY <1>2, <2>2, Zenon DEF PoolInv, SunkKept
  <2>3. ASSUME NEW u \in pool.pending \ pool'.all, From[u] = a, Nonce[u] = pool'.nonces[a]
        PROVE  a \in sunk'
    <3>1. u \in Mined(pool)
          BY <2>3, Zenon DEF Mined
    <3>2. QED
          BY <1>2, <2>3, <3>1, Zenon
  <2>4. QED
        BY <2>1, <2>2, <2>3, Zenon DEF Lowered
<1>13. QED
       BY <1>6, <1>8, <1>9, <1>10, <1>11, <1>12, Zenon DEF PoolInv

\* The rest of the run.
LEMMA ReorgStep ==
    ASSUME PoolInv, ReorgRun
    PROVE  PoolInv'
<1> DEFINE resetting == run.from # NoBlock
<1>1. PICK A, R, fresh, p1, p2, p3, drop, p, r :
         /\ A = (IF resetting THEN Account ELSE run.dirty \ {NoAccount})
         /\ R = ReadyTxs(pool, A)
         /\ fresh = (IF resetting THEN {e \in run.events : Nonce[e] >= pool.nonces[From[e]]}
                     ELSE run.events)
         /\ p1 = promoteExecutables(pool, A)
         /\ p2 = (IF resetting THEN demoteUnexecutables(p1) ELSE p1)
         /\ p3 = truncatePending(p2) /\ drop \in QueueOverflows(p3) /\ p = Without(p3, drop)
         /\ r = Pool(p.pending, p.queue, p.all, NextNonces(p.nonces, p.pending))
         /\ pool' = r
         /\ \/ run.stage = "launched" /\ ~resetting
            \/ run.stage = "reinject" /\ run.reinject = {}
         /\ run' = [NoRun EXCEPT !.stage = "sending",
                                !.events = Put(fresh, R \ Refused(pool.pending, R))]
         /\ announced' = (announced \ (R \ Refused(pool.pending, R))) \cap pool'.pending
         /\ UNCHANGED <<current, head, asking, resetFrom, dirty, events, skipped, sunk>>
      BY ZenonT(30) DEF ReorgRun
<1>2. /\ p3 = truncatePending(p2) /\ drop \in QueueOverflows(p3) /\ p = Without(p3, drop)
      /\ r = Pool(p.pending, p.queue, p.all, NextNonces(p.nonces, p.pending))
      BY <1>1, Zenon
<1>3. p2 = IF resetting THEN demoteUnexecutables(p1) ELSE p1
      BY <1>1, Zenon
<1>4. Agree(pool) /\ TypedPool(pool) /\ current \in Block
      BY Zenon DEF PoolInv, TypesKept
<1>5. run.stage = "reinject" <=> resetting
      BY <1>1, Zenon DEF PoolInv, StagesKept
<1>6. R = ReadyTxs(pool, A) /\ p1 = promoteExecutables(pool, A)
      BY <1>1, Zenon
<1>7. A = IF resetting THEN Account ELSE run.dirty \ {NoAccount}
      BY <1>1, Zenon
<1>8. R \subseteq pool.queue /\ Refused(pool.pending, R) = {} /\ Beaten(pool.pending, R) = {}
  <2>1. R \subseteq pool.queue
        BY <1>6, Zenon DEF ReadyTxs, Ready, Of
  <2>2. QED
        BY <1>4, <2>1, Zenon DEF Agree, OneEach, Refused, Beaten
<1>9. p1.pending = pool.pending \cup R /\ p1.all \subseteq pool.all
      BY <1>6, <1>8, Zenon DEF promoteExecutables, Pool, Added
<1>10. Agree(p1) /\ Holds(p1.all)
  <2>1. Agree(p1)
        BY <1>4, <1>6, PromoteAgrees, Zenon
  <2>2. QED
        BY <1>4, <1>9, <2>1, HoldsLess, Zenon DEF TypedPool
<1>11. Agree(p2) /\ Holds(p2.all) /\ p2.pending \subseteq p1.pending
  <2>1. CASE ~resetting
        BY <1>3, <1>10, <2>1, Zenon
  <2>2. CASE resetting
    <3>1. Agree(p2) /\ p2.pending \subseteq p1.pending /\ p2.all \subseteq p1.all
          BY <1>3, <1>4, <1>10, <2>2, DemoteAgrees, DemoteLemma, Zenon
    <3>2. QED
          BY <1>10, <3>1, HoldsLess, Zenon
  <2>3. QED
        BY <2>1, <2>2, Zenon
<1>12. \A a \in Account : Settled(p2, a, A)
  <2>1. CASE ~resetting
    <3>1. \A a \in Account : Executable(pool, a)
          BY <1>5, <2>1, Zenon DEF PoolInv, StagesKept
    <3>2. QED
          BY <1>3, <1>4, <1>6, <2>1, <3>1, PromoteSettles, Zenon
  <2>2. CASE resetting
    <3>1. ASSUME NEW a \in Account
          PROVE  Anchored(pool, a)
          BY <1>5, <2>2, Zenon DEF PoolInv, StagesKept, Anchored, Executable
    <3>2. A = Account /\ p2 = demoteUnexecutables(promoteExecutables(pool, Account))
          BY <1>3, <1>6, <1>7, <2>2, Zenon
    <3>3. QED
          BY <1>4, <3>1, <3>2, DemoteSettles, Zenon
  <2>3. QED
        BY <2>1, <2>2, Zenon
<1>13. ASSUME NEW a \in Account
       PROVE  /\ Executable(r, a) /\ r.nonces[a] \in Nat
              /\ Of(r.pending, a) = {} => r.nonces[a] = pool.nonces[a]
              /\ Stuck(r, a) => a \notin A /\ Stuck(pool, a)
  <2>1. pool.nonces[a] \in Nat
        BY <1>4, Zenon DEF TypedPool
  <2>2. Settled(p2, a, A)
        BY <1>12, Zenon
  <2>3. Ends(p2, r)
        BY <1>2, Zenon DEF Ends
  <2>4. QED
        BY <1>4, <1>11, <2>1, <2>2, <2>3, RunSettles
<1>14. Agree(p3) /\ Agree(p) /\ p.all \subseteq p3.all
  <2>1. Agree(p3)
        BY <1>2, <1>11, TruncateAgrees, Zenon
  <2>2. p = Without(p3, drop)
        BY <1>2, Zenon
  <2>3. QED
        BY <2>1, <2>2, WithoutAgrees
<1>15. /\ r.pending = p.pending /\ r.queue = p.queue /\ r.all = p.all
       /\ r.nonces = NextNonces(p.nonces, p.pending)
       BY <1>2, Zenon DEF Pool
<1>16. r.pending \subseteq p2.pending /\ r.all \subseteq p2.all
  <2>1. p3.pending \subseteq p2.pending /\ p3.all \subseteq p2.all
        BY <1>2, ZenonT(30) DEF truncatePending, Pool
  <2>2. p.pending \subseteq p3.pending
        BY <1>2, Zenon DEF Without, Enqueue, Pool
  <2>3. QED
        BY <1>14, <1>15, <2>1, <2>2, Zenon
<1>17. TypedPool(r)
  <2>1. r.nonces \in [Account -> Nat]
    <3>1. DOMAIN r.nonces = Account /\ r.nonces = [a \in Account |-> r.nonces[a]]
          BY <1>15, Zenon DEF NextNonces
    <3>2. QED
          BY <1>13, <3>1, Zenon
  <2>2. QED
        BY <1>11, <1>16, <2>1, HoldsLess, Zenon DEF TypedPool
<1>18. /\ pool' = r /\ announced' = (announced \ R) \cap r.pending
       /\ UNCHANGED <<current, head, asking, resetFrom, dirty, events, skipped, sunk>>
       /\ run' = [stage |-> "sending", from |-> NoBlock, to |-> NoBlock, dirty |-> {},
                  events |-> Put(fresh, R), reinject |-> {}]
       BY <1>1, <1>8, ZenonT(30) DEF NoRun
<1>0. fresh = IF resetting THEN {e \in run.events : Nonce[e] >= pool.nonces[From[e]]}
              ELSE run.events
      BY <1>1, Zenon
<1>19. TypesKept'
  <2>1. TypedPool(pool)'
        BY <1>17, <1>18, ZenonT(30) DEF TypedPool, Holds
  <2>2. Put(fresh, R) \subseteq Tx
        BY <1>0, <1>4, <1>8, ZenonT(30) DEF Put, PoolInv, TypesKept, Agree, TypedPool, Holds
  <2>3. QED
        BY <1>18, <2>1, <2>2, Zenon DEF PoolInv, TypesKept, Stages
<1>20. StagesKept'
  <2>1. \A a \in Account : Executable(pool, a)'
        BY <1>13, <1>18, Zenon DEF Executable, Good, Of
  <2>2. QED
        BY <1>18, <2>1, Zenon DEF StagesKept
<1>21. StuckAsked'
  <2>1. \A a \in Account : Stuck(pool, a)' => a \notin A /\ Stuck(pool, a)
        BY <1>13, <1>18 DEF Stuck, Stranded, Of
  <2>2. CASE resetting
        BY <1>7, <2>1, <2>2, Zenon DEF StuckAsked
  <2>3. CASE ~resetting
    <3>1. resetFrom = NoBlock =>
             \A a \in Account : Stuck(pool, a) => a \in asking \cup dirty \cup run.dirty
          BY <1>5, <2>3, Zenon DEF PoolInv, StuckAsked
    <3>2. QED
          BY <1>7, <1>18, <2>1, <2>3, <3>1, TxPoolAssumption, Zenon DEF StuckAsked
  <2>4. QED
        BY <2>2, <2>3, Zenon
<1>22. PendingAnnounced'
  <2> SUFFICES ASSUME ~skipped, NEW u \in r.pending, u \notin R
               PROVE  u \in announced' \cup events' \cup run'.events
      BY <1>18, Zenon DEF PendingAnnounced, Put
  <2>1. u \in p2.pending /\ u \in pool.pending
        BY <1>9, <1>11, <1>16, Zenon
  <2>2. CASE u \in announced \cup events
        BY <1>18, <2>2, Zenon
  <2>3. CASE u \in run.events
    <3>1. \A t \in R : ~SameSlot(u, t)
          BY <1>4, <1>8, <2>1, Zenon DEF Agree, OneEach
    <3>2. u \in fresh
      <4>1. CASE ~resetting
            BY <1>0, <2>3, <4>1, Zenon
      <4>2. CASE resetting
        <5>1. u \in Tx /\ From[u] \in Account /\ Nonce[u] \in Nat
              BY <1>4, <2>1, TxPoolAssumption, Zenon DEF TypedPool, Holds, Agree
        <5>2. Nonce[u] >= StateNonce[current][From[u]]
              BY <1>12, <2>1, <5>1, Zenon DEF Settled, Good, Of
        <5>3. pool.nonces[From[u]] <= StateNonce[current][From[u]]
              BY <1>5, <4>2, <5>1, Zenon DEF PoolInv, StagesKept
        <5>4. pool.nonces[From[u]] \in Nat /\ StateNonce[current][From[u]] \in Nat
              BY <1>4, <5>1, TxPoolAssumption DEF TypedPool
        <5>5. QED
              BY <1>0, <2>3, <4>2, <5>1, <5>2, <5>3, <5>4
      <4>3. QED
            BY <4>1, <4>2, Zenon
    <3>3. QED
          BY <1>18, <3>1, <3>2, Zenon DEF Put
  <2>4. QED
        BY <2>1, <2>2, <2>3, Zenon DEF PoolInv, PendingAnnounced
<1>23. Agree(pool)'
       BY <1>14, <1>15, <1>18, Zenon DEF Agree, OneEach, SameSlot
<1>24. SunkKept'
  <2> SUFFICES ASSUME NEW a \in Account, r.nonces[a] < StateNonce[current][a]
               PROVE  a \in sunk
      BY <1>18, Zenon DEF SunkKept
  <2>1. CASE Of(r.pending, a) = {}
        BY <1>13, <2>1, Zenon DEF PoolInv, SunkKept
  <2>2. CASE Of(r.pending, a) # {}
    <3>1. PICK t \in Of(r.pending, a) : Nonce[t] = StateNonce[current][a] /\ Nonce[t] < r.nonces[a]
          BY <1>13, <2>2, Zenon DEF Executable
    <3>2. r.nonces[a] \in Nat /\ StateNonce[current][a] \in Nat
          BY <1>4, <1>13, TxPoolAssumption
    <3>3. QED
          BY <3>1, <3>2
  <2>3. QED
        BY <2>1, <2>2, Zenon
<1>25. QED
       BY <1>19, <1>20, <1>21, <1>22, <1>23, <1>24, Zenon DEF PoolInv

\* PoolInv is inductive.
LEMMA StepPoolInv ==
    ASSUME PoolInv, [Next]_vars
    PROVE  PoolInv'
<1>1. ASSUME NEW arrival \in Arrivals, AddTxs(arrival[1], arrival[2])
      PROVE  PoolInv'
  <2>1. arrival[1] \in Tx
        BY TxPoolAssumption, Zenon
  <2>2. QED
        BY <1>1, <2>1, AddStep, Zenon
<1>2. CASE RequestPromote \/ \E b \in Block : RequestReset(b)
      BY <1>2, RequestStep, Zenon
<1>3. CASE Launch \/ Announce
      BY <1>3, LaunchStep, Zenon
<1>4. CASE Reset
      BY <1>4, ResetStep, Zenon
<1>5. CASE Reinject
      BY <1>5, ReinjectStep, Zenon
<1>6. CASE ReorgRun
      BY <1>6, ReorgStep, Zenon
<1>7. ASSUME NEW a \in Account, Evict(a)
      PROVE  PoolInv'
      BY <1>7, RemoveStep, Zenon DEF Evict, Unlocked
<1>8. ASSUME NEW price \in Prices, SetGasPrice(price)
      PROVE  PoolInv'
      BY <1>8, RemoveStep, Zenon DEF SetGasPrice, Unlocked
<1>9. CASE UNCHANGED vars
  <2>1. /\ \A a \in Account : Executable(pool, a)' <=> Executable(pool, a)
        /\ \A a \in Account : Stuck(pool, a)' <=> Stuck(pool, a)
        /\ TypedPool(pool)' /\ Agree(pool)'
        BY <1>9, SamePool, Zenon DEF vars, PoolInv, TypesKept
  <2>2. TypesKept'
        BY <1>9, <2>1, Zenon DEF vars, PoolInv, TypesKept
  <2>3. StagesKept' /\ StuckAsked'
        BY <1>9, <2>1, Zenon DEF vars, PoolInv, StagesKept, StuckAsked
  <2>4. PendingAnnounced' /\ SunkKept'
        BY <1>9, Zenon DEF vars, PoolInv, PendingAnnounced, SunkKept
  <2>5. QED
        BY <2>1, <2>2, <2>3, <2>4, Zenon DEF PoolInv
<1>10. QED
       BY <1>1, <1>2, <1>3, <1>4, <1>5, <1>6, <1>7, <1>8, <1>9, Zenon DEF Next

\* PoolInv holds in every state of the pool.
THEOREM PoolInvariant == Spec => []PoolInv
<1>1. Init => PoolInv
  <2> SUFFICES ASSUME Init
               PROVE  PoolInv
      BY Zenon
  <2>1. /\ pool.pending = {} /\ pool.queue = {} /\ pool.all = {}
        /\ pool.nonces = StateNonce[Genesis] /\ current = Genesis
        BY Zenon DEF Init, Pool
  <2>2. Holds({})
        BY FS_EmptySet, 0 \in Nat, Zenon DEF Holds
  <2>3. TypesKept
        BY <2>1, <2>2, TxPoolAssumption, Zenon DEF Init, TypesKept, TypedPool, NoRun, Stages
  <2>4. \A a \in Account : StateNonce[Genesis][a] \in Nat
        BY TxPoolAssumption
  <2>5. ASSUME NEW a \in Account
        PROVE  Executable(pool, a)
    <3>1. Of(pool.pending, a) = {}
          BY <2>1, Zenon DEF Of
    <3>2. pool.nonces[a] <= StateNonce[current][a]
          BY <2>1, <2>4
    <3>3. QED
          BY <3>1, <3>2, Zenon DEF Executable
  <2>6. StagesKept
        BY <2>5, Zenon DEF Init, StagesKept, NoRun
  <2>7. StuckAsked /\ PendingAnnounced /\ Agree(pool)
        BY <2>1, Zenon DEF StuckAsked, Stuck, PendingAnnounced, Agree, OneEach
  <2>8. SunkKept
        BY <2>1, <2>4 DEF SunkKept
  <2>9. QED
        BY <2>3, <2>6, <2>7, <2>8, Zenon DEF PoolInv
<1>2. PoolInv /\ [Next]_vars => PoolInv'
      BY StepPoolInv, Zenon
<1>3. QED
      BY <1>1, <1>2, PTL DEF Spec

\* In every behaviour of the pool, for every set of accounts, transactions and blocks and
\* all limits, whenever the lock is free the pending transactions of an account start at
\* its nonce in the pool's state and Nonce is above them; if there are none, Nonce is the
\* state's nonce, or below it if the last reset discarded a mined transaction of the account.
THEOREM PendingAlwaysExecutable == Spec => []PendingExecutable
<1>1. PoolInv => PendingExecutable
  <2> SUFFICES ASSUME PoolInv, run.stage # "reinject", NEW a \in Account
               PROVE  LET nonces == {Nonce[t] : t \in Of(pool.pending, a)}
                          state == StateNonce[current][a]
                      IN  IF nonces = {}
                          THEN pool.nonces[a] = state \/ (pool.nonces[a] < state /\ a \in sunk)
                          ELSE /\ state \in nonces
                               /\ \A n \in nonces : state <= n /\ n < pool.nonces[a]
      BY ZenonT(30) DEF PendingExecutable, Unlocked
  <2> DEFINE nonces == {Nonce[t] : t \in Of(pool.pending, a)}
  <2>1. Executable(pool, a)
        BY Zenon DEF PoolInv, StagesKept
  <2>2. StateNonce[current][a] \in Nat /\ pool.nonces[a] \in Nat
        BY TxPoolAssumption DEF PoolInv, TypesKept, TypedPool
  <2>3. CASE Of(pool.pending, a) = {}
    <3>1. pool.nonces[a] <= StateNonce[current][a]
          BY <2>1, <2>3, Zenon DEF Executable
    <3>2. pool.nonces[a] = StateNonce[current][a] \/ pool.nonces[a] < StateNonce[current][a]
          BY <2>2, <3>1
    <3>3. QED
          BY <2>3, <3>2, Zenon DEF PoolInv, SunkKept
  <2>4. CASE Of(pool.pending, a) # {}
    <3>1. StateNonce[current][a] \in nonces
          BY <2>1, <2>4, Zenon DEF Executable
    <3>2. \A t \in Of(pool.pending, a) : Nonce[t] \in Nat /\ From[t] = a
          BY TxPoolAssumption, Zenon DEF PoolInv, TypesKept, TypedPool, Holds, Agree, Of
    <3>3. \A t \in Of(pool.pending, a) : StateNonce[current][a] <= Nonce[t] /\ Nonce[t] < pool.nonces[a]
          BY <2>1, <2>2, <3>2, Zenon DEF Executable, Good
    <3>4. QED
          BY <3>1, <3>3, Zenon
  <2>5. QED
        BY <2>3, <2>4, Zenon
<1>2. QED
      BY <1>1, PoolInvariant, PTL

\* In every behaviour of the pool in which no reset gives up, a pending transaction has
\* been announced, or its event is with the current or the next run.
THEOREM PendingAlwaysAnnounced == Spec => []PendingAnnounced
<1>1. PoolInv => PendingAnnounced
      BY Zenon DEF PoolInv
<1>2. QED
      BY <1>1, PoolInvariant, PTL

\* In every behaviour of the pool, with any interleaving of callers, heads and runs, a
\* transaction at the state's nonce stays in the queue of an account with nothing pending
\* only while a promotion of the account is asked for, or where removeTx has lowered the
\* pending nonce for a mined transaction that the last reset discarded.
THEOREM NoneEverStranded == Spec => []NoneStranded
<1>1. PoolInv => NoneStranded
  <2> SUFFICES ASSUME PoolInv, NEW t \in pool.queue,
                      run.stage # "reinject", run.stage # "launched", resetFrom = NoBlock,
                      Of(pool.pending, From[t]) = {}, Nonce[t] = StateNonce[current][From[t]]
               PROVE  \/ From[t] \in asking \cup dirty
                      \/ From[t] \in sunk /\ pool.nonces[From[t]] < StateNonce[current][From[t]]
      BY Zenon DEF NoneStranded, Unlocked
  <2>1. run.from = NoBlock /\ run.dirty = {}
        BY Zenon DEF PoolInv, TypesKept, StagesKept, Stages
  <2>2. From[t] \in Account
        BY TxPoolAssumption, Zenon DEF PoolInv, TypesKept, TypedPool, Holds, Agree
  <2>3. CASE pool.nonces[From[t]] = StateNonce[current][From[t]]
    <3>1. Stuck(pool, From[t])
          BY <2>3, Zenon DEF Stuck, Stranded
    <3>2. QED
          BY <2>1, <2>2, <3>1, Zenon DEF PoolInv, StuckAsked
  <2>4. CASE pool.nonces[From[t]] # StateNonce[current][From[t]]
    <3>1. pool.nonces[From[t]] <= StateNonce[current][From[t]]
          BY <2>2, Zenon DEF PoolInv, StagesKept, Executable
    <3>2. StateNonce[current][From[t]] \in Nat /\ pool.nonces[From[t]] \in Nat
          BY <2>2, TxPoolAssumption DEF PoolInv, TypesKept, TypedPool
    <3>3. pool.nonces[From[t]] < StateNonce[current][From[t]]
          BY <2>4, <3>1, <3>2
    <3>4. QED
          BY <2>2, <3>3, Zenon DEF PoolInv, SunkKept
  <2>5. QED
        BY <2>3, <2>4, Zenon
<1>2. QED
      BY <1>1, PoolInvariant, PTL
=============================================================================
