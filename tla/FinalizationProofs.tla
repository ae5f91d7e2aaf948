-------------------------- MODULE FinalizationProofs --------------------------
(***************************************************************************)
(* Proofs, for every set of validators, users and candidate lists, of the  *)
(* safety properties of Finalization: what the system transactions at the  *)
(* end of a block do to the contracts, and that the block a validator      *)
(* makes is the block that the other nodes accept.                         *)
(***************************************************************************)
EXTENDS ValidatorChainProofs, Finalization, SequenceTheorems

Accounts == Addr \cup Senders

\* What a transaction carries: a candidate list, a set of validators or a validator.
Args == CandidateLists \cup (SUBSET Addr) \cup Addr

Contracts == {ValidatorContract, SlashContract}

Methods == {"user", "initialize", "slash", "distributeBlockReward",
            "updateActivatedValidators", "decreaseMissedBlocksCounter"}

Errors == {OK, errInvalidValidatorsLength, errInvalidGasPrice, errMissingSystemTx,
           errWrongSystemTx, "apply message failed"}

Txs == [from : Accounts, to : Contracts \cup {"other"}, method : Methods, arg : Args, value : Nat,
        price : Nat, nonce : Nat]

Worlds == [pool : Nat, contract : Nat, missed : [Addr -> Nat], candidates : CandidateLists,
           nonce : [Accounts -> Nat], initialized : SUBSET Contracts, fees : Nat]

Execs == [err : Errors, world : Worlds, txs : Seq(Txs), received : Seq(Txs)]

\* Snapshots and headers that Prepare and Finalize meet.
GoodSnap(s) == s.Number \in Nat /\ s.Validators \in (SUBSET Addr) \ {{}}

Begins(s, t) == Len(s) <= Len(t) /\ \A i \in 1 .. Len(s) : t[i] = s[i]

\* What SlashedJustly asks of the validator that is slashed for a block.
Deserved(s, header, v) ==
    /\ header.difficulty = calcDifficulty(s, header.coinbase) => v # header.coinbase
    /\ inturn(s, header.number, v)
    /\ Seals(s, header.number, v)

\* One execution comes from another: without an error only if that had none, with the
\* same fees, with gain more in the pool and the contract, and with all of its
\* transactions and then system transactions, of which none slashes unjustly.
Extends(s, header, e, r, gain) ==
    /\ r \in Execs
    /\ Begins(e.txs, r.txs)
    /\ \A i \in Len(e.txs) + 1 .. Len(r.txs) :
          /\ IsSystemTransaction(r.txs[i], header)
          /\ r.txs[i].method = "slash" => Deserved(s, header, r.txs[i].arg)
    /\ r.err = OK =>
          /\ e.err = OK
          /\ r.world.fees = e.world.fees
          /\ r.world.pool + r.world.contract = e.world.pool + e.world.contract + gain

KeepsPool(e, r) == r.err = OK => r.world.pool = e.world.pool

\* The transaction that applyTransaction makes.
SystemTx(header, exec, to, method, arg, value) ==
    [from |-> header.coinbase, to |-> to, method |-> method, arg |-> arg,
     value |-> value, price |-> 0, nonce |-> exec.world.nonce[header.coinbase]]

\* A system transaction moves its value into the contract and leaves the pool alone.
LEMMA CalledType ==
    ASSUME NEW world \in Worlds, NEW tx \in Txs, tx.to \in Contracts
    PROVE  /\ Called(world, tx) \in Worlds
           /\ Called(world, tx).pool = world.pool
           /\ Called(world, tx).fees = world.fees
           /\ Called(world, tx).contract = world.contract + tx.value
           /\ Called(world, tx).candidates = world.candidates
<1>1. tx.from \in Accounts /\ tx.value \in Nat
  BY Zenon DEF Txs
<1>2. world.nonce[tx.from] + 1 \in Nat
  BY <1>1 DEF Worlds
<1> DEFINE missed == [a \in Addr |->
                       IF tx.method = "slash" /\ a = tx.arg THEN world.missed[a] + 1
                       ELSE IF tx.method = "decreaseMissedBlocksCounter" /\ world.missed[a] > 0
                       THEN world.missed[a] - 1 ELSE world.missed[a]]
<1>3. missed \in [Addr -> Nat]
  BY DEF Worlds
<1> DEFINE nonce == [world.nonce EXCEPT ![tx.from] = @ + 1]
           initialized == IF tx.method = "initialize" THEN world.initialized \cup {tx.to}
                          ELSE world.initialized
<1>4. nonce \in [Accounts -> Nat] /\ initialized \in SUBSET Contracts
  BY <1>1, <1>2, Zenon DEF Worlds
<1> DEFINE w1 == [world EXCEPT !.nonce = nonce]
           w2 == [w1 EXCEPT !.contract = world.contract + tx.value]
           w3 == [w2 EXCEPT !.initialized = initialized]
           w4 == [w3 EXCEPT !.missed = missed]
<1>5. Called(world, tx) = w4
  BY Zenon DEF Called, Worlds
<1> HIDE DEF missed, nonce, initialized
<1>6. /\ w1 \in Worlds /\ w1.pool = world.pool /\ w1.fees = world.fees
      /\ w1.contract = world.contract /\ w1.candidates = world.candidates
  BY <1>4, Zenon DEF Worlds
<1> HIDE DEF w1
<1>7. /\ w2 \in Worlds /\ w2.pool = world.pool /\ w2.fees = world.fees
      /\ w2.contract = world.contract + tx.value /\ w2.candidates = world.candidates
  BY <1>1, <1>6 DEF Worlds
<1> HIDE DEF w2
<1>8. /\ w3 \in Worlds /\ w3.pool = world.pool /\ w3.fees = world.fees
      /\ w3.contract = world.contract + tx.value /\ w3.candidates = world.candidates
  BY <1>4, <1>7, Zenon DEF Worlds
<1> HIDE DEF w3
<1>9. /\ w4 \in Worlds /\ w4.pool = world.pool /\ w4.fees = world.fees
      /\ w4.contract = world.contract + tx.value /\ w4.candidates = world.candidates
  BY <1>3, <1>8, Zenon DEF Worlds
<1> HIDE DEF w4
<1> QED
  BY <1>5, <1>9, Zenon

\* The engine signs the transaction itself.
Own(mode, header) == mode.mining /\ header.coinbase = mode.validator

\* The result of applyTransaction with a transaction: it is executed, or there is an error.
Applied(mode, header, exec, tx, r) ==
    /\ tx \in Txs
    /\ r \in Execs
    /\ r.err # OK => r.txs = exec.txs /\ r.world = exec.world
    /\ r.err = OK =>
          /\ exec.err = OK
          /\ Own(mode, header) \/ (exec.received # << >> /\ Head(exec.received) = tx)
          /\ ~Reverts(exec.world, tx)
          /\ r.world = Called(exec.world, tx)
          /\ r.txs = Append(exec.txs, tx)
          /\ r.received = IF Own(mode, header) THEN exec.received ELSE Tail(exec.received)
    /\ /\ exec.err = OK
       /\ Own(mode, header) \/ (exec.received # << >> /\ Head(exec.received) = tx)
       /\ ~Reverts(exec.world, tx)
       => r.err = OK

\* The ways applyTransaction can end.
LEMMA AppliedCase ==
    ASSUME NEW mode, NEW header, header.coinbase \in Addr,
           NEW exec \in Execs, NEW to \in Contracts, NEW method \in Methods, NEW arg \in Args,
           NEW value \in Nat,
           NEW r, r = applyTransaction(mode, header, exec, to, method, arg, value),
           NEW tx, tx = SystemTx(header, exec, to, method, arg, value)
    PROVE  Applied(mode, header, exec, tx, r)
<1> USE DEF Applied
<1>1. tx \in Txs
  BY Zenon DEF SystemTx, Txs, Accounts, Execs, Worlds
<1>2. Called(exec.world, tx) \in Worlds
  BY <1>1, CalledType, Zenon DEF Execs, SystemTx
<1> DEFINE rest == IF Own(mode, header) THEN exec.received ELSE Tail(exec.received)
           s1 == [exec EXCEPT !.world = Called(exec.world, tx)]
           s2 == [s1 EXCEPT !.txs = Append(exec.txs, tx)]
           s == [s2 EXCEPT !.received = rest]
<1>3. r = IF exec.err # OK THEN exec
        ELSE IF ~Own(mode, header) /\ exec.received = << >> THEN Failed(exec, errMissingSystemTx)
        ELSE IF ~Own(mode, header) /\ Head(exec.received) # tx THEN Failed(exec, errWrongSystemTx)
        ELSE IF Reverts(exec.world, tx) THEN Failed(exec, "apply message failed")
        ELSE s
  BY Zenon DEF applyTransaction, SystemTx, Own, Execs
<1>4. ASSUME Own(mode, header) \/ exec.received # << >>
      PROVE  /\ s \in Execs /\ s.err = exec.err /\ s.world = Called(exec.world, tx)
             /\ s.txs = Append(exec.txs, tx) /\ s.received = rest
  <2>1. rest \in Seq(Txs)
    BY <1>4 DEF Execs
  <2> HIDE DEF rest
  <2>2. /\ s1 \in Execs /\ s1.err = exec.err /\ s1.world = Called(exec.world, tx)
        /\ s1.txs = exec.txs /\ s1.received = exec.received
    BY <1>2, Zenon DEF Execs
  <2> HIDE DEF s1
  <2>3. Append(exec.txs, tx) \in Seq(Txs)
    BY <1>1 DEF Execs
  <2>4. /\ s2 \in Execs /\ s2.err = exec.err /\ s2.world = Called(exec.world, tx)
        /\ s2.txs = Append(exec.txs, tx)
    BY <2>2, <2>3, Zenon DEF Execs
  <2> HIDE DEF s2
  <2> QED
    BY <2>1, <2>4, Zenon DEF Execs
<1>5. ASSUME NEW err \in Errors, exec.err = OK
      PROVE  /\ Failed(exec, err) \in Execs /\ Failed(exec, err).err = err
             /\ Failed(exec, err).txs = exec.txs /\ Failed(exec, err).world = exec.world
  <2>1. Failed(exec, err) = [exec EXCEPT !.err = err]
    BY <1>5, Zenon DEF Failed
  <2> QED
    BY <2>1, Zenon DEF Execs
<1>6. /\ errMissingSystemTx \in Errors \ {OK} /\ errWrongSystemTx \in Errors \ {OK}
      /\ "apply message failed" \in Errors \ {OK}
  BY Zenon DEF Errors, errMissingSystemTx, errWrongSystemTx, OK
<1> HIDE DEF s
<1>7. CASE exec.err # OK
  BY <1>1, <1>3, <1>7, Zenon
<1>8. CASE exec.err = OK /\ ~Own(mode, header) /\ exec.received = << >>
  BY <1>1, <1>3, <1>5, <1>6, <1>8, ZenonT(30)
<1>9. CASE exec.err = OK /\ ~Own(mode, header) /\ exec.received # << >> /\ Head(exec.received) # tx
  BY <1>1, <1>3, <1>5, <1>6, <1>9, ZenonT(30)
<1>10. CASE exec.err = OK /\ (Own(mode, header) \/ (exec.received # << >> /\ Head(exec.received) = tx))
  <2>1. CASE Reverts(exec.world, tx)
    BY <1>1, <1>3, <1>5, <1>6, <1>10, <2>1, ZenonT(30)
  <2>2. CASE ~Reverts(exec.world, tx)
    BY <1>1, <1>3, <1>4, <1>10, <2>2, Zenon
  <2> QED
    BY <2>1, <2>2, Zenon
<1> QED
  BY <1>7, <1>8, <1>9, <1>10, Zenon

\* A step that is left out.
LEMMA ExtendsItself ==
    ASSUME NEW s, NEW header, NEW e \in Execs
    PROVE  Extends(s, header, e, e, 0)
BY DEF Extends, Begins, Execs, Worlds

\* Two steps in a row.
LEMMA ExtendsTrans ==
    ASSUME NEW s, NEW header, NEW d \in Execs, NEW e \in Execs, NEW r \in Execs,
           NEW g \in Nat, NEW h \in Nat,
           Extends(s, header, d, e, g), Extends(s, header, e, r, h)
    PROVE  Extends(s, header, d, r, g + h)
<1>1. /\ Len(d.txs) \in Nat /\ Len(e.txs) \in Nat /\ Len(r.txs) \in Nat
      /\ Len(d.txs) <= Len(e.txs) /\ Len(e.txs) <= Len(r.txs)
  BY DEF Extends, Begins, Execs
<1>2. Begins(d.txs, r.txs)
  BY <1>1 DEF Extends, Begins
<1>3. \A i \in Len(d.txs) + 1 .. Len(r.txs) :
         \/ i \in Len(e.txs) + 1 .. Len(r.txs)
         \/ i \in Len(d.txs) + 1 .. Len(e.txs) /\ r.txs[i] = e.txs[i]
  BY <1>1 DEF Extends, Begins
<1>4. \A i \in Len(d.txs) + 1 .. Len(r.txs) :
         /\ IsSystemTransaction(r.txs[i], header)
         /\ r.txs[i].method = "slash" => Deserved(s, header, r.txs[i].arg)
  <2> TAKE i \in Len(d.txs) + 1 .. Len(r.txs)
  <2>1. CASE i \in Len(e.txs) + 1 .. Len(r.txs)
    BY <2>1, Zenon DEF Extends
  <2>2. CASE i \in Len(d.txs) + 1 .. Len(e.txs) /\ r.txs[i] = e.txs[i]
    BY <2>2, Zenon DEF Extends
  <2> QED
    BY <1>3, <2>1, <2>2, Zenon
<1>5. /\ d.world.pool \in Nat /\ d.world.contract \in Nat
      /\ e.world.pool \in Nat /\ e.world.contract \in Nat
      /\ r.world.pool \in Nat /\ r.world.contract \in Nat
  BY Zenon DEF Execs, Worlds
<1> QED
  BY <1>2, <1>4, <1>5 DEF Extends

\* applyTransaction adds a transaction or fails.
LEMMA ApplyExtends ==
    ASSUME NEW mode, NEW s, NEW header, header.coinbase \in Addr,
           NEW e \in Execs, NEW to \in Contracts, NEW method \in Methods, NEW arg \in Args,
           NEW value \in Nat, method = "slash" => Deserved(s, header, arg),
           NEW r, r = applyTransaction(mode, header, e, to, method, arg, value)
    PROVE  Extends(s, header, e, r, value) /\ KeepsPool(e, r)
<1>0. PICK tx : tx = SystemTx(header, e, to, method, arg, value)
  BY Zenon
<1>1. /\ tx \in Txs /\ r \in Execs
      /\ r.err # OK => r.txs = e.txs /\ r.world = e.world
      /\ r.err = OK => /\ e.err = OK
                       /\ r.world = Called(e.world, tx)
                       /\ r.txs = Append(e.txs, tx)
  <2>1. Applied(mode, header, e, tx, r)
    BY <1>0, AppliedCase, Zenon
  <2> QED
    BY <2>1, Zenon DEF Applied
<1>2. /\ tx.to = to /\ tx.value = value /\ tx.method = method /\ tx.arg = arg
      /\ IsSystemTransaction(tx, header)
  BY <1>0, Zenon DEF SystemTx, IsSystemTransaction, Contracts
<1>3. CASE r.err # OK
  BY <1>1, <1>3 DEF Extends, Begins, Execs, KeepsPool
<1>4. CASE r.err = OK
  <2>1. e.txs \in Seq(Txs) /\ e.world \in Worlds
    BY Zenon DEF Execs
  <2>2. /\ Begins(e.txs, r.txs) /\ Len(r.txs) = Len(e.txs) + 1
        /\ r.txs[Len(e.txs) + 1] = tx
    BY <1>1, <1>4, <2>1 DEF Begins
  <2>3. /\ Called(e.world, tx).pool = e.world.pool
        /\ Called(e.world, tx).fees = e.world.fees
        /\ Called(e.world, tx).contract = e.world.contract + value
    BY <1>1, <1>2, <2>1, CalledType, Zenon
  <2>4. e.world.pool \in Nat /\ e.world.contract \in Nat
    BY <2>1, Zenon DEF Worlds
  <2>5. \A i \in Len(e.txs) + 1 .. Len(r.txs) : r.txs[i] = tx
    BY <2>1, <2>2
  <2>6. /\ r.world.fees = e.world.fees /\ r.world.pool = e.world.pool
        /\ r.world.pool + r.world.contract = e.world.pool + e.world.contract + value
    BY <1>1, <1>4, <2>3, <2>4
  <2>7. \A i \in Len(e.txs) + 1 .. Len(r.txs) :
           /\ IsSystemTransaction(r.txs[i], header)
           /\ r.txs[i].method = "slash" => Deserved(s, header, r.txs[i].arg)
    BY <1>2, <2>5, Zenon
  <2> QED
    BY <1>1, <1>4, <2>2, <2>6, <2>7, Zenon DEF Extends, KeepsPool
<1> QED
  BY <1>3, <1>4, Zenon

-----------------------------------------------------------------------------
(***************************************************************************)
(* A node that checks a block goes through the same steps as its miner.    *)
(***************************************************************************)

Mining(a) == [mining |-> TRUE, validator |-> a]
Checking == [mining |-> FALSE, validator |-> 0]

\* The checking execution v is where the mining execution m was, and has the system
\* transactions that are still to come of all the transactions of the block.
Behind(m, v, all) ==
    /\ m.err = OK /\ m.received = << >>
    /\ v.err = OK /\ v.world = m.world /\ v.txs = m.txs
    /\ v.received = SubSeq(all, Len(m.txs) + 1, Len(all))

\* A step of the miner and the same step of a checking node.
Matches(m, v, m2, v2, all) ==
    Behind(m, v, all) /\ m2.err = OK /\ Begins(m2.txs, all) => Behind(m2, v2, all)

\* Two steps in a row, of the miner and of a checking node.
LEMMA MatchesTrans ==
    ASSUME NEW s, NEW header, NEW all, NEW m, NEW v, NEW m1, NEW v1, NEW m2, NEW v2, NEW gain,
           m1 \in Execs, m2 \in Execs, all \in Seq(Txs),
           Matches(m, v, m1, v1, all), Matches(m1, v1, m2, v2, all),
           Extends(s, header, m1, m2, gain)
    PROVE  Matches(m, v, m2, v2, all)
<1> SUFFICES ASSUME Behind(m, v, all), m2.err = OK, Begins(m2.txs, all)
             PROVE  Behind(m2, v2, all)
  BY Zenon DEF Matches
<1>1. m1.err = OK /\ Begins(m1.txs, m2.txs)
  BY Zenon DEF Extends
<1>2. Begins(m1.txs, all)
  BY <1>1 DEF Begins, Execs
<1> QED
  BY <1>1, <1>2, Zenon DEF Matches

\* The miner has signed the transaction itself, and the checking node finds it next.
LEMMA ApplyMatches ==
    ASSUME NEW a, NEW header, header.coinbase \in Addr,
           NEW to \in Contracts, NEW method \in Methods, NEW arg \in Args, NEW value \in Nat,
           NEW all \in Seq(Txs), NEW m \in Execs, NEW v \in Execs,
           NEW m2, m2 = applyTransaction(Mining(a), header, m, to, method, arg, value),
           NEW v2, v2 = applyTransaction(Checking, header, v, to, method, arg, value)
    PROVE  Matches(m, v, m2, v2, all)
<1> SUFFICES ASSUME Behind(m, v, all), m2.err = OK, Begins(m2.txs, all)
             PROVE  Behind(m2, v2, all)
  BY Zenon DEF Matches
<1>1. PICK tx : tx = SystemTx(header, m, to, method, arg, value)
  BY Zenon
<1>2. tx = SystemTx(header, v, to, method, arg, value)
  BY <1>1, Zenon DEF SystemTx, Behind
<1>3. Applied(Mining(a), header, m, tx, m2) /\ Applied(Checking, header, v, tx, v2)
  BY <1>1, <1>2, AppliedCase, Zenon
<1>4. ~Own(Checking, header)
  BY Zenon DEF Own, Checking
<1>5. /\ tx \in Txs /\ Own(Mining(a), header) /\ ~Reverts(m.world, tx)
      /\ m2.world = Called(m.world, tx) /\ m2.txs = Append(m.txs, tx)
      /\ m2.received = << >>
  BY <1>3, Zenon DEF Applied, Behind
<1> DEFINE n == Len(m.txs)
<1>6. m.txs \in Seq(Txs) /\ n \in Nat /\ Len(m2.txs) = n + 1 /\ m2.txs[n + 1] = tx
  BY <1>5 DEF Execs
<1>7. n + 1 <= Len(all) /\ all[n + 1] = tx /\ Len(all) \in Nat
  BY <1>6 DEF Begins
<1>8. v.received = SubSeq(all, n + 1, Len(all))
  BY Zenon DEF Behind
<1> HIDE DEF n
<1>9. /\ SubSeq(all, n + 1, Len(all)) # << >>
      /\ Head(SubSeq(all, n + 1, Len(all))) = tx
      /\ Tail(SubSeq(all, n + 1, Len(all))) = SubSeq(all, n + 2, Len(all))
  <2>1. n + 1 \in 1 .. Len(all) /\ Len(all) \in n + 1 .. Len(all) /\ n + 1 + 1 = n + 2
    BY <1>6, <1>7
  <2>2. /\ Head(SubSeq(all, n + 1, Len(all))) = all[n + 1]
        /\ Tail(SubSeq(all, n + 1, Len(all))) = SubSeq(all, n + 1 + 1, Len(all))
    BY <2>1, HeadTailOfSubSeq, ZenonT(30)
  <2>3. SubSeq(all, n + 1, Len(all)) # << >>
    <3>1. Len(SubSeq(all, n + 1, Len(all))) = Len(all) - n
      BY <1>6, <1>7
    <3>2. Len(<< >>) = 0
      BY Zenon
    <3>3. Len(all) - n # 0
      BY <1>6, <1>7
    <3> QED
      BY <3>1, <3>2, <3>3, Zenon
  <2> QED
    BY <1>7, <2>1, <2>2, <2>3, Zenon
<1>10. v.err = OK /\ v.world = m.world /\ v.txs = m.txs
  BY Zenon DEF Behind
<1>11. v2.err = OK
  BY <1>3, <1>5, <1>8, <1>9, <1>10, Zenon DEF Applied
<1>12. /\ v2.world = m2.world /\ v2.txs = m2.txs
       /\ v2.received = SubSeq(all, n + 2, Len(all))
  BY <1>3, <1>4, <1>5, <1>8, <1>9, <1>10, <1>11, Zenon DEF Applied
<1>13. n + 2 = Len(m2.txs) + 1
  BY <1>6
<1> QED
  BY <1>5, <1>11, <1>12, <1>13, Zenon DEF Behind

-----------------------------------------------------------------------------
(***************************************************************************)
(* The steps of Finalize and FinalizeAndAssemble.                          *)
(***************************************************************************)

\* A header that Prepare makes on a snapshot.
GoodHeader(s, header) ==
    /\ header.coinbase \in Addr
    /\ header.number = s.Number + 1

\* An error ends the execution.
LEMMA FailedExtends ==
    ASSUME NEW s, NEW header, NEW e \in Execs, NEW err \in Errors \ {OK},
           NEW r, r = Failed(e, err)
    PROVE  Extends(s, header, e, r, 0) /\ r.err # OK
<1>1. /\ r \in Execs /\ r.txs = e.txs /\ r.err # OK
  BY Zenon DEF Failed, Execs
<1> QED
  BY <1>1 DEF Extends, Begins, Execs

\* The arguments and receivers of system transactions.
LEMMA ArgTypes ==
    ASSUME NEW s, GoodSnap(s)
    PROVE  /\ s.Validators \in Args /\ {} \in Args /\ \A v \in s.Validators : v \in Args
           /\ ValidatorContract \in Contracts /\ SlashContract \in Contracts
BY Zenon DEF GoodSnap, Args, Contracts

\* Two transactions, the first to the validator contract and the second to the slash
\* contract, as at the start of the chain and at the end of an epoch.
LEMMA CallsExtend ==
    ASSUME NEW mode, NEW s, NEW header, header.coinbase \in Addr, NEW e \in Execs,
           NEW f \in Methods \ {"slash"}, NEW x \in Args, NEW g \in Methods \ {"slash"},
           NEW y \in Args,
           NEW d, d = applyTransaction(mode, header, e, ValidatorContract, f, x, 0),
           NEW r, r = applyTransaction(mode, header, d, SlashContract, g, y, 0)
    PROVE  /\ Extends(s, header, e, d, 0) /\ Extends(s, header, d, r, 0)
           /\ Extends(s, header, e, r, 0) /\ KeepsPool(e, r)
<1>1. /\ f \in Methods /\ g \in Methods /\ 0 \in Nat
      /\ f = "slash" => Deserved(s, header, x)
      /\ g = "slash" => Deserved(s, header, y)
  BY Zenon
<1>2. ValidatorContract \in Contracts /\ SlashContract \in Contracts
  BY Zenon DEF Contracts
<1>3. Extends(s, header, e, d, 0) /\ KeepsPool(e, d)
  BY <1>1, <1>2, ApplyExtends, Zenon
<1>4. d \in Execs
  BY <1>3, Zenon DEF Extends
<1>5. Extends(s, header, d, r, 0) /\ KeepsPool(d, r)
  BY <1>1, <1>2, <1>4, ApplyExtends, Zenon
<1>6. r \in Execs /\ 0 + 0 = 0
  BY <1>5 DEF Extends
<1>7. KeepsPool(e, r)
  BY <1>3, <1>5, Zenon DEF Extends, KeepsPool
<1>8. Extends(s, header, e, r, 0)
  BY <1>1, <1>3, <1>4, <1>5, <1>6, ExtendsTrans, Zenon
<1> QED
  BY <1>3, <1>5, <1>7, <1>8, Zenon

\* Two calls in a row, as at the first block and at an epoch block, match.
LEMMA CallsMatch ==
    ASSUME NEW a, NEW s, NEW header, header.coinbase \in Addr,
           NEW all \in Seq(Txs), NEW m \in Execs, NEW v \in Execs,
           NEW f \in Methods \ {"slash"}, NEW x \in Args, NEW g \in Methods \ {"slash"},
           NEW y \in Args,
           NEW m1, m1 = applyTransaction(Mining(a), header, m, ValidatorContract, f, x, 0),
           NEW m2, m2 = applyTransaction(Mining(a), header, m1, SlashContract, g, y, 0),
           NEW v1, v1 = applyTransaction(Checking, header, v, ValidatorContract, f, x, 0),
           NEW v2, v2 = applyTransaction(Checking, header, v1, SlashContract, g, y, 0)
    PROVE  Matches(m, v, m2, v2, all)
<1>1. /\ Extends(s, header, m, m1, 0) /\ Extends(s, header, m1, m2, 0)
      /\ Extends(s, header, v, v1, 0)
  BY CallsExtend, Zenon
<1>2. m1 \in Execs /\ v1 \in Execs /\ m2 \in Execs
  BY <1>1, Zenon DEF Extends
<1>3. f \in Methods /\ g \in Methods /\ 0 \in Nat
  BY Zenon
<1>4. ValidatorContract \in Contracts /\ SlashContract \in Contracts
  BY Zenon DEF Contracts
<1>5. Matches(m, v, m1, v1, all)
  BY <1>3, <1>4, ApplyMatches, Zenon
<1>6. Matches(m1, v1, m2, v2, all)
  BY <1>2, <1>3, <1>4, ApplyMatches, Zenon
<1>7. Extends(s, header, m1, m2, 0)
  BY <1>1, Zenon
<1> QED
  BY <1>2, <1>5, <1>6, <1>7, MatchesTrans

\* initializeSystemContracts, for a miner and for a node that checks.
LEMMA InitializeStep ==
    ASSUME NEW s, GoodSnap(s), NEW header, header.coinbase \in Addr, NEW e \in Execs
    PROVE  /\ \A mode : Extends(s, header, e,
                              initializeSystemContracts(mode, s, header, e), 0)
           /\ \A a, v, all : v \in Execs /\ all \in Seq(Txs) =>
                 Matches(e, v, initializeSystemContracts(Mining(a), s, header, e),
                         initializeSystemContracts(Checking, s, header, v), all)
<1>1. CASE Cardinality(s.Validators) \notin 1 .. MaxValidatorNum
  <2>1. errInvalidValidatorsLength \in Errors \ {OK}
    BY Zenon DEF Errors, errInvalidValidatorsLength, OK
  <2>2. \A mode : initializeSystemContracts(mode, s, header, e) =
                    Failed(e, errInvalidValidatorsLength)
    BY <1>1, Zenon DEF initializeSystemContracts
  <2>3. /\ Extends(s, header, e, Failed(e, errInvalidValidatorsLength), 0)
        /\ Failed(e, errInvalidValidatorsLength).err # OK
    BY <2>1, FailedExtends, Zenon
  <2> QED
    BY <2>2, <2>3, Zenon DEF Matches
<1>2. CASE Cardinality(s.Validators) \in 1 .. MaxValidatorNum
  <2>1. "initialize" \in Methods \ {"slash"}
    BY Zenon DEF Methods
  <2>2. \A mode, exec : initializeSystemContracts(mode, s, header, exec) =
            applyTransaction(mode, header,
                applyTransaction(mode, header, exec, ValidatorContract, "initialize",
                                 s.Validators, 0),
                SlashContract, "initialize", {}, 0)
    BY <1>2, Zenon DEF initializeSystemContracts
  <2>3. s.Validators \in Args /\ {} \in Args
    BY ArgTypes, Zenon
  <2>4. ASSUME NEW mode
        PROVE  Extends(s, header, e, initializeSystemContracts(mode, s, header, e), 0)
    <3>1. PICK d : d = applyTransaction(mode, header, e, ValidatorContract, "initialize",
                                        s.Validators, 0)
      BY Zenon
    <3>2. PICK r : r = applyTransaction(mode, header, d, SlashContract, "initialize", {}, 0)
      BY Zenon
    <3>3. Extends(s, header, e, r, 0)
      BY <2>1, <2>3, <3>1, <3>2, CallsExtend, Zenon
    <3> QED
      BY <2>2, <3>1, <3>2, <3>3, Zenon
  <2>5. ASSUME NEW a, NEW v \in Execs, NEW all \in Seq(Txs)
        PROVE  Matches(e, v, initializeSystemContracts(Mining(a), s, header, e),
                       initializeSystemContracts(Checking, s, header, v), all)
    BY <2>1, <2>2, <2>3, CallsMatch, Zenon
  <2> QED
    BY <2>4, <2>5, Zenon
<1> QED
  BY <1>1, <1>2, Zenon

\* epochProcess.
LEMMA EpochProcessStep ==
    ASSUME NEW s, NEW header, header.coinbase \in Addr, NEW e \in Execs
    PROVE  /\ \A mode : /\ Extends(s, header, e, epochProcess(mode, header, e), 0)
                        /\ KeepsPool(e, epochProcess(mode, header, e))
           /\ \A a, v, all : v \in Execs /\ all \in Seq(Txs) =>
                 Matches(e, v, epochProcess(Mining(a), header, e),
                         epochProcess(Checking, header, v), all)
<1>1. /\ "updateActivatedValidators" \in Methods \ {"slash"}
      /\ "decreaseMissedBlocksCounter" \in Methods \ {"slash"}
  BY Zenon DEF Methods
<1>2. {} \in Args
  BY Zenon DEF Args
<1>3. ASSUME NEW mode
      PROVE  /\ Extends(s, header, e, epochProcess(mode, header, e), 0)
             /\ KeepsPool(e, epochProcess(mode, header, e))
  <2>1. PICK d : d = applyTransaction(mode, header, e, ValidatorContract,
                                      "updateActivatedValidators", {}, 0)
    BY Zenon
  <2>2. PICK r : r = applyTransaction(mode, header, d, SlashContract,
                                      "decreaseMissedBlocksCounter", {}, 0)
    BY Zenon
  <2>3. r = epochProcess(mode, header, e)
    BY <2>1, <2>2, Zenon DEF epochProcess
  <2>4. Extends(s, header, e, r, 0) /\ KeepsPool(e, r)
    BY <1>1, <1>2, <2>1, <2>2, CallsExtend, Zenon
  <2> QED
    BY <2>3, <2>4, Zenon
<1>4. ASSUME NEW a, NEW v \in Execs, NEW all \in Seq(Txs)
      PROVE  Matches(e, v, epochProcess(Mining(a), header, e),
                     epochProcess(Checking, header, v), all)
  BY <1>1, <1>2, CallsMatch, Zenon DEF epochProcess
<1> QED
  BY <1>3, <1>4, Zenon

\* It is the turn of exactly one validator.
LEMMA TurnTaken ==
    ASSUME NEW s, GoodSnap(s), NEW number \in Nat,
           NEW v, v = CHOOSE x \in s.Validators : inturn(s, number, x)
    PROVE  v \in s.Validators /\ inturn(s, number, v)
<1>1. s.Validators \in (SUBSET Addr) \ {{}} /\ Cardinality(s.Validators) \in Nat \ {0}
  BY LimitType, FS_EmptySet, Zenon DEF GoodSnap
<1>2. number % Cardinality(s.Validators) \in 0 .. Cardinality(s.Validators) - 1
  BY <1>1
<1>3. \E x \in s.Validators :
         {w \in Addr : number % Cardinality(s.Validators) = Offset(s.Validators, w)} = {x}
  BY <1>1, <1>2, OffsetsAreARanking, Zenon
<1>4. \E x \in s.Validators : inturn(s, number, x)
  BY <1>3, Zenon DEF inturn
<1> QED
  BY <1>4, Zenon

\* slash, for a block of a validator whose turn it was not.
LEMMA SlashStep ==
    ASSUME NEW s, GoodSnap(s), NEW header, GoodHeader(s, header),
           header.difficulty # diffInTurn, NEW e \in Execs
    PROVE  /\ \A mode : Extends(s, header, e, slash(mode, s, header, e), 0)
           /\ \A a, v, all : v \in Execs /\ all \in Seq(Txs) =>
                 Matches(e, v, slash(Mining(a), s, header, e),
                         slash(Checking, s, header, v), all)
<1>1. PICK late : late = CHOOSE x \in s.Validators : inturn(s, header.number, x)
  BY Zenon
<1>2. /\ late \in s.Validators /\ inturn(s, header.number, late)
      /\ header.coinbase \in Addr
  BY <1>1, TurnTaken DEF GoodHeader, GoodSnap
<1>3. header.difficulty = calcDifficulty(s, header.coinbase) => late # header.coinbase
  BY <1>2, Zenon DEF GoodHeader, calcDifficulty
<1>4. late \in Args /\ SlashContract \in Contracts
  BY <1>2, ArgTypes, Zenon
<1>5. "slash" \in Methods /\ 0 \in Nat
  BY Zenon DEF Methods
<1>6. CASE late \in Range(s.Recents)
  <2>1. \A mode, x : slash(mode, s, header, x) = x
    BY <1>1, <1>6, Zenon DEF slash
  <2>2. Extends(s, header, e, e, 0)
    BY ExtendsItself, Zenon
  <2> QED
    BY <2>1, <2>2, Zenon DEF Matches
<1>7. CASE late \notin Range(s.Recents)
  <2>1. \A mode, x : slash(mode, s, header, x) =
                       applyTransaction(mode, header, x, SlashContract, "slash", late, 0)
    BY <1>1, <1>7, Zenon DEF slash
  <2>2. Deserved(s, header, late)
    BY <1>2, <1>3, <1>7, Zenon DEF Deserved, Seals, SeenBySealer, Range
  <2>3. \A mode : Extends(s, header, e, slash(mode, s, header, e), 0)
    BY <1>2, <1>4, <1>5, <2>1, <2>2, ApplyExtends, Zenon
  <2>4. \A a, v, all : v \in Execs /\ all \in Seq(Txs) =>
           Matches(e, v, slash(Mining(a), s, header, e), slash(Checking, s, header, v), all)
    BY <1>2, <1>4, <1>5, <2>1, ApplyMatches, Zenon
  <2> QED
    BY <2>3, <2>4, Zenon
<1> QED
  BY <1>6, <1>7, Zenon

\* The balance of FeeRecoder is set.
LEMMA PoolSet ==
    ASSUME NEW e \in Execs, NEW p \in Nat, NEW r, r = [e EXCEPT !.world.pool = p]
    PROVE  /\ r \in Execs /\ r.err = e.err /\ r.txs = e.txs /\ r.received = e.received
           /\ r.world = [e.world EXCEPT !.pool = p]
           /\ r.world.pool = p /\ r.world.contract = e.world.contract
           /\ r.world.fees = e.world.fees
<1>1. PICK w : w = [e.world EXCEPT !.pool = p]
  BY Zenon
<1>2. /\ w \in Worlds /\ w.pool = p /\ w.contract = e.world.contract
      /\ w.fees = e.world.fees
  BY <1>1, Zenon DEF Execs, Worlds
<1>3. r = [e EXCEPT !.world = w]
  BY <1>1, Zenon
<1>4. /\ r \in Execs /\ r.err = e.err /\ r.txs = e.txs /\ r.received = e.received
      /\ r.world = w
  BY <1>2, <1>3, Zenon DEF Execs
<1> QED
  BY <1>1, <1>2, <1>4, Zenon

\* Setting the pool in both executions.
LEMMA PoolSetBehind ==
    ASSUME NEW m \in Execs, NEW v \in Execs, NEW all, NEW p \in Nat, Behind(m, v, all)
    PROVE  Behind([m EXCEPT !.world.pool = p], [v EXCEPT !.world.pool = p], all)
<1>1. PICK m1, v1 : m1 = [m EXCEPT !.world.pool = p] /\ v1 = [v EXCEPT !.world.pool = p]
  BY Zenon
<1>2. /\ m1.err = m.err /\ m1.txs = m.txs /\ m1.received = m.received
      /\ m1.world = [m.world EXCEPT !.pool = p]
      /\ v1.err = v.err /\ v1.txs = v.txs /\ v1.received = v.received
      /\ v1.world = [v.world EXCEPT !.pool = p]
  BY <1>1, PoolSet
<1>3. Behind(m1, v1, all)
  BY <1>2, Zenon DEF Behind
<1> QED
  BY <1>1, <1>3, Zenon

\* collectBlockReward.
LEMMA CollectStep ==
    ASSUME NEW s, NEW header, NEW e \in Execs
    PROVE  /\ Extends(s, header, e, collectBlockReward(e), BlockReward)
           /\ \A v, all : v \in Execs =>
                 Matches(e, v, collectBlockReward(e), collectBlockReward(v), all)
<1>1. PICK p : p = e.world.pool + BlockReward
  BY Zenon
<1>2. p \in Nat /\ e.world.pool \in Nat /\ e.world.contract \in Nat /\ BlockReward \in Nat
  BY <1>1, RewardAssumption DEF Execs, Worlds
<1>3. \A x : x.world = e.world =>
         collectBlockReward(x) = [x EXCEPT !.world.pool = p]
  BY <1>1, Zenon DEF collectBlockReward
<1>4. Extends(s, header, e, collectBlockReward(e), BlockReward)
  <2>1. PICK r : r = [e EXCEPT !.world.pool = p]
    BY Zenon
  <2>2. /\ r \in Execs /\ r.err = e.err /\ r.txs = e.txs
        /\ r.world.pool = p /\ r.world.contract = e.world.contract
        /\ r.world.fees = e.world.fees
    BY <1>2, <2>1, PoolSet
  <2>3. Extends(s, header, e, r, BlockReward)
    BY <1>1, <1>2, <2>2 DEF Extends, Begins, Execs
  <2> QED
    BY <1>3, <2>1, <2>3, Zenon
<1>5. ASSUME NEW v \in Execs, NEW all, Behind(e, v, all)
      PROVE  Behind(collectBlockReward(e), collectBlockReward(v), all)
  <2>1. v.world = e.world
    BY <1>5, Zenon DEF Behind
  <2>2. Behind([e EXCEPT !.world.pool = p], [v EXCEPT !.world.pool = p], all)
    BY <1>2, <1>5, PoolSetBehind, Zenon
  <2> QED
    BY <1>3, <2>1, <2>2, Zenon
<1> QED
  BY <1>4, <1>5, Zenon DEF Matches

\* distributeReward: the pool goes to the contract.
LEMMA DistributeStep ==
    ASSUME NEW s, NEW header, header.coinbase \in Addr, NEW e \in Execs
    PROVE  /\ \A mode : /\ Extends(s, header, e, distributeReward(mode, header, e), 0)
                        /\ distributeReward(mode, header, e).err = OK =>
                              distributeReward(mode, header, e).world.pool = 0
           /\ \A a, v, all : v \in Execs /\ all \in Seq(Txs) =>
                 Matches(e, v, distributeReward(Mining(a), header, e),
                         distributeReward(Checking, header, v), all)
<1>1. PICK p : p = e.world.pool
  BY Zenon
<1>2. p \in Nat /\ e.world.contract \in Nat /\ 0 \in Nat
  BY <1>1, Zenon DEF Execs, Worlds
<1>3. CASE p = 0
  <2>1. 0 <= 0
    OBVIOUS
  <2>2. \A mode, x : x.world = e.world => distributeReward(mode, header, x) = x
    BY <1>1, <1>3, <2>1, Zenon DEF distributeReward
  <2>3. Extends(s, header, e, e, 0)
    BY ExtendsItself, Zenon
  <2>4. \A v, all : Behind(e, v, all) => v.world = e.world
    BY Zenon DEF Behind
  <2> QED
    BY <1>1, <1>3, <2>2, <2>3, <2>4, Zenon DEF Matches
<1>4. CASE p # 0
  <2>1. \A mode, x : x.world = e.world =>
           distributeReward(mode, header, x) =
              applyTransaction(mode, header, [x EXCEPT !.world.pool = 0],
                               ValidatorContract, "distributeBlockReward", {}, p)
    BY <1>1, <1>2, <1>4 DEF distributeReward
  <2>2. /\ "distributeBlockReward" \in Methods /\ {} \in Args
        /\ ValidatorContract \in Contracts
    BY Zenon DEF Methods, Args, Contracts
  <2>3. PICK d : d = [e EXCEPT !.world.pool = 0]
    BY Zenon
  <2>4. /\ d \in Execs /\ d.err = e.err /\ d.txs = e.txs
        /\ d.world.pool = 0 /\ d.world.contract = e.world.contract
        /\ d.world.fees = e.world.fees
    BY <1>2, <2>3, PoolSet
  <2>5. ASSUME NEW mode
        PROVE  /\ Extends(s, header, e, distributeReward(mode, header, e), 0)
               /\ distributeReward(mode, header, e).err = OK =>
                     distributeReward(mode, header, e).world.pool = 0
    <3>1. PICK r : r = applyTransaction(mode, header, d, ValidatorContract,
                                        "distributeBlockReward", {}, p)
      BY Zenon
    <3>2. "distributeBlockReward" = "slash" => Deserved(s, header, {})
      BY Zenon
    <3>3. Extends(s, header, d, r, p) /\ KeepsPool(d, r)
      BY <1>2, <2>2, <2>4, <3>1, <3>2, ApplyExtends, Zenon
    <3>4. Extends(s, header, e, r, 0) /\ (r.err = OK => r.world.pool = 0)
      BY <1>1, <1>2, <2>4, <3>3 DEF Extends, KeepsPool, Execs, Worlds
    <3> QED
      BY <2>1, <2>3, <3>1, <3>4, Zenon
  <2>6. ASSUME NEW a, NEW v \in Execs, NEW all \in Seq(Txs), Behind(e, v, all),
               distributeReward(Mining(a), header, e).err = OK,
               Begins(distributeReward(Mining(a), header, e).txs, all)
        PROVE  Behind(distributeReward(Mining(a), header, e),
                      distributeReward(Checking, header, v), all)
    <3>1. v.world = e.world
      BY <2>6, Zenon DEF Behind
    <3>2. PICK w : w = [v EXCEPT !.world.pool = 0]
      BY Zenon
    <3>3. w \in Execs
      BY <1>2, <3>2, PoolSet, ZenonT(30)
    <3>4. Behind(d, w, all)
      BY <1>2, <2>3, <2>6, <3>2, PoolSetBehind, Zenon
    <3>5. PICK m2, v2 : /\ m2 = applyTransaction(Mining(a), header, d, ValidatorContract,
                                                 "distributeBlockReward", {}, p)
                        /\ v2 = applyTransaction(Checking, header, w, ValidatorContract,
                                                 "distributeBlockReward", {}, p)
      BY Zenon
    <3>6. Matches(d, w, m2, v2, all)
      BY <1>2, <2>2, <2>4, <3>3, <3>5, ApplyMatches, Zenon
    <3>7. /\ m2 = distributeReward(Mining(a), header, e)
          /\ v2 = distributeReward(Checking, header, v)
      BY <2>1, <2>3, <3>1, <3>2, <3>5, Zenon
    <3> QED
      BY <2>6, <3>4, <3>6, <3>7, Zenon DEF Matches
  <2> QED
    BY <2>5, <2>6, Zenon DEF Matches
<1> QED
  BY <1>3, <1>4, Zenon

\* The stages of finalizeBlock.
Started(mode, s, header, e) ==
    IF header.number = 1 THEN initializeSystemContracts(mode, s, header, e) ELSE e

Priced(header, e) ==
    IF verifyTxsGasPrice(e.txs, header) THEN e ELSE Failed(e, errInvalidGasPrice)

Slashed(mode, s, header, e) ==
    IF header.difficulty # diffInTurn THEN slash(mode, s, header, e) ELSE e

PaidOut(mode, header, e) ==
    IF isEpoch(header.number)
    THEN epochProcess(mode, header, distributeReward(mode, header, e)) ELSE e

\* finalizeBlock as a row of stages.
LEMMA FinalizeStages ==
    ASSUME NEW mode, NEW s, NEW header, NEW e
    PROVE  finalizeBlock(mode, s, header, e) =
              PaidOut(mode, header,
                 collectBlockReward(
                    Slashed(mode, s, header,
                       Priced(header, Started(mode, s, header, e)))))
BY Zenon DEF finalizeBlock, PaidOut, Slashed, Priced, Started

\* A stage that is left out matches.
LEMMA MatchesItself ==
    ASSUME NEW m, NEW v, NEW all
    PROVE  Matches(m, v, m, v, all)
BY Zenon DEF Matches

\* The first stage: the contracts are initialized in block 1.
LEMMA StartedStep ==
    ASSUME NEW s, GoodSnap(s), NEW header, header.coinbase \in Addr, NEW e \in Execs
    PROVE  /\ \A mode : Extends(s, header, e, Started(mode, s, header, e), 0)
           /\ \A a, v, all : v \in Execs /\ all \in Seq(Txs) =>
                 Matches(e, v, Started(Mining(a), s, header, e),
                         Started(Checking, s, header, v), all)
<1>1. CASE header.number = 1
  BY <1>1, InitializeStep, Zenon DEF Started
<1>2. CASE header.number # 1
  BY <1>2, ExtendsItself, MatchesItself, Zenon DEF Started
<1> QED
  BY <1>1, <1>2, Zenon

\* The second stage: the gas prices are checked.
LEMMA PricedStep ==
    ASSUME NEW s, NEW header, NEW e \in Execs
    PROVE  /\ Extends(s, header, e, Priced(header, e), 0)
           /\ \A v, all : Matches(e, v, Priced(header, e), Priced(header, v), all)
<1>1. errInvalidGasPrice \in Errors \ {OK}
  BY Zenon DEF Errors, errInvalidGasPrice, OK
<1>2. CASE verifyTxsGasPrice(e.txs, header)
  <2>1. \A v : v.txs = e.txs => Priced(header, v) = v
    BY <1>2, Zenon DEF Priced
  <2> QED
    BY <2>1, ExtendsItself, Zenon DEF Matches, Behind
<1>3. CASE ~verifyTxsGasPrice(e.txs, header)
  <2>1. Priced(header, e) = Failed(e, errInvalidGasPrice)
    BY <1>3, Zenon DEF Priced
  <2>2. Extends(s, header, e, Priced(header, e), 0) /\ Priced(header, e).err # OK
    BY <1>1, <2>1, FailedExtends, Zenon
  <2> QED
    BY <2>2, Zenon DEF Matches
<1> QED
  BY <1>2, <1>3, Zenon

\* The third stage: the validator in turn is slashed if it did not seal.
LEMMA SlashedStep ==
    ASSUME NEW s, GoodSnap(s), NEW header, GoodHeader(s, header), NEW e \in Execs
    PROVE  /\ \A mode : Extends(s, header, e, Slashed(mode, s, header, e), 0)
           /\ \A a, v, all : v \in Execs /\ all \in Seq(Txs) =>
                 Matches(e, v, Slashed(Mining(a), s, header, e),
                         Slashed(Checking, s, header, v), all)
<1>1. CASE header.difficulty # diffInTurn
  BY <1>1, SlashStep, Zenon DEF Slashed
<1>2. CASE header.difficulty = diffInTurn
  BY <1>2, ExtendsItself, MatchesItself, Zenon DEF Slashed
<1> QED
  BY <1>1, <1>2, Zenon

\* The last stage: at an epoch block the pool is paid out and the contracts start an epoch.
LEMMA PaidOutStep ==
    ASSUME NEW s, NEW header, header.coinbase \in Addr, NEW e \in Execs
    PROVE  /\ \A mode : /\ Extends(s, header, e, PaidOut(mode, header, e), 0)
                        /\ isEpoch(header.number) /\ PaidOut(mode, header, e).err = OK =>
                              PaidOut(mode, header, e).world.pool = 0
           /\ \A a, v, all : v \in Execs /\ all \in Seq(Txs) =>
                 Matches(e, v, PaidOut(Mining(a), header, e), PaidOut(Checking, header, v), all)
<1>1. CASE isEpoch(header.number)
  <2>1. \A mode, x : PaidOut(mode, header, x) =
                        epochProcess(mode, header, distributeReward(mode, header, x))
    BY <1>1, Zenon DEF PaidOut
  <2>2. ASSUME NEW mode, NEW x \in Execs, NEW d, d = distributeReward(mode, header, x),
               NEW r, r = epochProcess(mode, header, d)
        PROVE  /\ d \in Execs /\ r \in Execs /\ Extends(s, header, d, r, 0)
               /\ Extends(s, header, x, r, 0) /\ (r.err = OK => r.world.pool = 0)
    <3>1. Extends(s, header, x, d, 0) /\ (d.err = OK => d.world.pool = 0)
      BY <2>2, DistributeStep, Zenon
    <3>2. d \in Execs
      BY <3>1, Zenon DEF Extends
    <3>3. Extends(s, header, d, r, 0) /\ KeepsPool(d, r)
      BY <2>2, <3>2, EpochProcessStep, Zenon
    <3>4. r \in Execs /\ 0 + 0 = 0 /\ 0 \in Nat
      BY <3>3 DEF Extends
    <3>5. Extends(s, header, x, r, 0)
      BY <3>1, <3>2, <3>3, <3>4, ExtendsTrans, Zenon
    <3>6. r.err = OK => r.world.pool = 0
      BY <3>1, <3>3, Zenon DEF Extends, KeepsPool
    <3> QED
      BY <3>2, <3>3, <3>4, <3>5, <3>6, Zenon
  <2>3. ASSUME NEW mode
        PROVE  /\ Extends(s, header, e, PaidOut(mode, header, e), 0)
               /\ PaidOut(mode, header, e).err = OK => PaidOut(mode, header, e).world.pool = 0
    BY <2>1, <2>2, Zenon
  <2>4. ASSUME NEW a, NEW v \in Execs, NEW all \in Seq(Txs)
        PROVE  Matches(e, v, PaidOut(Mining(a), header, e), PaidOut(Checking, header, v), all)
    <3>1. PICK m1, v1 : /\ m1 = distributeReward(Mining(a), header, e)
                        /\ v1 = distributeReward(Checking, header, v)
      BY Zenon
    <3>2. PICK m2, v2 : /\ m2 = epochProcess(Mining(a), header, m1)
                        /\ v2 = epochProcess(Checking, header, v1)
      BY Zenon
    <3>3. /\ m1 \in Execs /\ m2 \in Execs /\ Extends(s, header, m1, m2, 0)
          /\ v1 \in Execs
      BY <2>2, <3>1, <3>2, Zenon
    <3>4. Matches(e, v, m1, v1, all)
      BY <3>1, DistributeStep, Zenon
    <3>5. Matches(m1, v1, m2, v2, all)
      BY <3>2, <3>3, EpochProcessStep, Zenon
    <3>6. Matches(e, v, m2, v2, all)
      BY <3>3, <3>4, <3>5, MatchesTrans, Zenon
    <3> QED
      BY <2>1, <3>1, <3>2, <3>6, Zenon
  <2> QED
    BY <2>3, <2>4, Zenon
<1>2. CASE ~isEpoch(header.number)
  BY <1>2, ExtendsItself, MatchesItself, Zenon DEF PaidOut
<1> QED
  BY <1>1, <1>2, Zenon

\* Finalize and FinalizeAndAssemble: one block reward, all of the pool at the end of an
\* epoch, and the same result for the miner and for a node that checks.
LEMMA FinalizeStep ==
    ASSUME NEW s, GoodSnap(s), NEW header, GoodHeader(s, header), NEW e \in Execs
    PROVE  /\ \A mode : /\ Extends(s, header, e, finalizeBlock(mode, s, header, e), BlockReward)
                        /\ isEpoch(header.number) /\ finalizeBlock(mode, s, header, e).err = OK =>
                              finalizeBlock(mode, s, header, e).world.pool = 0
           /\ \A a, v, all : v \in Execs /\ all \in Seq(Txs) =>
                 Matches(e, v, finalizeBlock(Mining(a), s, header, e),
                         finalizeBlock(Checking, s, header, v), all)
<1>1. header.coinbase \in Addr
  BY Zenon DEF GoodHeader
<1>2. 0 \in Nat /\ BlockReward \in Nat /\ 0 + 0 = 0 /\ 0 + BlockReward = BlockReward
      /\ BlockReward + 0 = BlockReward
  BY RewardAssumption
<1>3. ASSUME NEW mode, NEW x \in Execs, NEW x1, x1 = Started(mode, s, header, x),
             NEW x2, x2 = Priced(header, x1), NEW x3, x3 = Slashed(mode, s, header, x2),
             NEW x4, x4 = collectBlockReward(x3), NEW x5, x5 = PaidOut(mode, header, x4)
      PROVE  /\ x1 \in Execs /\ x2 \in Execs /\ x3 \in Execs /\ x4 \in Execs /\ x5 \in Execs
             /\ Extends(s, header, x, x5, BlockReward)
             /\ isEpoch(header.number) /\ x5.err = OK => x5.world.pool = 0
  <2>1. Extends(s, header, x, x1, 0)
    BY <1>1, <1>3, StartedStep, Zenon
  <2>2. x1 \in Execs
    BY <2>1, Zenon DEF Extends
  <2>3. Extends(s, header, x1, x2, 0)
    BY <1>3, <2>2, PricedStep, Zenon
  <2>4. x2 \in Execs
    BY <2>3, Zenon DEF Extends
  <2>5. Extends(s, header, x2, x3, 0)
    BY <1>3, <2>4, SlashedStep, Zenon
  <2>6. x3 \in Execs
    BY <2>5, Zenon DEF Extends
  <2>7. Extends(s, header, x3, x4, BlockReward)
    BY <1>3, <2>6, CollectStep, Zenon
  <2>8. x4 \in Execs
    BY <2>7, Zenon DEF Extends
  <2>9. Extends(s, header, x4, x5, 0) /\ (isEpoch(header.number) /\ x5.err = OK => x5.world.pool = 0)
    BY <1>1, <1>3, <2>8, PaidOutStep, Zenon
  <2>10. x5 \in Execs
    BY <2>9, Zenon DEF Extends
  <2>11. Extends(s, header, x, x2, 0)
    BY <1>2, <2>1, <2>2, <2>3, <2>4, ExtendsTrans, Zenon
  <2>12. Extends(s, header, x, x3, 0)
    BY <1>2, <2>11, <2>4, <2>5, <2>6, ExtendsTrans, Zenon
  <2>13. Extends(s, header, x, x4, BlockReward)
    BY <1>2, <2>12, <2>6, <2>7, <2>8, ExtendsTrans
  <2>14. Extends(s, header, x, x5, BlockReward)
    BY <1>2, <2>13, <2>8, <2>9, <2>10, ExtendsTrans
  <2> QED
    BY <2>2, <2>4, <2>6, <2>8, <2>9, <2>10, <2>14, Zenon
<1>4. ASSUME NEW mode
      PROVE  /\ Extends(s, header, e, finalizeBlock(mode, s, header, e), BlockReward)
             /\ isEpoch(header.number) /\ finalizeBlock(mode, s, header, e).err = OK =>
                   finalizeBlock(mode, s, header, e).world.pool = 0
  BY <1>3, FinalizeStages, Zenon
<1>5. ASSUME NEW a, NEW v \in Execs, NEW all \in Seq(Txs)
      PROVE  Matches(e, v, finalizeBlock(Mining(a), s, header, e),
                     finalizeBlock(Checking, s, header, v), all)
  <2>1. PICK m1, v1 : /\ m1 = Started(Mining(a), s, header, e)
                      /\ v1 = Started(Checking, s, header, v)
    BY Zenon
  <2>2. PICK m2, v2 : m2 = Priced(header, m1) /\ v2 = Priced(header, v1)
    BY Zenon
  <2>3. PICK m3, v3 : /\ m3 = Slashed(Mining(a), s, header, m2)
                      /\ v3 = Slashed(Checking, s, header, v2)
    BY Zenon
  <2>4. PICK m4, v4 : m4 = collectBlockReward(m3) /\ v4 = collectBlockReward(v3)
    BY Zenon
  <2>5. PICK m5, v5 : /\ m5 = PaidOut(Mining(a), header, m4)
                      /\ v5 = PaidOut(Checking, header, v4)
    BY Zenon
  <2>6. /\ m1 \in Execs /\ m2 \in Execs /\ m3 \in Execs /\ m4 \in Execs /\ m5 \in Execs
        /\ Extends(s, header, m1, m2, 0) /\ Extends(s, header, m2, m3, 0)
        /\ Extends(s, header, m3, m4, BlockReward) /\ Extends(s, header, m4, m5, 0)
    <3>1. /\ m1 = Started(Mining(a), s, header, e) /\ m2 = Priced(header, m1)
          /\ m3 = Slashed(Mining(a), s, header, m2) /\ m4 = collectBlockReward(m3)
          /\ m5 = PaidOut(Mining(a), header, m4)
      BY <2>1, <2>2, <2>3, <2>4, <2>5, Zenon
    <3>2. m1 \in Execs /\ m2 \in Execs /\ m3 \in Execs /\ m4 \in Execs /\ m5 \in Execs
      BY <1>3, <3>1, Zenon
    <3>3. Extends(s, header, m1, m2, 0)
      BY <3>1, <3>2, PricedStep, Zenon
    <3>4. Extends(s, header, m2, m3, 0)
      BY <3>1, <3>2, SlashedStep, Zenon
    <3>5. Extends(s, header, m3, m4, BlockReward)
      BY <3>1, <3>2, CollectStep, Zenon
    <3>6. Extends(s, header, m4, m5, 0)
      BY <1>1, <3>1, <3>2, PaidOutStep, Zenon
    <3> QED
      BY <3>2, <3>3, <3>4, <3>5, <3>6, Zenon
  <2>7. v1 \in Execs /\ v2 \in Execs /\ v3 \in Execs /\ v4 \in Execs
    <3>1. /\ v1 = Started(Checking, s, header, v) /\ v2 = Priced(header, v1)
          /\ v3 = Slashed(Checking, s, header, v2) /\ v4 = collectBlockReward(v3)
          /\ v5 = PaidOut(Checking, header, v4)
      BY <2>1, <2>2, <2>3, <2>4, <2>5, Zenon
    <3> QED
      BY <1>3, <3>1, Zenon
  <2>8. Matches(e, v, m1, v1, all)
    BY <1>1, <2>1, StartedStep, Zenon
  <2>9. Matches(m1, v1, m2, v2, all)
    BY <2>2, <2>6, PricedStep, Zenon
  <2>10. Matches(m2, v2, m3, v3, all)
    BY <2>3, <2>6, <2>7, SlashedStep, Zenon
  <2>11. Matches(m3, v3, m4, v4, all)
    BY <2>4, <2>6, <2>7, CollectStep, Zenon
  <2>12. Matches(m4, v4, m5, v5, all)
    BY <1>1, <2>5, <2>6, <2>7, PaidOutStep, Zenon
  <2>13. Matches(e, v, m2, v2, all)
    BY <2>6, <2>8, <2>9, MatchesTrans, Zenon
  <2>14. Matches(e, v, m3, v3, all)
    BY <2>6, <2>10, <2>13, MatchesTrans, Zenon
  <2>15. Matches(e, v, m4, v4, all)
    BY <2>6, <2>11, <2>14, MatchesTrans, Zenon
  <2>16. Matches(e, v, m5, v5, all)
    BY <2>6, <2>12, <2>15, MatchesTrans, Zenon
  <2>17. /\ m5 = finalizeBlock(Mining(a), s, header, e)
         /\ v5 = finalizeBlock(Checking, s, header, v)
    BY <2>1, <2>2, <2>3, <2>4, <2>5, FinalizeStages, Zenon
  <2> QED
    BY <2>16, <2>17, Zenon
<1> QED
  BY <1>4, <1>5, Zenon

-----------------------------------------------------------------------------
(***************************************************************************)
(* The loop of Process.                                                    *)
(***************************************************************************)

\* The states that the transactions go through one after the other.
Trace(world, txs, k, ws) ==
    /\ ws \in [0 .. k -> Worlds]
    /\ ws[0] = world
    /\ \A i \in 1 .. k : preCheck(ws[i - 1], txs[i]) /\ ws[i] = Transition(ws[i - 1], txs[i])

\* One round of the loop.
LEMMA RoundResult ==
    ASSUME NEW header, NEW w, NEW done, NEW left, NEW tx
    PROVE  /\ IsSystemTransaction(tx, header) =>
                 processTx(header, Execution(w, done, left), tx) =
                    Execution(w, done, Append(left, tx))
           /\ ~IsSystemTransaction(tx, header) /\ preCheck(w, tx) =>
                 processTx(header, Execution(w, done, left), tx) =
                    Execution(Transition(w, tx), Append(done, tx), left)
<1>0. Execution(w, done, left).err = OK /\ Execution(w, done, left).world = w
  BY Zenon DEF Execution
<1>1. CASE IsSystemTransaction(tx, header)
  BY <1>0, <1>1, Zenon DEF processTx, Execution
<1>2. CASE ~IsSystemTransaction(tx, header) /\ preCheck(w, tx)
  <2>1. PICK t, d : t = Transition(w, tx) /\ d = Append(done, tx)
    BY Zenon
  <2> DEFINE e1 == [Execution(w, done, left) EXCEPT !.world = t]
             e2 == [e1 EXCEPT !.txs = d]
  <2>2. processTx(header, Execution(w, done, left), tx) = e2
    BY <1>0, <1>2, <2>1, Zenon DEF processTx, Execution
  <2>3. e1 = Execution(t, done, left)
    BY DEF Execution
  <2> HIDE DEF e1
  <2>4. e2 = Execution(t, d, left)
    BY <2>3 DEF Execution
  <2> QED
    BY <1>2, <2>1, <2>2, <2>4, Zenon
<1> QED
  BY <1>1, <1>2, Zenon

\* A block is its ordinary transactions and then its system transactions: the loop
\* executes the first and leaves the others to Finalize.
LEMMA LoopResult ==
    ASSUME NEW world \in Worlds, NEW header, NEW all \in Seq(Txs), NEW k \in 0 .. Len(all),
           NEW ws, Trace(world, all, k, ws),
           \A i \in 1 .. k : ~IsSystemTransaction(all[i], header),
           \A i \in k + 1 .. Len(all) : IsSystemTransaction(all[i], header)
    PROVE  Executed(world, header, all) =
              Execution(ws[k], SubSeq(all, 1, k), SubSeq(all, k + 1, Len(all)))
<1>1. PICK n \in Nat : n = Len(all)
  OBVIOUS
<1>2. k \in Nat /\ k <= n
  BY <1>1
<1> DEFINE at(i) == IF i <= k THEN Execution(ws[i], SubSeq(all, 1, i), << >>)
                    ELSE Execution(ws[k], SubSeq(all, 1, k), SubSeq(all, k + 1, i))
           body(f, i) == IF i = 0 THEN Execution(world, << >>, << >>)
                         ELSE processTx(header, f[i - 1], all[i])
           g == [i \in 0 .. n |-> at(i)]
<1>3. \A i \in 1 .. n : SubSeq(all, 1, i) = Append(SubSeq(all, 1, i - 1), all[i])
  BY <1>1
<1>4. \A i \in k + 1 .. n : SubSeq(all, k + 1, i) = Append(SubSeq(all, k + 1, i - 1), all[i])
  BY <1>1, <1>2
<1>5. SubSeq(all, 1, 0) = << >> /\ SubSeq(all, k + 1, k) = << >>
  BY <1>2
<1>above. \A i \in k .. n :
             at(i) = Execution(ws[k], SubSeq(all, 1, k), SubSeq(all, k + 1, i))
  <2> TAKE i \in k .. n
  <2>1. CASE i = k
    <3>1. at(k) = Execution(ws[k], SubSeq(all, 1, k), << >>)
      BY <1>2
    <3> HIDE DEF at
    <3> QED
      BY <1>5, <2>1, <3>1, Zenon
  <2>2. CASE i # k
    <3>1. ~(i <= k)
      BY <1>2, <2>2
    <3> QED
      BY <3>1, Zenon
  <2> QED
    BY <2>1, <2>2, Zenon
<1>6. at(0) = Execution(world, << >>, << >>)
  BY <1>2, <1>5 DEF Trace
<1>7. ASSUME NEW i \in 1 .. n
      PROVE  at(i) = processTx(header, at(i - 1), all[i])
  <2>1. CASE i <= k
    <3>1. /\ at(i) = Execution(ws[i], SubSeq(all, 1, i), << >>)
          /\ at(i - 1) = Execution(ws[i - 1], SubSeq(all, 1, i - 1), << >>)
      BY <1>2, <2>1
    <3>2. /\ preCheck(ws[i - 1], all[i]) /\ ws[i] = Transition(ws[i - 1], all[i])
          /\ ~IsSystemTransaction(all[i], header)
      BY <1>1, <1>2, <2>1 DEF Trace
    <3> HIDE DEF at
    <3>3. processTx(header, Execution(ws[i - 1], SubSeq(all, 1, i - 1), << >>), all[i]) =
             Execution(Transition(ws[i - 1], all[i]), Append(SubSeq(all, 1, i - 1), all[i]), << >>)
      <4>1. PICK w, done, tx : w = ws[i - 1] /\ done = SubSeq(all, 1, i - 1) /\ tx = all[i]
        BY Zenon
      <4>2. ~IsSystemTransaction(tx, header) /\ preCheck(w, tx)
        BY <3>2, <4>1, Zenon
      <4>3. processTx(header, Execution(w, done, << >>), tx) =
               Execution(Transition(w, tx), Append(done, tx), << >>)
        BY <4>2, RoundResult
      <4> QED
        BY <4>1, <4>3, Zenon
    <3>4. SubSeq(all, 1, i) = Append(SubSeq(all, 1, i - 1), all[i])
      BY <1>3, Zenon
    <3> QED
      BY <3>1, <3>2, <3>3, <3>4, Zenon
  <2>2. CASE i > k
    <3>1. /\ at(i) = Execution(ws[k], SubSeq(all, 1, k), SubSeq(all, k + 1, i))
          /\ at(i - 1) = Execution(ws[k], SubSeq(all, 1, k), SubSeq(all, k + 1, i - 1))
      BY <1>2, <1>above, <2>2
    <3>2. IsSystemTransaction(all[i], header)
      BY <1>1, <1>2, <2>2
    <3>3. SubSeq(all, k + 1, i) = Append(SubSeq(all, k + 1, i - 1), all[i])
      BY <1>2, <1>4, <2>2
    <3> HIDE DEF at
    <3>4. processTx(header, Execution(ws[k], SubSeq(all, 1, k), SubSeq(all, k + 1, i - 1)), all[i]) =
             Execution(ws[k], SubSeq(all, 1, k), Append(SubSeq(all, k + 1, i - 1), all[i]))
      <4>1. PICK w, done, left, tx : /\ w = ws[k] /\ done = SubSeq(all, 1, k) /\ tx = all[i]
                                     /\ left = SubSeq(all, k + 1, i - 1)
        BY Zenon
      <4>2. IsSystemTransaction(tx, header)
        BY <3>2, <4>1, Zenon
      <4>3. processTx(header, Execution(w, done, left), tx) =
               Execution(w, done, Append(left, tx))
        BY <4>2, RoundResult
      <4> QED
        BY <4>1, <4>3, Zenon
    <3> QED
      BY <3>1, <3>3, <3>4, Zenon
  <2> QED
    BY <1>2, <2>1, <2>2
<1> HIDE DEF at
<1>8. g = [i \in 0 .. n |-> body(g, i)]
  <2>1. \A i \in 0 .. n : at(i) = body(g, i)
    BY <1>6, <1>7
  <2> HIDE DEF body
  <2> QED
    BY <2>1, Zenon
<1> DEFINE after == CHOOSE f : f = [i \in 0 .. n |-> body(f, i)]
<1> HIDE DEF g
<1>9. after = [i \in 0 .. n |-> body(after, i)]
  BY <1>8, Zenon
<1>10. Executed(world, header, all) = after[n]
  BY <1>1, Zenon DEF Executed
<1> HIDE DEF after
<1>11. after[n] = at(n)
  <2> DEFINE Bad == {i \in 0 .. n : after[i] # at(i)}
  <2> SUFFICES ASSUME Bad # {} PROVE FALSE
    BY <1>1
  <2>1. Bad \in SUBSET Nat
    BY <1>1
  <2>2. PICK i \in Bad : \A j \in Bad : i <= j
    <3> HIDE DEF Bad
    <3> QED
      BY <2>1, LeastNatural, Zenon
  <2>3. i # 0
    BY <1>6, <1>9, Zenon
  <2>4. i \in 1 .. n /\ i - 1 \in 0 .. n /\ i - 1 \notin Bad
    BY <1>1, <2>2, <2>3
  <2>5. after[i] = processTx(header, after[i - 1], all[i])
    BY <1>9, <2>3, <2>4, Zenon
  <2>6. after[i - 1] = at(i - 1)
    BY <2>4, Zenon
  <2> QED
    BY <1>7, <2>2, <2>4, <2>5, <2>6, Zenon
<1>12. at(n) = Execution(ws[k], SubSeq(all, 1, k), SubSeq(all, k + 1, n))
  BY <1>2, <1>above
<1> QED
  BY <1>1, <1>10, <1>11, <1>12, Zenon

-----------------------------------------------------------------------------
(***************************************************************************)
(* A block that was made is accepted.                                      *)
(***************************************************************************)

\* Transactions that come from the transaction pool.
UserTxs(txs) ==
    /\ txs \in Seq(Txs)
    /\ \A i \in 1 .. Len(txs) : txs[i].price # 0 /\ txs[i].method = "user"

\* The state after the transactions.
Filled(world, txs, w) ==
    \E ws : Trace(world, txs, Len(txs), ws) /\ w = ws[Len(txs)]

\* What FinalizeAndAssemble gets from Prepare and commitTransaction.
Fills(s, world, header, w, txs) ==
    /\ GoodSnap(s) /\ world \in Worlds
    /\ \E c, v \in Addr : header = Prepared(s, world, c, v)
    /\ UserTxs(txs) /\ Filled(world, txs, w)

\* What Prepare puts into a header.
LEMMA PreparedGood ==
    ASSUME NEW s, GoodSnap(s), NEW world, NEW c \in Addr, NEW v \in Addr, NEW header,
           header = Prepared(s, world, c, v)
    PROVE  /\ GoodHeader(s, header)
           /\ isEpoch(header.number) => header.validators = getTopValidator(world)
BY Zenon DEF Prepared, GoodHeader

\* The result of FinalizeAndAssemble.
LEMMA AssembledFacts ==
    ASSUME NEW s, NEW world, NEW header, NEW w, NEW txs, Fills(s, world, header, w, txs),
           NEW v, NEW m, m = FinalizeAndAssemble(v, s, header, w, txs)
    PROVE  /\ Execution(w, txs, << >>) \in Execs /\ m \in Execs
           /\ m = finalizeBlock(Mining(v), s, header, Execution(w, txs, << >>))
           /\ Extends(s, header, Execution(w, txs, << >>), m, BlockReward)
           /\ isEpoch(header.number) /\ m.err = OK => m.world.pool = 0
<1>1. GoodSnap(s) /\ GoodHeader(s, header)
  BY PreparedGood, Zenon DEF Fills
<1>2. w \in Worlds /\ txs \in Seq(Txs)
  <2>1. txs \in Seq(Txs) /\ Len(txs) \in 0 .. Len(txs)
    BY DEF Fills, UserTxs
  <2>2. PICK ws : Trace(world, txs, Len(txs), ws) /\ w = ws[Len(txs)]
    BY Zenon DEF Fills, Filled
  <2> QED
    BY <2>1, <2>2, Zenon DEF Trace
<1>3. PICK e : e = Execution(w, txs, << >>)
  BY Zenon
<1>4. OK \in Errors /\ << >> \in Seq(Txs)
  BY DEF Errors
<1>5. e \in Execs
  BY <1>2, <1>3, <1>4, Zenon DEF Execution, Execs
<1>6. m = finalizeBlock(Mining(v), s, header, e)
  BY <1>3, Zenon DEF FinalizeAndAssemble, Mining
<1>7. /\ Extends(s, header, e, m, BlockReward)
      /\ isEpoch(header.number) /\ m.err = OK => m.world.pool = 0
  BY <1>1, <1>5, <1>6, FinalizeStep, Zenon
<1>8. m \in Execs
  BY <1>7, Zenon DEF Extends
<1> QED
  BY <1>3, <1>5, <1>6, <1>7, <1>8, Zenon

Reexecuted(x, m) ==
    x.err = OK /\ x.received = << >> /\ x.txs = m.txs /\ x.world = m.world

\* Every node that processes the block ends up with the same state and transactions.
LEMMA MadeAccepted ==
    ASSUME NEW s, NEW world, NEW header, NEW w, NEW txs, Fills(s, world, header, w, txs),
           NEW v, NEW m, m = FinalizeAndAssemble(v, s, header, w, txs), m.err = OK,
           NEW x, x = Process(s, world, Block(header, m))
    PROVE  Reexecuted(x, m)
<1>1. PICK e : e = Execution(w, txs, << >>)
  BY Zenon
<1>2. /\ e \in Execs /\ m \in Execs /\ m = finalizeBlock(Mining(v), s, header, e)
      /\ Extends(s, header, e, m, BlockReward)
  <2>1. /\ Execution(w, txs, << >>) \in Execs /\ m \in Execs
        /\ m = finalizeBlock(Mining(v), s, header, Execution(w, txs, << >>))
        /\ Extends(s, header, Execution(w, txs, << >>), m, BlockReward)
    BY AssembledFacts
  <2> QED
    BY <1>1, <2>1, Zenon
<1>3. PICK all : all = m.txs
  BY Zenon
<1>4. PICK k : k = Len(txs)
  BY ZenonT(30)
<1>5. /\ txs \in Seq(Txs) /\ k \in Nat
      /\ \A i \in 1 .. k : txs[i].price # 0
  BY <1>4 DEF Fills, UserTxs
<1>6. e.err = OK /\ e.world = w /\ e.txs = txs /\ e.received = << >>
  BY <1>1, Zenon DEF Execution
<1>7. /\ all \in Seq(Txs) /\ k \in 0 .. Len(all)
      /\ \A i \in 1 .. k : all[i] = txs[i]
      /\ \A i \in k + 1 .. Len(all) : IsSystemTransaction(all[i], header)
  <2>1. m.txs \in Seq(Txs)
    BY <1>2, Zenon DEF Execs
  <2>2. /\ Begins(txs, all)
        /\ \A i \in Len(txs) + 1 .. Len(all) : IsSystemTransaction(all[i], header)
    BY <1>2, <1>3, <1>6, Zenon DEF Extends
  <2> QED
    BY <1>3, <1>4, <1>5, <2>1, <2>2 DEF Begins
<1>8. \A i \in 1 .. k : ~IsSystemTransaction(all[i], header)
  BY <1>5, <1>7, Zenon DEF IsSystemTransaction
<1>9. PICK ws : Trace(world, all, k, ws) /\ w = ws[k]
  <2>1. PICK ws : Trace(world, txs, k, ws) /\ w = ws[k]
    BY <1>4, Zenon DEF Fills, Filled
  <2>2. Trace(world, all, k, ws)
    BY <1>7, <2>1, Zenon DEF Trace
  <2> QED
    BY <2>1, <2>2, Zenon
<1>10. SubSeq(all, 1, k) = txs
  <2>1. SubSeq(all, 1, k) \in Seq(Txs) /\ Len(SubSeq(all, 1, k)) = k
    BY <1>5, <1>7
  <2>2. \A i \in 1 .. k : SubSeq(all, 1, k)[i] = txs[i]
    BY <1>5, <1>7
  <2> QED
    BY <1>4, <1>5, <2>1, <2>2
<1>11. PICK y : y = Executed(world, header, all)
  BY Zenon
<1>12. world \in Worlds
  BY Zenon DEF Fills
<1>13. y = Execution(w, txs, SubSeq(all, k + 1, Len(all)))
  <2>1. Executed(world, header, all) =
           Execution(ws[k], SubSeq(all, 1, k), SubSeq(all, k + 1, Len(all)))
    BY <1>7, <1>8, <1>9, <1>12, LoopResult
  <2> QED
    BY <1>9, <1>10, <1>11, <2>1, ZenonT(30)
<1>14. /\ y.err = OK /\ y.world = w /\ y.txs = txs
       /\ y.received = SubSeq(all, k + 1, Len(all))
  BY <1>13, ZenonT(30) DEF Execution
<1>15. y \in Execs
  <2>1. SubSeq(all, k + 1, Len(all)) \in Seq(Txs)
    BY <1>5, <1>7
  <2>2. w \in Worlds /\ OK \in Errors
    BY <1>2, <1>6, Zenon DEF Execs
  <2> QED
    BY <1>5, <1>13, <2>1, <2>2, Zenon DEF Execution, Execs
<1>16. Behind(e, y, all)
  BY <1>4, <1>6, <1>14, Zenon DEF Behind
<1>17. Begins(m.txs, all)
  BY <1>3, <1>7 DEF Begins
<1>18. GoodSnap(s) /\ GoodHeader(s, header)
       /\ (isEpoch(header.number) => header.validators = getTopValidator(world))
  BY PreparedGood, Zenon DEF Fills
<1>19. PICK z : z = finalizeBlock(Checking, s, header, y)
  BY Zenon
<1>20. Matches(e, y, m, z, all)
  BY <1>2, <1>7, <1>15, <1>18, <1>19, FinalizeStep, Zenon
<1>21. Behind(m, z, all)
  BY <1>16, <1>17, <1>20, Zenon DEF Matches
<1>22. /\ z.err = OK /\ z.world = m.world /\ z.txs = m.txs
       /\ z.received = SubSeq(all, Len(all) + 1, Len(all))
  BY <1>3, <1>21, Zenon DEF Behind
<1>23. z.received = << >>
  BY <1>7, <1>22, SubSeqEmpty
<1>24. x = z
  <2>1. PICK b : b = Block(header, m)
    BY Zenon
  <2>2. b.header = header /\ b.txs = all /\ b.root = m.world
    BY <1>3, <2>1, Zenon DEF Block
  <2>3. z = finalizeBlock([mining |-> FALSE, validator |-> 0], s, b.header,
                          Executed(world, b.header, b.txs))
    BY <1>11, <1>19, <2>2, Zenon DEF Checking
  <2>4. ~(isEpoch(b.header.number) /\ b.header.validators # EpochValidators(world, z.world))
    BY <1>18, <2>2, Zenon DEF EpochValidators
  <2> QED
    BY <1>22, <2>1, <2>2, <2>3, <2>4, Zenon DEF Process
<1> QED
  BY <1>22, <1>23, <1>24, Zenon DEF Reexecuted

-----------------------------------------------------------------------------
(***************************************************************************)
(* The inductive invariant.                                                *)
(***************************************************************************)

\* The block being filled.
GoodWork(k) ==
    /\ k = [height |-> k.height, snap |-> k.snap, parentWorld |-> k.parentWorld,
            header |-> k.header, world |-> k.world, txs |-> k.txs]
    /\ k.height = k.header.number
    /\ Fills(k.snap, k.parentWorld, k.header, k.world, k.txs)

\* A block that was made, and its parent.
GoodBlock(b) ==
    \E w, txs, v :
        LET m == FinalizeAndAssemble(v, b.snap, b.block.header, w, txs)
        IN  /\ Fills(b.snap, b.world, b.block.header, w, txs)
            /\ m.err = OK
            /\ b.block = Block(b.block.header, m)
            /\ b.height = b.block.header.number

\* The inductive invariant: the block being filled and the block made last belong to a
\* parent of their own, which need not be the head any more.
FinalizationInv ==
    /\ GoodSnap(head.snap) /\ head.world \in Worlds
    /\ validator \in Addr
    /\ work = NoWork \/ GoodWork(work)
    /\ last = NoBlock \/ GoodBlock(last)
    /\ RewardsConserved /\ PaidOutAtEpoch

\* The pool offers ordinary transactions only.
LEMMA PendingType ==
    ASSUME NEW world \in Worlds, NEW tx \in Pending(world)
    PROVE  /\ tx \in Txs /\ tx.arg \in CandidateLists
           /\ tx.price # 0 /\ tx.method = "user" /\ preCheck(world, tx)
<1>0. PICK from \in Senders, to \in {ValidatorContract, "other"}, list \in CandidateLists,
           price \in Prices : tx = UserTx(world, from, to, list, price)
  BY DEF Pending
<1>1. from \in Accounts /\ list \in Args /\ price \in Nat /\ price # 0
  BY PricesAssumption, Zenon DEF Accounts, Args
<1>2. world.nonce[from] \in Nat
  BY <1>1, Zenon DEF Worlds
<1>3. "user" \in Methods /\ to \in Contracts \cup {"other"}
  BY Zenon DEF Methods, Contracts
<1> QED
  BY <1>0, <1>1, <1>2, <1>3, Zenon DEF UserTx, Txs, preCheck

\* What is offered on one state and passes preCheck on another might be offered on that too.
LEMMA PendingAgain ==
    ASSUME NEW world, NEW other, NEW tx \in Pending(other), preCheck(world, tx)
    PROVE  tx \in Pending(world)
<1>1. PICK from \in Senders, to \in {ValidatorContract, "other"}, list \in CandidateLists,
           price \in Prices : tx = UserTx(other, from, to, list, price)
  BY DEF Pending
<1>2. other.nonce[from] = world.nonce[from]
  BY <1>1, Zenon DEF UserTx, preCheck
<1>3. tx = UserTx(world, from, to, list, price)
  BY <1>1, <1>2, Zenon DEF UserTx
<1> QED
  BY <1>3 DEF Pending

\* A fee goes to the pool.
LEMMA TransitionType ==
    ASSUME NEW world \in Worlds, NEW tx \in Txs, tx.arg \in CandidateLists,
           NEW w, w = Transition(world, tx)
    PROVE  /\ w \in Worlds
           /\ w.pool + w.contract = world.pool + world.contract + tx.price
           /\ w.fees = world.fees + tx.price
<1>1. tx.from \in Accounts /\ tx.price \in Nat
  BY Zenon DEF Txs
<1>2. world.nonce[tx.from] + 1 \in Nat
  BY <1>1 DEF Worlds
<1> DEFINE nonce == [world.nonce EXCEPT ![tx.from] = @ + 1]
           candidates == IF tx.to = ValidatorContract THEN tx.arg ELSE world.candidates
           w1 == [world EXCEPT !.nonce = nonce]
           w2 == [w1 EXCEPT !.pool = world.pool + tx.price]
           w3 == [w2 EXCEPT !.fees = world.fees + tx.price]
           w4 == [w3 EXCEPT !.candidates = candidates]
<1>3. nonce \in [Accounts -> Nat] /\ candidates \in CandidateLists
  BY <1>1, <1>2, Zenon DEF Worlds
<1>4. w = w4
  BY Zenon DEF Transition, Worlds
<1> HIDE DEF nonce, candidates
<1>5. /\ w1 \in Worlds /\ w1.pool = world.pool /\ w1.fees = world.fees
      /\ w1.contract = world.contract
  BY <1>3, Zenon DEF Worlds
<1> HIDE DEF w1
<1>6. /\ w2 \in Worlds /\ w2.pool = world.pool + tx.price /\ w2.fees = world.fees
      /\ w2.contract = world.contract
  BY <1>1, <1>5 DEF Worlds
<1> HIDE DEF w2
<1>7. /\ w3 \in Worlds /\ w3.pool = world.pool + tx.price /\ w3.fees = world.fees + tx.price
      /\ w3.contract = world.contract
  BY <1>1, <1>6 DEF Worlds
<1> HIDE DEF w3
<1>8. /\ w4 \in Worlds /\ w4.pool = world.pool + tx.price /\ w4.fees = world.fees + tx.price
      /\ w4.contract = world.contract
  BY <1>3, <1>7, Zenon DEF Worlds
<1> HIDE DEF w4
<1>9. world.pool \in Nat /\ world.contract \in Nat
  BY Zenon DEF Worlds
<1> QED
  BY <1>1, <1>4, <1>8, <1>9

\* Nothing executed yet, and one transaction more.
LEMMA FilledEmpty ==
    ASSUME NEW world \in Worlds
    PROVE  UserTxs(<< >>) /\ Filled(world, << >>, world)
<1>1. Len(<< >>) = 0 /\ << >> \in Seq(Txs)
  OBVIOUS
<1> DEFINE ws == [i \in 0 .. 0 |-> world]
<1>2. Trace(world, << >>, 0, ws) /\ ws[0] = world
  BY DEF Trace
<1> HIDE DEF ws
<1> QED
  BY <1>1, <1>2 DEF UserTxs, Filled

\* One more transaction in the block being filled.
LEMMA FilledNext ==
    ASSUME NEW world, NEW txs, UserTxs(txs), NEW w, Filled(world, txs, w),
           NEW tx \in Txs, tx.arg \in CandidateLists, tx.price # 0, tx.method = "user",
           preCheck(w, tx)
    PROVE  /\ w \in Worlds
           /\ UserTxs(Append(txs, tx)) /\ Filled(world, Append(txs, tx), Transition(w, tx))
<1>1. PICK k, more : k = Len(txs) /\ more = Append(txs, tx)
  BY Zenon
<1>2. /\ txs \in Seq(Txs) /\ k \in Nat /\ more \in Seq(Txs) /\ Len(more) = k + 1
      /\ more[k + 1] = tx /\ \A i \in 1 .. k : more[i] = txs[i]
  BY <1>1 DEF UserTxs
<1>3. PICK ws : Trace(world, txs, k, ws) /\ w = ws[k]
  BY <1>1, Zenon DEF Filled
<1>4. w \in Worlds /\ ws[0] = world /\ ws \in [0 .. k -> Worlds]
  BY <1>2, <1>3 DEF Trace
<1>5. PICK t : t = Transition(w, tx)
  BY Zenon
<1>6. t \in Worlds
  BY <1>4, <1>5, TransitionType, Zenon
<1> DEFINE more_ws == [i \in 0 .. k + 1 |-> IF i = k + 1 THEN t ELSE ws[i]]
<1>7. more_ws \in [0 .. k + 1 -> Worlds] /\ more_ws[0] = world /\ more_ws[k + 1] = t
  BY <1>2, <1>4, <1>6
<1>8. ASSUME NEW i \in 1 .. k + 1
      PROVE  preCheck(more_ws[i - 1], more[i]) /\ more_ws[i] = Transition(more_ws[i - 1], more[i])
  <2>1. CASE i = k + 1
    <3>1. more_ws[i - 1] = w /\ more_ws[i] = t /\ more[i] = tx
      BY <1>2, <1>3, <2>1
    <3> QED
      BY <1>5, <3>1, Zenon
  <2>2. CASE i \in 1 .. k
    <3>1. more_ws[i - 1] = ws[i - 1] /\ more_ws[i] = ws[i] /\ more[i] = txs[i]
      BY <1>2, <2>2
    <3>2. preCheck(ws[i - 1], txs[i]) /\ ws[i] = Transition(ws[i - 1], txs[i])
      BY <1>3, <2>2, Zenon DEF Trace
    <3> HIDE DEF more_ws
    <3> QED
      BY <3>1, <3>2, Zenon
  <2> QED
    BY <1>2, <2>1, <2>2
<1> HIDE DEF more_ws
<1>9. Trace(world, more, k + 1, more_ws)
  BY <1>7, <1>8, Zenon DEF Trace
<1>10. Filled(world, more, t)
  BY <1>2, <1>7, <1>9, Zenon DEF Filled
<1>11. UserTxs(more)
  <2> SUFFICES ASSUME NEW i \in 1 .. k + 1
               PROVE  more[i].price # 0 /\ more[i].method = "user"
    BY <1>2, Zenon DEF UserTxs
  <2>1. CASE i = k + 1
    BY <1>2, <2>1, Zenon
  <2>2. CASE i \in 1 .. k
    BY <1>1, <1>2, <2>2, Zenon DEF UserTxs
  <2> QED
    BY <1>2, <2>1, <2>2
<1> QED
  BY <1>1, <1>4, <1>5, <1>10, <1>11, Zenon

\* At least one of the candidates is elected.
LEMMA ElectedType ==
    ASSUME NEW world, world.candidates \in CandidateLists
    PROVE  getTopValidator(world) \in (SUBSET Addr) \ {{}}
<1>1. PICK list : list = world.candidates
  BY Zenon
<1>2. /\ list \in Seq(Addr) /\ list # << >> /\ MaxValidatorNum \in Nat \ {0}
      /\ Len(list) \in Nat
  BY <1>1, CandidatesAssumption
<1>3. Len(list) # 0
  BY <1>2
<1>4. PICK k \in Nat : /\ k = IF Len(list) < MaxValidatorNum THEN Len(list) ELSE MaxValidatorNum
                       /\ k >= 1 /\ k <= Len(list)
  BY <1>2, <1>3
<1>5. getTopValidator(world) = {list[i] : i \in 1 .. k}
  BY <1>1, <1>4, Zenon DEF getTopValidator
<1>6. /\ \A i \in 1 .. k : list[i] \in Addr
      /\ 1 \in 1 .. k
  BY <1>2, <1>4
<1> QED
  BY <1>5, <1>6, Zenon

\* The genesis block.
LEMMA FinalizationInitInv == FinalizationInit => FinalizationInv
<1> SUFFICES ASSUME FinalizationInit PROVE FinalizationInv
  BY Zenon
<1>1. PICK list \in CandidateLists :
         head = [snap |-> newSnapshot(0, 0, getTopValidator(GenesisState(list))),
                 world |-> GenesisState(list)]
  BY Zenon DEF FinalizationInit
<1>2. PICK g : g = GenesisState(list)
  BY Zenon
<1>3. /\ g \in Worlds /\ g.candidates = list
      /\ g.pool = 0 /\ g.contract = 0 /\ g.fees = 0
  BY <1>2, Zenon DEF GenesisState, Worlds, Accounts
<1>4. PICK V : V = getTopValidator(g)
  BY Zenon
<1>5. V \in (SUBSET Addr) \ {{}}
  BY <1>3, <1>4, ElectedType, Zenon
<1>6. head.world = g /\ head.snap = newSnapshot(0, 0, V)
  BY <1>1, <1>2, <1>4, Zenon
<1>7. GoodSnap(head.snap) /\ head.snap.Number = 0
  BY <1>5, <1>6 DEF GoodSnap, newSnapshot
<1>8. RewardsConserved /\ PaidOutAtEpoch
  BY <1>3, <1>6, <1>7, RewardAssumption DEF RewardsConserved, PaidOutAtEpoch
<1> QED
  BY <1>3, <1>6, <1>7, <1>8, Zenon DEF FinalizationInit, FinalizationInv

\* A block is started on the head.
LEMMA PrepareInv == FinalizationInv /\ Prepare => FinalizationInv'
<1> SUFFICES ASSUME FinalizationInv, Prepare PROVE FinalizationInv'
  BY Zenon
<1>0. PICK c \in Addr :
         work' = [height |-> head.snap.Number + 1,
                  snap |-> head.snap, parentWorld |-> head.world,
                  header |-> Prepared(head.snap, head.world, c, validator),
                  world |-> head.world, txs |-> << >>]
  BY Zenon DEF Prepare
<1>1. PICK header : header = Prepared(head.snap, head.world, c, validator)
  BY Zenon
<1>2. work' = [height |-> head.snap.Number + 1,
               snap |-> head.snap, parentWorld |-> head.world,
               header |-> header, world |-> head.world, txs |-> << >>]
  BY <1>0, <1>1, Zenon
<1>3. header.number = head.snap.Number + 1
  BY <1>1, Zenon DEF Prepared
<1>4. Fills(head.snap, head.world, header, head.world, << >>)
  BY <1>1, FilledEmpty, Zenon DEF FinalizationInv, Fills
<1>5. GoodWork(work')
  BY <1>2, <1>3, <1>4, Zenon DEF GoodWork
<1> QED
  BY <1>5, Zenon DEF FinalizationInv, Prepare, RewardsConserved, PaidOutAtEpoch

\* A transaction is added to the block being filled.
LEMMA CommitTransactionInv == FinalizationInv /\ CommitTransaction => FinalizationInv'
<1> SUFFICES ASSUME FinalizationInv, CommitTransaction PROVE FinalizationInv'
  BY Zenon
<1>1. GoodWork(work)
  BY Zenon DEF FinalizationInv, CommitTransaction
<1>0. PICK offered \in Pending(work.world) \cup Pending(head.world) :
         work' = IF preCheck(work.world, offered)
                 THEN [work EXCEPT !.world = Transition(@, offered), !.txs = Append(@, offered)]
                 ELSE work
  BY Zenon DEF CommitTransaction
<1>skipped. CASE ~preCheck(work.world, offered)
  BY <1>0, <1>skipped, Zenon DEF FinalizationInv, CommitTransaction, RewardsConserved,
     PaidOutAtEpoch
<1> SUFFICES ASSUME preCheck(work.world, offered) PROVE FinalizationInv'
  BY <1>skipped, Zenon
<1>2. PICK tx \in Pending(work.world) :
         work' = [work EXCEPT !.world = Transition(@, tx), !.txs = Append(@, tx)]
  BY <1>0, PendingAgain, Zenon
<1>4. PICK w, txs : w = Transition(work.world, tx) /\ txs = Append(work.txs, tx)
  BY ZenonT(30)
<1>5. /\ GoodSnap(work.snap) /\ work.parentWorld \in Worlds
      /\ \E c, v \in Addr : work.header = Prepared(work.snap, work.parentWorld, c, v)
      /\ UserTxs(work.txs) /\ Filled(work.parentWorld, work.txs, work.world)
      /\ work.height = work.header.number
  BY <1>1, Zenon DEF GoodWork, Fills
<1>6. work.world \in Worlds
  <2>1. PICK ws : Trace(work.parentWorld, work.txs, Len(work.txs), ws)
                  /\ work.world = ws[Len(work.txs)]
    BY <1>5, Zenon DEF Filled
  <2> QED
    BY <1>5, <2>1 DEF UserTxs, Trace
<1>7. /\ tx \in Txs /\ tx.arg \in CandidateLists /\ tx.price # 0 /\ tx.method = "user"
      /\ preCheck(work.world, tx)
  BY <1>6, PendingType, Zenon
<1>8. UserTxs(txs) /\ Filled(work.parentWorld, txs, w)
  BY <1>4, <1>5, <1>7, FilledNext, Zenon
<1> DEFINE k1 == [work EXCEPT !.world = w]
           k2 == [k1 EXCEPT !.txs = txs]
<1>9. work' = k2
  BY <1>1, <1>2, <1>4, Zenon DEF GoodWork
<1>10. k1 = [height |-> work.height, snap |-> work.snap, parentWorld |-> work.parentWorld,
             header |-> work.header, world |-> w, txs |-> work.txs]
  BY <1>1 DEF GoodWork
<1> HIDE DEF k1
<1>11. k2 = [height |-> work.height, snap |-> work.snap, parentWorld |-> work.parentWorld,
             header |-> work.header, world |-> w, txs |-> txs]
  BY <1>10
<1> HIDE DEF k2
<1>12. GoodWork(work')
  <2>1. Fills(work.snap, work.parentWorld, work.header, w, txs)
    BY <1>5, <1>8, Zenon DEF Fills
  <2> QED
    BY <1>5, <1>9, <1>11, <2>1, Zenon DEF GoodWork
<1> QED
  BY <1>12, Zenon DEF FinalizationInv, CommitTransaction, RewardsConserved, PaidOutAtEpoch

\* The block is made, by whatever account is authorized now.
LEMMA CommitInv == FinalizationInv /\ Commit => FinalizationInv'
<1> SUFFICES ASSUME FinalizationInv, Commit PROVE FinalizationInv'
  BY Zenon
<1>1. GoodWork(work)
  BY Zenon DEF FinalizationInv, Commit
<1>2. PICK m : m = FinalizeAndAssemble(validator, work.snap, work.header, work.world, work.txs)
  BY Zenon
<1>3. /\ m.err = OK
      /\ last' = [height |-> work.height, snap |-> work.snap, world |-> work.parentWorld,
                  block |-> Block(work.header, m)]
  BY <1>2, Zenon DEF Commit
<1>4. /\ last'.height = work.height /\ last'.snap = work.snap /\ last'.world = work.parentWorld
      /\ last'.block = Block(work.header, m) /\ last'.block.header = work.header
  BY <1>3, Zenon DEF Block
<1>5. GoodBlock(last')
  BY <1>1, <1>2, <1>3, <1>4, Zenon DEF GoodBlock, GoodWork
<1> QED
  BY <1>5, Zenon DEF FinalizationInv, Commit, RewardsConserved, PaidOutAtEpoch

\* What a block makes of the head: m is its execution, next the snapshot after it.
Follows(s, w, m, next) ==
    /\ GoodSnap(next) /\ m.world \in Worlds
    /\ next.Number = s.Number + 1
    /\ m.world.fees = w.fees
    /\ m.world.pool + m.world.contract = w.pool + w.contract + BlockReward
    /\ isEpoch(next.Number) => m.world.pool = 0

\* The head that an accepted block makes.
LEMMA InsertedHead ==
    ASSUME NEW s, NEW world, NEW header, NEW w, NEW txs, Fills(s, world, header, w, txs),
           NEW v, NEW m, m = FinalizeAndAssemble(v, s, header, w, txs), m.err = OK,
           NEW next, next = applyHeader(s, header)
    PROVE  Follows(s, w, m, next)
<1>1. PICK e : e = Execution(w, txs, << >>)
  BY Zenon
<1>2. m \in Execs /\ Extends(s, header, Execution(w, txs, << >>), m, BlockReward)
      /\ (isEpoch(header.number) => m.world.pool = 0)
  BY AssembledFacts
<1>3. /\ m.world \in Worlds /\ m.world.fees = w.fees
      /\ m.world.pool + m.world.contract = w.pool + w.contract + BlockReward
  <2>1. e.world = w
    BY <1>1, Zenon DEF Execution
  <2>2. Extends(s, header, e, m, BlockReward)
    BY <1>1, <1>2, ZenonT(30)
  <2> QED
    BY <1>2, <2>1, <2>2, ZenonT(30) DEF Extends, Execs
<1>4. PICK c \in Addr, v2 \in Addr : header = Prepared(s, world, c, v2)
  BY Zenon DEF Fills
<1>5. GoodSnap(s) /\ world.candidates \in CandidateLists
  BY Zenon DEF Fills, Worlds
<1>6. header.number = s.Number + 1 /\ header.number \in Nat
  BY <1>4, <1>5 DEF Prepared, GoodSnap
<1>7. isEpoch(header.number) => header.validators \in (SUBSET Addr) \ {{}}
  <2>1. isEpoch(header.number) => header.validators = getTopValidator(world)
    BY <1>4, <1>5, PreparedGood, Zenon
  <2> QED
    BY <1>5, <2>1, ElectedType, Zenon
<1>8. /\ next.Number = header.number
      /\ next.Validators = IF header.number > 0 /\ isEpoch(header.number)
                           THEN header.validators ELSE s.Validators
  BY ZenonT(30) DEF applyHeader
<1>9. GoodSnap(next)
  BY <1>5, <1>6, <1>7, <1>8, Zenon DEF GoodSnap
<1> QED
  BY <1>2, <1>3, <1>6, <1>8, <1>9, Zenon DEF Follows

\* A block of any validator is processed and becomes the head.
LEMMA InsertInv == FinalizationInv /\ Insert => FinalizationInv'
<1> SUFFICES ASSUME FinalizationInv, Insert PROVE FinalizationInv'
  BY Zenon
<1>1. PICK v \in head.snap.Validators, txs \in {<< >>} \cup {<<tx>> : tx \in Pending(head.world)} :
          LET header == Prepared(head.snap, head.world, v, v)
              filled == IF txs = << >> THEN head.world ELSE Transition(head.world, Head(txs))
              made == FinalizeAndAssemble(v, head.snap, header, filled, txs)
              block == Block(header, made)
              exec == Process(head.snap, head.world, block)
          IN  /\ made.err = OK
              /\ head' = IF exec.err = OK
                         THEN [snap |-> applyHeader(head.snap, header), world |-> exec.world]
                         ELSE head
              /\ last' = [height |-> header.number, snap |-> head.snap, world |-> head.world,
                          block |-> block]
  BY Zenon DEF Insert
<1>2. PICK header : header = Prepared(head.snap, head.world, v, v)
  BY Zenon
<1>3. PICK w : w = IF txs = << >> THEN head.world ELSE Transition(head.world, Head(txs))
  BY Zenon
<1>4. PICK m : m = FinalizeAndAssemble(v, head.snap, header, w, txs)
  BY Zenon
<1>5. PICK x : x = Process(head.snap, head.world, Block(header, m))
  BY Zenon
<1>6. /\ m.err = OK
      /\ head' = IF x.err = OK
                 THEN [snap |-> applyHeader(head.snap, header), world |-> x.world]
                 ELSE head
      /\ last' = [height |-> header.number, snap |-> head.snap, world |-> head.world,
                  block |-> Block(header, m)]
  BY <1>1, <1>2, <1>3, <1>4, <1>5, Zenon
<1>7. /\ head.world \in Worlds /\ GoodSnap(head.snap) /\ v \in Addr
      /\ RewardsConserved
  BY Zenon DEF FinalizationInv, GoodSnap
<1>8. /\ UserTxs(txs) /\ Filled(head.world, txs, w) /\ w \in Worlds
      /\ \E price \in Nat : /\ w.pool + w.contract = head.world.pool + head.world.contract + price
                            /\ w.fees = head.world.fees + price
  <2>1. CASE txs = << >>
    <3>1. w = head.world
      BY <1>3, <2>1, Zenon
    <3>2. /\ w.pool + w.contract = head.world.pool + head.world.contract + 0
          /\ w.fees = head.world.fees + 0
      BY <1>7, <3>1 DEF Worlds
    <3> QED
      BY <1>7, <2>1, <3>1, <3>2, FilledEmpty, Zenon
  <2>2. CASE txs \in {<<tx>> : tx \in Pending(head.world)}
    <3>1. PICK tx \in Pending(head.world) : txs = <<tx>>
      BY <2>2, Zenon
    <3>3. /\ tx \in Txs /\ tx.arg \in CandidateLists /\ tx.price # 0 /\ tx.method = "user"
          /\ preCheck(head.world, tx)
      BY <1>7, PendingType, Zenon
    <3>4. txs = <<tx>> /\ txs = Append(<< >>, tx) /\ txs # << >> /\ Head(txs) = tx
      BY <3>1
    <3>5. w = Transition(head.world, tx)
      BY <1>3, <3>4, Zenon
    <3>6. UserTxs(<< >>) /\ Filled(head.world, << >>, head.world)
      BY <1>7, FilledEmpty, Zenon
    <3>7. UserTxs(Append(<< >>, tx))
          /\ Filled(head.world, Append(<< >>, tx), Transition(head.world, tx))
      BY <3>3, <3>6, FilledNext, Zenon
    <3>8. /\ w \in Worlds /\ tx.price \in Nat
          /\ w.pool + w.contract = head.world.pool + head.world.contract + tx.price
          /\ w.fees = head.world.fees + tx.price
      BY <1>7, <3>3, <3>5, TransitionType, Zenon DEF Txs
    <3> QED
      BY <3>4, <3>5, <3>7, <3>8, Zenon
  <2> QED
    BY <2>1, <2>2, Zenon
<1>9. Fills(head.snap, head.world, header, w, txs)
  BY <1>2, <1>7, <1>8, Zenon DEF Fills
<1>10. x.err = OK /\ x.world = m.world
  <2>1. m.err = OK
    BY <1>6, ZenonT(30)
  <2>2. Reexecuted(x, m)
    BY <1>4, <1>5, <1>9, <2>1, MadeAccepted, ZenonT(30)
  <2> QED
    BY <2>2, Zenon DEF Reexecuted
<1>11. PICK next : next = applyHeader(head.snap, header)
  BY Zenon
<1>12. /\ GoodSnap(next) /\ m.world \in Worlds
       /\ next.Number = head.snap.Number + 1
       /\ m.world.fees = w.fees
       /\ m.world.pool + m.world.contract = w.pool + w.contract + BlockReward
       /\ isEpoch(next.Number) => m.world.pool = 0
  <2>1. Follows(head.snap, w, m, next)
    BY <1>4, <1>6, <1>9, <1>11, InsertedHead, ZenonT(30)
  <2> QED
    BY <2>1, Zenon DEF Follows
<1>13. head'.snap = next /\ head'.world = m.world
  BY <1>6, <1>10, <1>11, Zenon
<1>14. RewardsConserved'
  <2>1. PICK price \in Nat : /\ w.pool + w.contract = head.world.pool + head.world.contract + price
                             /\ w.fees = head.world.fees + price
    BY <1>8, Zenon
  <2>2. /\ head.world.pool \in Nat /\ head.world.contract \in Nat /\ head.world.fees \in Nat
        /\ BlockReward \in Nat /\ head.snap.Number \in Nat
    BY <1>7, RewardAssumption, Zenon DEF Worlds, GoodSnap
  <2>3. BlockReward * (head.snap.Number + 1) = BlockReward * head.snap.Number + BlockReward
    BY <2>2
  <2>4. head.world.pool + head.world.contract = head.world.fees + BlockReward * head.snap.Number
    BY <1>7, Zenon DEF RewardsConserved
  <2>5. m.world.pool + m.world.contract = m.world.fees + BlockReward * next.Number
    <3>1. PICK q \in Nat : q = BlockReward * head.snap.Number
      BY <2>2
    <3>2. BlockReward * next.Number = q + BlockReward
      BY <1>12, <2>3, <3>1, Zenon
    <3>3. /\ w.pool \in Nat /\ w.contract \in Nat /\ w.fees \in Nat
          /\ m.world.pool \in Nat /\ m.world.contract \in Nat
      BY <1>8, <1>12, Zenon DEF Worlds
    <3>4. m.world.pool + m.world.contract =
             head.world.fees + q + price + BlockReward
      BY <1>12, <2>1, <2>2, <2>4, <3>1, <3>3, Zenon
    <3>5. m.world.fees = head.world.fees + price
      BY <1>12, <2>1, Zenon
    <3>6. PICK p : p = BlockReward * next.Number
      BY Zenon
    <3>7. p = q + BlockReward
      BY <3>2, <3>6, Zenon
    <3>8. m.world.pool + m.world.contract = m.world.fees + p
      <4>1. price \in Nat /\ q \in Nat /\ head.world.fees \in Nat /\ BlockReward \in Nat
        BY <2>2, Zenon
      <4> QED
        BY <3>4, <3>5, <3>7, <4>1
    <3> QED
      BY <3>6, <3>8, Zenon
  <2> QED
    BY <1>13, <2>5, Zenon DEF RewardsConserved
<1>15. PaidOutAtEpoch'
  BY <1>12, <1>13, Zenon DEF PaidOutAtEpoch
<1>16. GoodBlock(last')
  <2>1. /\ last'.height = header.number /\ last'.snap = head.snap /\ last'.world = head.world
        /\ last'.block = Block(header, m) /\ last'.block.header = header
    BY <1>6, ZenonT(30) DEF Block
  <2> QED
    BY <1>4, <1>6, <1>9, <2>1, Zenon DEF GoodBlock
<1>17. validator' = validator /\ work' = work
  BY Zenon DEF Insert
<1> QED
  BY <1>12, <1>13, <1>14, <1>15, <1>16, <1>17, Zenon DEF FinalizationInv

\* Every step keeps the invariant.
LEMMA FinalizationStepInv ==
    FinalizationInv /\ [FinalizationNext]_finalizationVars => FinalizationInv'
<1> SUFFICES ASSUME FinalizationInv, [FinalizationNext]_finalizationVars PROVE FinalizationInv'
  BY Zenon
<1>1. CASE Authorize
  BY <1>1, Zenon DEF FinalizationInv, Authorize, RewardsConserved, PaidOutAtEpoch
<1>2. CASE Prepare
  BY <1>2, PrepareInv, Zenon
<1>3. CASE CommitTransaction
  BY <1>3, CommitTransactionInv, Zenon
<1>4. CASE Commit
  BY <1>4, CommitInv, Zenon
<1>5. CASE Insert
  BY <1>5, InsertInv, Zenon
<1>6. CASE UNCHANGED finalizationVars
  BY <1>6, Zenon DEF FinalizationInv, finalizationVars, RewardsConserved, PaidOutAtEpoch
<1> QED
  BY <1>1, <1>2, <1>3, <1>4, <1>5, <1>6, Zenon DEF FinalizationNext

\* In every reachable state the head has a sound snapshot and state, the block being filled
\* and the block made last come from Prepare and the transaction pool, and the rewards of
\* the head are accounted for.
THEOREM FinalizationInvariance == FinalizationSpec => []FinalizationInv
<1>1. FinalizationInit => FinalizationInv
  BY FinalizationInitInv, Zenon
<1>2. FinalizationInv /\ [FinalizationNext]_finalizationVars => FinalizationInv'
  BY FinalizationStepInv, Zenon
<1> QED
  BY <1>1, <1>2, PTL DEF FinalizationSpec

\* What FinalizeAndAssemble makes, Process and Finalize accept: with any number of
\* transactions, on any head, whoever is authorized, for every set of validators, epoch
\* length, price and reward.
THEOREM MadeBlocksAreAccepted == FinalizationSpec => []MadeIsAccepted
<1>1. FinalizationInv => MadeIsAccepted
  <2> SUFFICES ASSUME GoodBlock(last)
               PROVE  LET exec == Process(last.snap, last.world, last.block)
                      IN  /\ exec.err = OK
                          /\ exec.received = << >>
                          /\ exec.txs = last.block.txs
    BY Zenon DEF FinalizationInv, MadeIsAccepted
  <2>1. PICK w, txs, v, m :
           /\ m = FinalizeAndAssemble(v, last.snap, last.block.header, w, txs)
           /\ Fills(last.snap, last.world, last.block.header, w, txs)
           /\ m.err = OK
           /\ last.block = Block(last.block.header, m)
    BY Zenon DEF GoodBlock
  <2>2. PICK s, world, header, b :
           s = last.snap /\ world = last.world /\ b = last.block /\ header = b.header
    BY Zenon
  <2>3. PICK x : x = Process(s, world, Block(header, m))
    BY Zenon
  <2>4. Reexecuted(x, m)
    BY <2>1, <2>2, <2>3, MadeAccepted, ZenonT(30)
  <2>5. b = Block(header, m)
    BY <2>1, <2>2, Zenon
  <2>6. b.txs = m.txs
    BY <2>5, SMT DEF Block
  <2> QED
    BY <2>2, <2>3, <2>4, <2>5, <2>6, Zenon DEF Reexecuted
<1> QED
  BY <1>1, FinalizationInvariance, PTL

\* The pool and the validator contract together hold all fees and one reward per block.
THEOREM NothingOfTheRewardsIsLost == FinalizationSpec => []RewardsConserved
<1>1. FinalizationInv => RewardsConserved
  BY Zenon DEF FinalizationInv
<1> QED
  BY <1>1, FinalizationInvariance, PTL

\* At the end of an epoch the pool is empty.
THEOREM PoolEmptiedAtEpoch == FinalizationSpec => []PaidOutAtEpoch
<1>1. FinalizationInv => PaidOutAtEpoch
  BY Zenon DEF FinalizationInv
<1> QED
  BY <1>1, FinalizationInvariance, PTL

\* Only the validator whose turn it was and that could have signed is slashed, and it has
\* not signed the block, if the block's difficulty is the one verifySeal accepts.
THEOREM OnlyTheIdleAreSlashed == FinalizationSpec => []SlashedJustly
<1>1. FinalizationInv => SlashedJustly
  <2> SUFFICES ASSUME GoodBlock(last), NEW i \in DOMAIN last.block.txs,
                      last.block.txs[i].method = "slash"
               PROVE  /\ last.block.header.difficulty =
                            calcDifficulty(last.snap, last.block.header.coinbase) =>
                               last.block.txs[i].arg # last.block.header.coinbase
                      /\ inturn(last.snap, last.height, last.block.txs[i].arg)
                      /\ Seals(last.snap, last.height, last.block.txs[i].arg)
    BY Zenon DEF FinalizationInv, SlashedJustly
  <2>1. PICK w, txs, v, m :
           /\ m = FinalizeAndAssemble(v, last.snap, last.block.header, w, txs)
           /\ Fills(last.snap, last.world, last.block.header, w, txs)
           /\ last.block = Block(last.block.header, m)
           /\ last.height = last.block.header.number
    BY Zenon DEF GoodBlock
  <2>2. PICK header : header = last.block.header
    BY Zenon
  <2>3. /\ m \in Execs
        /\ Extends(last.snap, header, Execution(w, txs, << >>), m, BlockReward)
    BY <2>1, <2>2, AssembledFacts, ZenonT(30)
  <2>4. /\ m.txs \in Seq(Txs) /\ i \in 1 .. Len(m.txs) /\ m.txs[i].method = "slash"
        /\ last.block.txs = m.txs
    <3>1. PICK b, t : b = last.block /\ t = m.txs
      BY Zenon
    <3>2. b = [header |-> header, txs |-> t, root |-> m.world]
      BY <2>1, <2>2, <3>1, Zenon DEF Block
    <3>3. b.txs = t
      BY <3>2, SMT
    <3>4. t \in Seq(Txs)
      BY <2>3, <3>1, Zenon DEF Execs
    <3>5. DOMAIN t = 1 .. Len(t)
      BY <3>4, SMT
    <3> QED
      BY <3>1, <3>3, <3>4, <3>5, Zenon
  <2>5. /\ txs \in Seq(Txs) /\ Len(txs) \in Nat
        /\ \A j \in 1 .. Len(txs) : txs[j].method = "user"
    <3>1. UserTxs(txs)
      BY <2>1, Zenon DEF Fills
    <3> QED
      BY <3>1, SMT DEF UserTxs
  <2>6. /\ Begins(txs, m.txs)
        /\ \A j \in Len(txs) + 1 .. Len(m.txs) :
              m.txs[j].method = "slash" => Deserved(last.snap, header, m.txs[j].arg)
    <3>1. PICK e : e = Execution(w, txs, << >>)
      BY Zenon
    <3>2. e.txs = txs
      BY <3>1, Zenon DEF Execution
    <3>3. Extends(last.snap, header, e, m, BlockReward)
      BY <2>3, <3>1, Zenon
    <3> QED
      BY <3>2, <3>3, Zenon DEF Extends
  <2>7. i \in Len(txs) + 1 .. Len(m.txs)
    BY <2>4, <2>5, <2>6 DEF Begins
  <2>8. Deserved(last.snap, header, m.txs[i].arg)
    BY <2>4, <2>6, <2>7, Zenon
  <2> QED
    BY <2>1, <2>2, <2>4, <2>8, Zenon DEF Deserved
<1> QED
  BY <1>1, FinalizationInvariance, PTL
=============================================================================
