-------------------------- MODULE DiplomacyProofs ----------------------------
(***************************************************************************)
(* Proofs about the registry of Diplomacy, for any set of slots, any       *)
(* cooldown and any bounds.                                                *)
(***************************************************************************)
EXTENDS Diplomacy, NatFacts, TLAPS

\* What a record of the registry says about the history of its pair: an offer
\* can only be stamped a cooldown after the last commit, and a record without
\* an offer carries the time of its last commit.
TreatyInv(p) ==
    /\ treaty[p].changedAt <= now
    /\ ~treaty[p].known => treaty[p] = NoTreaty /\ lastCommit[p] = Never
    /\ treaty[p].known /\ treaty[p].pending = "none"
           => lastCommit[p] = treaty[p].changedAt
    /\ treaty[p].pending # "none" /\ lastCommit[p] # Never
           => treaty[p].changedAt - lastCommit[p] >= Cooldown
    /\ treaty[p].pending # "none"
           => <<treaty[p].pendingFrom, treaty[p].pending>> \in offers[p]
    /\ lastWar[p] <= now

\* Pacts join two different slots and are not older than the pair's last war.
PactInv(g) ==
    /\ g.from # g.to
    /\ g.at <= now
    /\ g.at >= lastWar[{g.from, g.to}]

\* The inductive invariant.
DInv ==
    /\ TypeOK
    /\ \A p \in Pairs : TreatyInv(p)
    /\ \A g \in pacts : PactInv(g)

------------------------------------------------------------------------------
\* Two different slots form a pair.
LEMMA PairOf ==
    ASSUME NEW a \in Slots, NEW b \in Slots, a # b
    PROVE  {a, b} \in Pairs
BY DEF Pairs

\* upsert keeps the type of the treaty map and touches one pair only.
LEMMA UpsertedType ==
    TypeOK =>
      \A p \in Pairs, st \in Stances, pe \in Offered \cup {"none"},
         pf \in Slots \cup {NoSlot}, cf \in Slots \cup {NoSlot} :
        LET t == Upserted(p, st, pe, pf, cf) IN
        /\ t \in [Pairs -> Treaty]
        /\ \A q \in Pairs \ {p} : t[q] = treaty[q]
        /\ t[p].known
        /\ t[p].stance = st
        /\ t[p].pending = pe
        /\ t[p].pendingFrom = pf
        /\ t[p].changedAt = now
BY SeatsAssumption DEF Upserted, TypeOK, Treaty

\* The registry of a new match satisfies the invariant.
LEMMA DInitInv == DInit => DInv
<1> SUFFICES ASSUME DInit PROVE DInv
  OBVIOUS
<1>1. TypeOK
  BY DiplomacyAssumption, SeatsAssumption
  DEF DInit, TypeOK, Treaty, NoTreaty, Stances, Offered, Never
<1>2. \A p \in Pairs : TreatyInv(p)
  BY DiplomacyAssumption, SeatsAssumption DEF DInit, TreatyInv, NoTreaty, Never
<1>3. \A g \in pacts : PactInv(g)
  BY DEF DInit
<1> QED
  BY <1>1, <1>2, <1>3 DEF DInv

\* Game time passes: the stamps stay in the past.
LEMMA AdvanceTimeInv == DInv /\ AdvanceTime => DInv'
<1> SUFFICES ASSUME DInv, AdvanceTime PROVE DInv'
  OBVIOUS
<1>1. TypeOK'
  BY DiplomacyAssumption, SeatsAssumption DEF DInv, TypeOK, AdvanceTime, registry, history
<1>2. ASSUME NEW p \in Pairs PROVE TreatyInv(p)'
  <2>1. TreatyInv(p) /\ treaty[p].changedAt \in Nat
        /\ lastWar[p] \in 0..MaxTime \cup {Never}
    BY DEF DInv, TypeOK, Treaty
  <2> QED
    BY <2>1, DiplomacyAssumption, SeatsAssumption
    DEF DInv, TypeOK, TreatyInv, AdvanceTime, registry, history, Never
<1>3. ASSUME NEW g \in pacts' PROVE PactInv(g)'
  <2>1. g \in pacts /\ PactInv(g) /\ g.at \in Nat
    BY DEF DInv, TypeOK, Pact, AdvanceTime, registry
  <2> QED
    BY <2>1, DiplomacyAssumption, SeatsAssumption
    DEF DInv, TypeOK, PactInv, AdvanceTime, registry, history
<1> QED
  BY <1>1, <1>2, <1>3 DEF DInv

\* War: the pair's pacts are gone, so its new lastWar predates no grant.
LEMMA DeclareWarInv ==
    ASSUME DInv, NEW a \in Slots, NEW b \in Slots, a # b,
           DeclareWar(a, b), UNCHANGED now
    PROVE  DInv'
<1> DEFINE p == {a, b}
<1>0. p \in Pairs
  BY PairOf
<1>1. /\ treaty' \in [Pairs -> Treaty]
      /\ \A q \in Pairs \ {p} : treaty'[q] = treaty[q]
      /\ treaty'[p].known /\ treaty'[p].pending = "none"
      /\ treaty'[p].changedAt = now
  <2>1. now \in Nat /\ treaty \in [Pairs -> Treaty] /\ treaty[p] \in Treaty
    BY <1>0, DiplomacyAssumption, SeatsAssumption DEF DInv, TypeOK
  <2>2. treaty' = [treaty EXCEPT ![p] =
            [known |-> TRUE, stance |-> "war", pending |-> "none",
             pendingFrom |-> NoSlot, changedAt |-> now,
             by |-> IF a = NoSlot THEN treaty[p].by ELSE a]]
    BY DEF DeclareWar, Upserted
  <2>3. treaty'[p] \in Treaty
    BY <1>0, <2>1, <2>2 DEF Treaty, Stances
  <2> QED
    BY <1>0, <2>1, <2>2, <2>3
<1>2. TypeOK'
  <2>1. /\ now' \in 0..MaxTime /\ version' \in Nat /\ pacts' \subseteq Pact
    BY DEF DInv, TypeOK, DeclareWar
  <2>2. now \in 0..MaxTime \cup {Never}
    BY DEF DInv, TypeOK
  <2>3. /\ lastCommit' \in [Pairs -> 0..MaxTime \cup {Never}]
        /\ lastWar' \in [Pairs -> 0..MaxTime \cup {Never}]
        /\ offers' \in [Pairs -> SUBSET (Slots \X Offered)]
    BY <2>2 DEF DInv, TypeOK, DeclareWar
  <2> QED
    BY <1>1, <2>1, <2>3 DEF TypeOK
<1>3. ASSUME NEW q \in Pairs PROVE TreatyInv(q)'
  <2>1. TreatyInv(q) /\ now \in Nat /\ now' = now
    BY DEF DInv, TypeOK
  <2>2. CASE q = p
    <3>1. lastCommit'[q] = now /\ lastWar'[q] = now
      BY <1>0, <2>2 DEF DInv, TypeOK, DeclareWar
    <3> QED
      BY <1>1, <2>1, <2>2, <3>1 DEF TreatyInv
  <2>3. CASE q # p
    <3>1. /\ lastCommit'[q] = lastCommit[q] /\ lastWar'[q] = lastWar[q]
          /\ offers'[q] = offers[q] /\ treaty'[q] = treaty[q]
      BY <1>0, <1>1, <2>3 DEF DInv, TypeOK, DeclareWar
    <3> QED
      BY <2>1, <3>1 DEF TreatyInv
  <2> QED
    BY <2>2, <2>3
<1>4. ASSUME NEW g \in pacts' PROVE PactInv(g)'
  <2>1. g \in pacts /\ PactInv(g) /\ {g.from, g.to} # p
    BY DEF DInv, DeclareWar, PactsBetween
  <2>2. {g.from, g.to} \in Pairs
    BY <2>1, PairOf DEF DInv, TypeOK, Pact, PactInv
  <2>3. lastWar'[{g.from, g.to}] = lastWar[{g.from, g.to}]
    BY <1>0, <2>1, <2>2 DEF DInv, TypeOK, DeclareWar
  <2> QED
    BY <2>1, <2>3 DEF PactInv
<1> QED
  BY <1>2, <1>3, <1>4 DEF DInv

\* An offer is stamped only when the pair is off cooldown, and is recorded.
LEMMA ProposeInv ==
    ASSUME DInv, NEW a \in Slots, NEW b \in Slots, a # b, NEW k \in Offered,
           Propose(a, b, k), UNCHANGED now
    PROVE  DInv'
<1> DEFINE p == {a, b}
<1>0. p \in Pairs
  BY PairOf
<1>1. /\ treaty' \in [Pairs -> Treaty]
      /\ \A q \in Pairs \ {p} : treaty'[q] = treaty[q]
      /\ treaty'[p].known /\ treaty'[p].pending = k
      /\ treaty'[p].pendingFrom = a
      /\ treaty'[p].changedAt = now
  <2>1. treaty[p].stance \in Stances
    BY <1>0 DEF DInv, TypeOK, Treaty
  <2> QED
    <3>1. treaty' = Upserted(p, treaty[p].stance, k, a, NoSlot)
      BY DEF Propose
    <3>2. TypeOK
      BY DEF DInv
    <3> HIDE DEF p
    <3> QED
      BY <1>0, <2>1, <3>1, <3>2, UpsertedType
<1>2. TypeOK'
  <2>1. /\ now' \in 0..MaxTime /\ version' \in Nat /\ pacts' \subseteq Pact
        /\ lastCommit' \in [Pairs -> 0..MaxTime \cup {Never}]
        /\ lastWar' \in [Pairs -> 0..MaxTime \cup {Never}]
    BY DEF DInv, TypeOK, Propose
  <2>2. offers' \in [Pairs -> SUBSET (Slots \X Offered)]
    <3>1. offers' = [offers EXCEPT ![p] = offers[p] \cup {<<a, k>>}]
      BY DEF Propose
    <3>2. offers[p] \cup {<<a, k>>} \in SUBSET (Slots \X Offered)
      BY <1>0 DEF DInv, TypeOK
    <3> QED
      BY <1>0, <3>1, <3>2 DEF DInv, TypeOK
  <2> QED
    BY <1>1, <2>1, <2>2 DEF TypeOK
<1>3. ASSUME NEW q \in Pairs PROVE TreatyInv(q)'
  <2>1. /\ TreatyInv(q) /\ now \in Nat /\ now' = now
        /\ lastCommit[q] \in Int /\ treaty[q].changedAt \in Nat
        /\ lastCommit' = lastCommit /\ lastWar' = lastWar
    BY DiplomacyAssumption, SeatsAssumption DEF DInv, TypeOK, Treaty, Propose, Never
  <2>2. CASE q = p
    <3>1. <<a, k>> \in offers'[q]
      BY <1>0, <2>2 DEF DInv, TypeOK, Propose
    <3>2. k # "none"
      BY DEF Offered
    <3>3. lastCommit[q] # Never => now - lastCommit[q] >= Cooldown
      <4>1. lastCommit[q] # Never => treaty[q].known
        BY <2>1 DEF TreatyInv
      <4>2. treaty[q].known => now - treaty[q].changedAt >= Cooldown
        BY <2>1, <2>2, DiplomacyAssumption, SeatsAssumption DEF Propose, OnCooldown
      <4>3. lastCommit[q] # Never => lastCommit[q] <= treaty[q].changedAt
        BY <2>1, <4>1, DiplomacyAssumption, SeatsAssumption DEF TreatyInv
      <4> QED
        BY <2>1, <4>1, <4>2, <4>3, DiplomacyAssumption, SeatsAssumption
    <3>4. <<treaty'[q].pendingFrom, treaty'[q].pending>> \in offers'[q]
      BY <1>1, <2>2, <3>1
    <3>5. /\ treaty'[q].known /\ treaty'[q].pending # "none"
          /\ treaty'[q].changedAt = now
      BY <1>1, <2>2, <3>2
    <3>6. lastWar'[q] <= now' /\ treaty'[q].changedAt <= now'
      BY <2>1, <3>5 DEF TreatyInv
    <3>7. lastCommit'[q] # Never
             => treaty'[q].changedAt - lastCommit'[q] >= Cooldown
      BY <2>1, <3>3, <3>5
    <3> QED
      BY <3>4, <3>5, <3>6, <3>7 DEF TreatyInv
  <2>3. CASE q # p
    <3>1. offers'[q] = offers[q] /\ treaty'[q] = treaty[q]
      BY <1>0, <1>1, <2>3 DEF DInv, TypeOK, Propose
    <3> QED
      BY <2>1, <3>1 DEF TreatyInv
  <2> QED
    BY <2>2, <2>3
<1>4. ASSUME NEW g \in pacts' PROVE PactInv(g)'
  BY DEF DInv, Propose, PactInv
<1> QED
  BY <1>2, <1>3, <1>4 DEF DInv

\* Acceptance commits the pending stance and clears the offer.
LEMMA AcceptInv ==
    ASSUME DInv, NEW a \in Slots, NEW b \in Slots, a # b, NEW k \in Offered,
           Accept(a, b, k), UNCHANGED now
    PROVE  DInv'
<1> DEFINE p == {a, b}
<1>0. p \in Pairs
  BY PairOf
<1>1. /\ treaty' \in [Pairs -> Treaty]
      /\ \A q \in Pairs \ {p} : treaty'[q] = treaty[q]
      /\ treaty'[p].known /\ treaty'[p].pending = "none"
      /\ treaty'[p].changedAt = now
  <2>1. now \in Nat /\ treaty \in [Pairs -> Treaty] /\ treaty[p] \in Treaty
    BY <1>0, DiplomacyAssumption, SeatsAssumption DEF DInv, TypeOK
  <2>2. treaty' = [treaty EXCEPT ![p] =
            [known |-> TRUE, stance |-> k, pending |-> "none",
             pendingFrom |-> NoSlot, changedAt |-> now,
             by |-> IF a = NoSlot THEN treaty[p].by ELSE a]]
    BY DEF Accept, Upserted
  <2>3. treaty'[p] \in Treaty
    BY <1>0, <2>1, <2>2 DEF Treaty, Stances, Offered
  <2> QED
    BY <1>0, <2>1, <2>2, <2>3
<1>2. TypeOK'
  <2>1. /\ now' \in 0..MaxTime /\ version' \in Nat /\ pacts' \subseteq Pact
        /\ lastWar' \in [Pairs -> 0..MaxTime \cup {Never}]
    BY DEF DInv, TypeOK, Accept
  <2>2. now \in 0..MaxTime \cup {Never}
    BY DEF DInv, TypeOK
  <2>3. /\ lastCommit' \in [Pairs -> 0..MaxTime \cup {Never}]
        /\ offers' \in [Pairs -> SUBSET (Slots \X Offered)]
    BY <2>2 DEF DInv, TypeOK, Accept
  <2> QED
    BY <1>1, <2>1, <2>3 DEF TypeOK
<1>3. ASSUME NEW q \in Pairs PROVE TreatyInv(q)'
  <2>1. TreatyInv(q) /\ now \in Nat /\ now' = now /\ lastWar' = lastWar
    BY DEF DInv, TypeOK, Accept
  <2>2. CASE q = p
    <3>1. lastCommit'[q] = now
      BY <1>0, <2>2 DEF DInv, TypeOK, Accept
    <3> QED
      BY <1>1, <2>1, <2>2, <3>1 DEF TreatyInv
  <2>3. CASE q # p
    <3>1. /\ lastCommit'[q] = lastCommit[q]
          /\ offers'[q] = offers[q] /\ treaty'[q] = treaty[q]
      BY <1>0, <1>1, <2>3 DEF DInv, TypeOK, Accept
    <3> QED
      BY <2>1, <3>1 DEF TreatyInv
  <2> QED
    BY <2>2, <2>3
<1>4. ASSUME NEW g \in pacts' PROVE PactInv(g)'
  BY DEF DInv, Accept, PactInv
<1> QED
  BY <1>2, <1>3, <1>4 DEF DInv

\* A grant is stamped now, and no war of its pair lies in the future.
LEMMA PactCommandsInv ==
    ASSUME DInv, NEW a \in Slots, NEW b \in Slots, a # b, NEW k \in Kinds,
           GrantPact(a, b, k) \/ RevokePact(a, b, k), UNCHANGED now
    PROVE  DInv'
<1>1. TypeOK'
  BY DiplomacyAssumption, SeatsAssumption
  DEF DInv, TypeOK, GrantPact, RevokePact, Pact, history
<1>2. ASSUME NEW q \in Pairs PROVE TreatyInv(q)'
  BY DEF DInv, TreatyInv, GrantPact, RevokePact, history
<1>3. ASSUME NEW g \in pacts' PROVE PactInv(g)'
  <2>1. lastWar' = lastWar /\ now' = now
    BY DEF GrantPact, RevokePact, history
  <2>2. CASE g \in pacts
    BY <2>1, <2>2 DEF DInv, PactInv
  <2>3. CASE g = [from |-> a, to |-> b, kind |-> k, at |-> now]
    <3>1. TreatyInv({a, b}) /\ now \in Nat
      BY PairOf DEF DInv, TypeOK
    <3> QED
      BY <2>1, <2>3, <3>1 DEF PactInv, TreatyInv
  <2> QED
    BY <2>2, <2>3 DEF GrantPact, RevokePact
<1> QED
  BY <1>1, <1>2, <1>3 DEF DInv

\* Every step preserves the invariant.
LEMMA DNextInv == DInv /\ [DNext]_dvars => DInv'
<1> SUFFICES ASSUME DInv, [DNext]_dvars PROVE DInv'
  OBVIOUS
<1>1. CASE AdvanceTime
  BY <1>1, AdvanceTimeInv
<1>2. ASSUME NEW a \in Slots, NEW b \in Slots, Command(a, b) PROVE DInv'
  BY <1>2, DeclareWarInv, ProposeInv, AcceptInv, PactCommandsInv DEF Command
<1>3. CASE UNCHANGED dvars
  BY <1>3 DEF dvars, DInv, TypeOK, TreatyInv, PactInv
<1> QED
  BY <1>1, <1>2, <1>3 DEF DNext

\* The invariant holds in every reachable state.
THEOREM DSpecInv == DSpec => []DInv
BY DInitInv, DNextInv, PTL DEF DSpec

\* Type correctness of the registry.
THEOREM DSpecTypeOK == DSpec => []TypeOK
<1>1. DInv => TypeOK
  BY DEF DInv
<1> QED
  BY <1>1, DSpecInv, PTL

\* No pact in force is older than the last war of its pair (revokeAllBetween).
THEOREM GrantsPostdateWarHolds == DSpec => []GrantsPostdateWar
<1>1. DInv => GrantsPostdateWar
  BY DEF DInv, PactInv, GrantsPostdateWar
<1> QED
  BY <1>1, DSpecInv, PTL

------------------------------------------------------------------------------
\* What the guard of a declaration says of the pair's history.
LEMMA DeclareWarSpacing ==
    ASSUME DInv, NEW a \in Slots, NEW b \in Slots, a # b, DeclareWar(a, b),
           NEW q \in Pairs, treaty'[q].stance # treaty[q].stance
    PROVE  /\ treaty'[q].stance = "war"
           /\ lastCommit[q] # Never => now - lastCommit[q] >= Cooldown
<1> DEFINE p == {a, b}
<1>0. p \in Pairs
  BY PairOf
<1>1. treaty \in [Pairs -> Treaty] /\ now \in Nat
  BY DEF DInv, TypeOK
<1>2. treaty' = [treaty EXCEPT ![p] =
          [known |-> TRUE, stance |-> "war", pending |-> "none",
           pendingFrom |-> NoSlot, changedAt |-> now,
           by |-> IF a = NoSlot THEN treaty[p].by ELSE a]]
  BY DEF DeclareWar, Upserted
<1>3. q = p /\ treaty'[q].stance = "war"
  BY <1>0, <1>1, <1>2
<1>4. treaty[q].stance # "war" /\ ~OnCooldown(q)
  BY <1>3 DEF DeclareWar, Stance
<1>5. TreatyInv(q) /\ treaty[q].changedAt \in Nat /\ lastCommit[q] \in Int
  BY <1>0, DiplomacyAssumption, SeatsAssumption DEF DInv, TypeOK, Treaty, Never
<1>6. treaty[q].known /\ now - treaty[q].changedAt >= Cooldown
  <2>1. treaty[q].known
    BY <1>4, <1>5 DEF TreatyInv, NoTreaty
  <2> QED
    BY <1>1, <1>4, <1>5, <2>1, DiplomacyAssumption, SeatsAssumption DEF OnCooldown
<1>7. lastCommit[q] # Never => lastCommit[q] <= treaty[q].changedAt
  BY <1>5, <1>6, DiplomacyAssumption, SeatsAssumption DEF TreatyInv
<1> QED
  BY <1>1, <1>3, <1>5, <1>6, <1>7, DiplomacyAssumption, SeatsAssumption

\* An acceptance commits what the other side had offered, and comes at least
\* a cooldown after the last commit because the offer already did.
LEMMA AcceptSpacing ==
    ASSUME DInv, NEW a \in Slots, NEW b \in Slots, a # b, NEW k \in Offered,
           Accept(a, b, k),
           NEW q \in Pairs, treaty'[q].stance # treaty[q].stance
    PROVE  /\ \E s \in q \ {treaty'[q].by} : <<s, treaty'[q].stance>> \in offers[q]
           /\ lastCommit[q] # Never => now - lastCommit[q] >= Cooldown
<1> DEFINE p == {a, b}
<1>0. p \in Pairs
  BY PairOf
<1>1. treaty \in [Pairs -> Treaty] /\ now \in Nat
  BY DEF DInv, TypeOK
<1>2. treaty' = [treaty EXCEPT ![p] =
          [known |-> TRUE, stance |-> k, pending |-> "none",
           pendingFrom |-> NoSlot, changedAt |-> now,
           by |-> IF a = NoSlot THEN treaty[p].by ELSE a]]
  BY DEF Accept, Upserted
<1>3. q = p
  BY <1>0, <1>1, <1>2
<1>4. treaty'[q].stance = k /\ treaty'[q].by = IF a = NoSlot THEN treaty[p].by ELSE a
  BY <1>0, <1>1, <1>2, <1>3
<1>5. treaty'[q].by = a
  BY <1>4, SeatsAssumption
<1>6. treaty[q].pending = k /\ treaty[q].pendingFrom = b /\ k # "none"
  BY <1>3 DEF Accept, Offered
<1>7. TreatyInv(q) /\ treaty[q].changedAt \in Nat /\ lastCommit[q] \in Int
  BY <1>0, DiplomacyAssumption, SeatsAssumption DEF DInv, TypeOK, Treaty, Never
<1>8. <<b, k>> \in offers[q]
  BY <1>6, <1>7 DEF TreatyInv
<1>9. lastCommit[q] # Never => now - lastCommit[q] >= Cooldown
  BY <1>1, <1>6, <1>7, DiplomacyAssumption, SeatsAssumption DEF TreatyInv
<1>10. b \in q \ {treaty'[q].by}
  BY <1>3, <1>5
<1> QED
  BY <1>4, <1>8, <1>9, <1>10

\* The other steps leave every stance alone.
LEMMA StanceUnchanged ==
    ASSUME DInv, NEW q \in Pairs,
           \/ AdvanceTime
           \/ UNCHANGED dvars
           \/ \E a, b \in Slots, k \in Kinds : GrantPact(a, b, k) \/ RevokePact(a, b, k)
           \/ \E a, b \in Slots, k \in Offered : a # b /\ Propose(a, b, k)
    PROVE  treaty'[q].stance = treaty[q].stance
<1>1. CASE \E a, b \in Slots, k \in Offered : a # b /\ Propose(a, b, k)
  <2>1. PICK a \in Slots, b \in Slots, k \in Offered : a # b /\ Propose(a, b, k)
    BY <1>1
  <2> DEFINE p == {a, b}
  <2>2. p \in Pairs /\ treaty \in [Pairs -> Treaty]
    BY <2>1, PairOf DEF DInv, TypeOK
  <2>3. treaty' = [treaty EXCEPT ![p] =
            [known |-> TRUE, stance |-> treaty[p].stance, pending |-> k,
             pendingFrom |-> a, changedAt |-> now,
             by |-> IF NoSlot = NoSlot THEN treaty[p].by ELSE NoSlot]]
    BY <2>1 DEF Propose, Upserted
  <2> QED
    BY <2>2, <2>3
<1>2. CASE \/ AdvanceTime
           \/ UNCHANGED dvars
           \/ \E a, b \in Slots, k \in Kinds : GrantPact(a, b, k) \/ RevokePact(a, b, k)
  BY <1>2 DEF AdvanceTime, registry, dvars, GrantPact, RevokePact
<1> QED
  BY <1>1, <1>2

\* Two stance changes of a pair are a cooldown apart: declare_war checks the
\* clock, accept_* relies on the offer having checked it.
THEOREM CooldownHolds == DSpec => CooldownBetweenChanges
<1>1. ASSUME DInv, [DNext]_dvars
      PROVE  [\A p \in Pairs :
                treaty'[p].stance # treaty[p].stance /\ lastCommit[p] # Never
                    => now - lastCommit[p] >= Cooldown]_dvars
  <2>1. ASSUME NEW p \in Pairs, treaty'[p].stance # treaty[p].stance,
               lastCommit[p] # Never
        PROVE  now - lastCommit[p] >= Cooldown
    <3>1. PICK a \in Slots, b \in Slots : Command(a, b)
      BY <1>1, <2>1, StanceUnchanged DEF DNext
    <3>2. CASE DeclareWar(a, b)
      BY <1>1, <2>1, <3>1, <3>2, DeclareWarSpacing DEF Command
    <3>3. ASSUME NEW k \in Offered, Accept(a, b, k)
          PROVE  now - lastCommit[p] >= Cooldown
      BY <1>1, <2>1, <3>1, <3>3, AcceptSpacing DEF Command
    <3> QED
      BY <1>1, <2>1, <3>1, <3>2, <3>3, StanceUnchanged DEF Command
  <2> QED
    BY <2>1
<1> QED
  BY <1>1, DSpecInv, PTL DEF DSpec, CooldownBetweenChanges

\* A pair leaves war, or changes between peace and alliance, only with the
\* consent of both sides since the last change.
THEOREM ConsentHolds == DSpec => PeaceByConsent
<1>1. ASSUME DInv, [DNext]_dvars
      PROVE  [\A p \in Pairs :
                /\ treaty'[p].stance # treaty[p].stance
                /\ treaty'[p].stance # "war"
                => \E s \in p \ {treaty'[p].by} :
                      <<s, treaty'[p].stance>> \in offers[p]]_dvars
  <2>1. ASSUME NEW p \in Pairs, treaty'[p].stance # treaty[p].stance,
               treaty'[p].stance # "war"
        PROVE  \E s \in p \ {treaty'[p].by} :
                  <<s, treaty'[p].stance>> \in offers[p]
    <3>1. PICK a \in Slots, b \in Slots : Command(a, b)
      BY <1>1, <2>1, StanceUnchanged DEF DNext
    <3>2. ~DeclareWar(a, b)
      BY <1>1, <2>1, <3>1, DeclareWarSpacing DEF Command
    <3>3. PICK k \in Offered : Accept(a, b, k)
      BY <1>1, <2>1, <3>1, <3>2, StanceUnchanged DEF Command
    <3> QED
      BY <1>1, <2>1, <3>1, <3>3, AcceptSpacing DEF Command
  <2> QED
    BY <2>1
<1> QED
  BY <1>1, DSpecInv, PTL DEF DSpec, PeaceByConsent

------------------------------------------------------------------------------
\* A coalition holds its slot and is closed under alliance.
LEMMA CoalitionClosed ==
    ASSUME NEW a \in Slots
    PROVE  /\ Coalition(a) \in SUBSET Slots
           /\ a \in Coalition(a)
           /\ ClosedUnderAlliance(Coalition(a))
<1>1. Coalition(a) \in SUBSET Slots /\ a \in Coalition(a)
  BY DEF Coalition
<1>2. ASSUME NEW x \in Coalition(a), NEW y \in Slots, Stance(x, y) = "alliance"
      PROVE  y \in Coalition(a)
  <2>1. ASSUME NEW C \in SUBSET Slots, a \in C, ClosedUnderAlliance(C)
        PROVE  y \in C
    <3>1. x \in C
      BY <1>2, <2>1 DEF Coalition
    <3> QED
      BY <1>2, <2>1, <3>1 DEF ClosedUnderAlliance
  <2> QED
    BY <2>1 DEF Coalition
<1> QED
  BY <1>1, <1>2 DEF ClosedUnderAlliance

\* It is the least such set.
LEMMA CoalitionLeast ==
    ASSUME NEW a \in Slots, NEW C \in SUBSET Slots, a \in C,
           ClosedUnderAlliance(C)
    PROVE  Coalition(a) \subseteq C
BY DEF Coalition

\* Alliance is symmetric, so the coalition of a member is the same coalition.
LEMMA CoalitionSame ==
    ASSUME NEW a \in Slots, NEW b \in Coalition(a)
    PROVE  Coalition(b) = Coalition(a)
<1>0. b \in Slots
  BY DEF Coalition
<1>1. Coalition(b) \subseteq Coalition(a)
  BY <1>0, CoalitionClosed, CoalitionLeast
<1>2. a \in Coalition(b)
  <2> SUFFICES ASSUME a \notin Coalition(b) PROVE FALSE
    OBVIOUS
  <2> DEFINE Rest == Coalition(a) \ Coalition(b)
  <2>1. ASSUME NEW x \in Rest, NEW y \in Slots, Stance(x, y) = "alliance"
        PROVE  y \in Rest
    <3>1. x \in Slots /\ y \in Coalition(a)
      BY <2>1, CoalitionClosed DEF ClosedUnderAlliance
    <3>2. Stance(y, x) = "alliance"
      <4>1. {x, y} = {y, x}
        OBVIOUS
      <4> QED
        BY <2>1, <4>1 DEF Stance
    <3>3. y \in Coalition(b) => x \in Coalition(b)
      BY <1>0, <3>1, <3>2, CoalitionClosed DEF ClosedUnderAlliance
    <3> QED
      BY <2>1, <3>1, <3>3
  <2>2. ClosedUnderAlliance(Rest)
    BY <2>1 DEF ClosedUnderAlliance
  <2>3. a \in Rest /\ Rest \in SUBSET Slots
    BY CoalitionClosed
  <2>4. Coalition(a) \subseteq Rest
    BY <2>2, <2>3, CoalitionLeast
  <2> QED
    BY <1>0, <2>4, CoalitionClosed
<1>3. Coalition(a) \subseteq Coalition(b)
  BY <1>0, <1>2, CoalitionClosed, CoalitionLeast
<1> QED
  BY <1>1, <1>3

\* The identifier is a member: a coalition of numbered slots has a least one.
LEMMA CoalitionIDMember ==
    ASSUME NEW a \in Slots
    PROVE  CoalitionID(a) \in Coalition(a)
<1>1. Coalition(a) \subseteq Nat /\ Coalition(a) # {}
  BY CoalitionClosed, DiplomacyAssumption, SeatsAssumption
<1>2. \E leader \in Coalition(a) : \A t \in Coalition(a) : leader <= t
  BY <1>1, LeastNat
<1> QED
  BY <1>2 DEF CoalitionID

\* registry.go:195-207: the smallest slot names the coalition.
THEOREM CoalitionsPartitionHolds == CoalitionsPartition
<1> SUFFICES ASSUME NEW a \in Slots, NEW b \in Slots
             PROVE  CoalitionID(b) = CoalitionID(a) <=> b \in Coalition(a)
  BY DEF CoalitionsPartition
<1>1. b \in Coalition(a) => CoalitionID(b) = CoalitionID(a)
  BY CoalitionSame DEF CoalitionID
<1>2. ASSUME CoalitionID(b) = CoalitionID(a) PROVE b \in Coalition(a)
  <2>1. CoalitionID(a) \in Coalition(a) /\ CoalitionID(a) \in Coalition(b)
    BY <1>2, CoalitionIDMember
  <2>2. Coalition(a) = Coalition(b)
    BY <2>1, CoalitionSame
  <2> QED
    BY <2>2, CoalitionClosed
<1> QED
  BY <1>1, <1>2

==============================================================================
