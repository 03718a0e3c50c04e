------------------------- MODULE ValidatorSetProofs -------------------------
(***************************************************************************)
(* Proofs that the invariants MC_ValidatorSet checks hold for every value  *)
(* of the constants.  The invariant Inv (types, stake floor, power         *)
(* derivation, capacity) is inductive as it stands: every method of        *)
(* ValidatorSet preserves each conjunct given the others.                  *)
(***************************************************************************)
EXTENDS ValidatorSet, FiniteSetTheorems, TLAPS

Inv == TypeOK /\ MemberStakeFloor /\ PowerMatchesStake /\ SetWithinCapacity

-----------------------------------------------------------------------------
(* calculatePower returns a natural number. *)
LEMMA PowerNat ==
  ASSUME NEW s \in Nat
  PROVE  CalculatePower(s) \in Nat
<1>1. s \div Unit \in Nat
  BY UnitAssumption
<1>. QED
  BY <1>1, MaxPowerAssumption DEF CalculatePower

(* A fresh validator record is well formed and has the derived power. *)
LEMMA NewValidatorType ==
  ASSUME NEW s \in Nat
  PROVE  /\ NewValidator(s) \in Validator
         /\ NewValidator(s).stake = s
         /\ NewValidator(s).power = CalculatePower(s)
BY PowerNat DEF NewValidator, Validator

(* The domain of the map is a finite set. *)
LEMMA DomainFinite ==
  ASSUME TypeOK
  PROVE  IsFiniteSet(DOMAIN validators)
BY AddrAssumption, FS_Subset DEF TypeOK
(* A stake s >= minStake gives a fresh record every conjunct of Inv asks of a member. *)
LEMMA NewValidatorGood ==
  ASSUME NEW s \in Nat, s >= MinStake
  PROVE  LET v == NewValidator(s)
         IN  v \in Validator /\ v.stake >= MinStake /\ v.power = CalculatePower(v.stake)
BY NewValidatorType

-----------------------------------------------------------------------------
(***************************************************************************)
(* RegisterValidator keeps Inv: the new record passes the minStake guard,  *)
(* and a full set loses its lowest member before it gains the new one.     *)
(***************************************************************************)
LEMMA RegisterInv ==
  ASSUME Inv, NEW a \in Addr, NEW s \in Amounts, RegisterValidator(a, s)
  PROVE  Inv'
<1> DEFINE D == DOMAIN validators
           v == NewValidator(s)
<1>1. /\ validators \in [D -> Validator]
      /\ D \subseteq Addr
      /\ IsFiniteSet(D)
      /\ Cardinality(D) \in Nat
      /\ a \notin D
      /\ s \in Nat /\ s >= MinStake
      /\ now' = now /\ now \in Nat
  BY DomainFinite, FS_CardinalityType, AmountsAssumption
     DEF Inv, TypeOK, RegisterValidator
<1>2. v \in Validator /\ v.stake >= MinStake /\ v.power = CalculatePower(v.stake)
  BY <1>1, NewValidatorGood
<1>3. CASE Cardinality(D) >= MaxValidators
  <2>1. PICK low \in LowestStake(validators) :
               validators' = PutVal(DropVal(validators, low), a, v)
    BY <1>3 DEF RegisterValidator
  <2>2. low \in D
    BY DEF LowestStake
  <2>3. DEFINE E == (D \ {low}) \cup {a}
  <2>4. /\ DropVal(validators, low) \in [D \ {low} -> Validator]
        /\ \A x \in D \ {low} : DropVal(validators, low)[x] = validators[x]
    BY <1>1 DEF DropVal
  <2>5. /\ validators' \in [E -> Validator]
        /\ validators'[a] = v
        /\ \A x \in D \ {low, a} : validators'[x] = validators[x]
    <3>1. /\ PutVal(DropVal(validators, low), a, v) \in [E -> Validator]
          /\ PutVal(DropVal(validators, low), a, v)[a] = v
          /\ \A x \in (D \ {low}) \ {a} :
               PutVal(DropVal(validators, low), a, v)[x] = DropVal(validators, low)[x]
      BY <2>4, <1>2 DEF PutVal
    <3>. QED  BY <2>1, <2>4, <3>1
  <2>6. Cardinality(E) = Cardinality(D)
    <3>1. IsFiniteSet(D \ {low}) /\ Cardinality(D \ {low}) = Cardinality(D) - 1
      BY <1>1, <2>2, FS_RemoveElement
    <3>2. Cardinality(E) = Cardinality(D \ {low}) + 1
      BY <3>1, <1>1, FS_AddElement
    <3>. QED  BY <3>1, <3>2, <1>1
  <2>7. TypeOK'
    BY <2>5, <1>1, <2>2 DEF TypeOK
  <2>8. MemberStakeFloor' /\ PowerMatchesStake'
    BY <2>5, <1>2, <1>1 DEF Inv, MemberStakeFloor, PowerMatchesStake
  <2>9. SetWithinCapacity'
    BY <2>5, <2>6, <1>1 DEF Inv, SetWithinCapacity
  <2>. QED  BY <2>7, <2>8, <2>9 DEF Inv
<1>4. CASE ~(Cardinality(D) >= MaxValidators)
  <2>1. validators' = PutVal(validators, a, v)
    BY <1>4 DEF RegisterValidator
  <2>2. /\ validators' \in [D \cup {a} -> Validator]
        /\ validators'[a] = v
        /\ \A x \in D \ {a} : validators'[x] = validators[x]
    <3>1. /\ PutVal(validators, a, v) \in [D \cup {a} -> Validator]
          /\ PutVal(validators, a, v)[a] = v
          /\ \A x \in D \ {a} : PutVal(validators, a, v)[x] = validators[x]
      BY <1>1, <1>2 DEF PutVal
    <3>. QED  BY <2>1, <3>1
  <2>3. Cardinality(D \cup {a}) = Cardinality(D) + 1
    BY <1>1, FS_AddElement
  <2>4. TypeOK'
    BY <2>2, <1>1 DEF TypeOK
  <2>5. MemberStakeFloor' /\ PowerMatchesStake'
    BY <2>2, <1>2, <1>1 DEF Inv, MemberStakeFloor, PowerMatchesStake
  <2>6. SetWithinCapacity'
    BY <2>2, <2>3, <1>1, <1>4, MaxValidatorsAssumption DEF SetWithinCapacity
  <2>. QED  BY <2>4, <2>5, <2>6 DEF Inv
<1>. QED  BY <1>3, <1>4
(* The amount Slash takes, stake * pct / 100 with pct <= 100, is at most the stake. *)
LEMMA SlashAmountBound ==
  ASSUME NEW st \in Nat, NEW pct \in 0..100
  PROVE  (st * pct) \div 100 \in 0..st
<1>1. st * pct \in 0..(st * 100)
  BY SMT
<1>. QED  BY <1>1, SMT

-----------------------------------------------------------------------------
(***************************************************************************)
(* An update of one member's record that keeps its stake at or above      *)
(* minStake and its power derived keeps Inv: the domain does not change.   *)
(***************************************************************************)
LEMMA UpdateMemberInv ==
  ASSUME Inv, NEW a \in DOMAIN validators, NEW r \in Validator,
         r.stake >= MinStake, r.power = CalculatePower(r.stake),
         validators' = [validators EXCEPT ![a] = r], now' \in Nat
  PROVE  Inv'
<1>1. validators' \in [DOMAIN validators -> Validator]
  BY DEF Inv, TypeOK
<1>. QED  BY <1>1 DEF Inv, TypeOK, MemberStakeFloor, PowerMatchesStake, SetWithinCapacity

(* Removing a member keeps Inv: the set only shrinks. *)
LEMMA DropMemberInv ==
  ASSUME Inv, NEW a \in DOMAIN validators,
         validators' = DropVal(validators, a), now' \in Nat
  PROVE  Inv'
<1> DEFINE D == DOMAIN validators
<1>1. /\ validators \in [D -> Validator]
      /\ IsFiniteSet(D)
  BY DomainFinite DEF Inv, TypeOK
<1>2. /\ DropVal(validators, a) \in [D \ {a} -> Validator]
      /\ \A x \in D \ {a} : DropVal(validators, a)[x] = validators[x]
  BY <1>1 DEF DropVal
<1>3. /\ validators' \in [D \ {a} -> Validator]
      /\ DOMAIN validators' = D \ {a}
      /\ \A x \in D \ {a} : validators'[x] = validators[x]
  BY <1>2
<1>4. /\ Cardinality(D \ {a}) <= Cardinality(D)
      /\ Cardinality(D \ {a}) \in Nat /\ Cardinality(D) \in Nat
  BY <1>1, FS_Subset, FS_RemoveElement, FS_CardinalityType
<1>5. TypeOK'
  BY <1>3 DEF Inv, TypeOK
<1>6. MemberStakeFloor' /\ PowerMatchesStake'
  BY <1>3 DEF Inv, MemberStakeFloor, PowerMatchesStake
<1>7. SetWithinCapacity'
  <2>1. Cardinality(DOMAIN validators') = Cardinality(D \ {a})
    BY <1>3
  <2>2. Cardinality(D) <= MaxValidators
    BY DEF Inv, SetWithinCapacity, D
  <2>. QED  BY <1>4, <2>1, <2>2, MaxValidatorsAssumption DEF SetWithinCapacity
<1>. QED  BY <1>5, <1>6, <1>7 DEF Inv

(* Stake keeps Inv: the stake only grows and the power is recomputed. *)
LEMMA StakeInv ==
  ASSUME Inv, NEW a \in Addr, NEW amt \in Amounts, Stake(a, amt)
  PROVE  Inv'
<1> DEFINE st == validators[a].stake + amt
           r == [validators[a] EXCEPT !.stake = st, !.power = CalculatePower(st)]
<1>1. a \in DOMAIN validators /\ validators[a] \in Validator /\ amt \in Nat
  BY AmountsAssumption DEF Stake, Inv, TypeOK
<1>2. st \in Nat /\ st >= MinStake
  <2>1. validators[a].stake \in Nat /\ validators[a].stake >= MinStake
    BY <1>1 DEF Inv, MemberStakeFloor, Validator
  <2>. QED  BY <1>1, <2>1, MinStakeAssumption
<1>3. r \in Validator /\ r.stake = st /\ r.power = CalculatePower(st)
  BY <1>1, <1>2, PowerNat DEF Validator
<1>4. validators' = [validators EXCEPT ![a] = r] /\ now' = now /\ now \in Nat
  BY <1>1 DEF Stake, Inv, TypeOK
<1>. QED  BY <1>1, <1>2, <1>3, <1>4, UpdateMemberInv

(* Unstake keeps Inv: its guard refuses a stake below minStake. *)
LEMMA UnstakeInv ==
  ASSUME Inv, NEW a \in Addr, NEW amt \in Amounts, Unstake(a, amt)
  PROVE  Inv'
<1> DEFINE st == validators[a].stake - amt
           r == [validators[a] EXCEPT !.stake = st, !.power = CalculatePower(st)]
<1>1. a \in DOMAIN validators /\ validators[a] \in Validator /\ amt \in Nat
  BY AmountsAssumption DEF Unstake, Inv, TypeOK
<1>2. st \in Nat /\ st >= MinStake
  <2>1. validators[a].stake \in Nat /\ validators[a].stake - amt >= MinStake
    BY <1>1 DEF Unstake, Validator
  <2>. QED  BY <1>1, <2>1, MinStakeAssumption
<1>3. r \in Validator /\ r.stake = st /\ r.power = CalculatePower(st)
  BY <1>1, <1>2, PowerNat DEF Validator
<1>4. validators' = [validators EXCEPT ![a] = r] /\ now' = now /\ now \in Nat
  <2>1. ~(st < MinStake)
    BY <1>2, MinStakeAssumption
  <2>. QED  BY <1>1, <2>1 DEF Unstake, Inv, TypeOK
<1>. QED  BY <1>1, <1>2, <1>3, <1>4, UpdateMemberInv
(***************************************************************************)
(* Slash keeps Inv: the reduced stake stays a natural number, and a stake  *)
(* that fell below minStake takes its validator out in the same step.      *)
(***************************************************************************)
LEMMA SlashInv ==
  ASSUME Inv, NEW a \in Addr, NEW pct \in SlashPercents, NEW dur \in JailDurations,
         Slash(a, pct, dur)
  PROVE  Inv'
<1> DEFINE st == validators[a].stake - (validators[a].stake * pct) \div 100
           r == [validators[a] EXCEPT !.stake = st, !.power = CalculatePower(st),
                                      !.jailed = TRUE, !.until = now + dur]
<1>1. /\ a \in DOMAIN validators /\ validators[a] \in Validator
      /\ pct \in 0..100 /\ dur \in Nat /\ now \in Nat /\ now' = now
  BY SlashAssumption, JailAssumption DEF Slash, Inv, TypeOK
<1>2. st \in Nat
  <2>1. validators[a].stake \in Nat
    BY <1>1 DEF Validator
  <2>2. (validators[a].stake * pct) \div 100 \in 0..validators[a].stake
    BY <1>1, <2>1, SlashAmountBound
  <2>. QED  BY <2>1, <2>2
<1>3. CASE st < MinStake
  <2>1. validators' = DropVal(validators, a)
    BY <1>3 DEF Slash
  <2>. QED  BY <1>1, <2>1, DropMemberInv
<1>4. CASE ~(st < MinStake)
  <2>1. validators' = [validators EXCEPT ![a] = r]
    BY <1>1, <1>4 DEF Slash
  <2>2. r \in Validator /\ r.stake >= MinStake /\ r.power = CalculatePower(r.stake)
    <3>1. CalculatePower(st) \in Nat /\ now + dur \in Nat
      BY <1>1, <1>2, PowerNat
    <3>2. r \in Validator /\ r.stake = st /\ r.power = CalculatePower(st)
      BY <1>1, <1>2, <3>1 DEF Validator
    <3>3. st >= MinStake
      BY <1>2, <1>4, MinStakeAssumption
    <3>. QED  BY <3>2, <3>3
  <2>. QED  BY <1>1, <2>1, <2>2, UpdateMemberInv
<1>. QED  BY <1>3, <1>4

(* Unjail keeps Inv: it touches only the jail fields and the miss counter. *)
LEMMA UnjailInv ==
  ASSUME Inv, NEW a \in Addr, Unjail(a)
  PROVE  Inv'
<1> DEFINE r == [validators[a] EXCEPT !.jailed = FALSE, !.until = 0, !.missed = 0]
<1>1. a \in DOMAIN validators /\ validators[a] \in Validator /\ now' = now /\ now \in Nat
  BY DEF Unjail, Inv, TypeOK
<1>2. validators' = [validators EXCEPT ![a] = r]
  BY <1>1 DEF Unjail
<1>3. r \in Validator /\ r.stake >= MinStake /\ r.power = CalculatePower(r.stake)
  BY <1>1 DEF Validator, Inv, MemberStakeFloor, PowerMatchesStake
<1>. QED  BY <1>1, <1>2, <1>3, UpdateMemberInv

(* UpdateValidatorActivity keeps Inv: it touches only the miss counter. *)
LEMMA UpdateValidatorActivityInv ==
  ASSUME Inv, NEW a \in Addr, NEW missedBlock \in BOOLEAN,
         UpdateValidatorActivity(a, missedBlock)
  PROVE  Inv'
<1> DEFINE m == validators[a].missed + 1
           r == [validators[a] EXCEPT !.missed =
                   IF ~missedBlock \/ m >= MissThreshold THEN 0 ELSE m]
<1>1. a \in DOMAIN validators /\ validators[a] \in Validator /\ now' = now /\ now \in Nat
  BY DEF UpdateValidatorActivity, Inv, TypeOK
<1>2. validators' = [validators EXCEPT ![a] = r]
  BY <1>1 DEF UpdateValidatorActivity
<1>3. r \in Validator /\ r.stake >= MinStake /\ r.power = CalculatePower(r.stake)
  BY <1>1 DEF Validator, Inv, MemberStakeFloor, PowerMatchesStake
<1>. QED  BY <1>1, <1>2, <1>3, UpdateMemberInv

(* The clock moving on leaves the map alone. *)
LEMMA TickInv ==
  ASSUME Inv, Tick
  PROVE  Inv'
BY DEF Tick, Inv, TypeOK, MemberStakeFloor, PowerMatchesStake, SetWithinCapacity

-----------------------------------------------------------------------------
(***************************************************************************)
(* The genesis map InitChain builds satisfies Inv: every genesis stake is  *)
(* at least minStake and there are at most maxValidators of them.          *)
(***************************************************************************)
LEMMA InitInv == Init => Inv
<1> SUFFICES ASSUME Init PROVE Inv
  OBVIOUS
<1> DEFINE G == DOMAIN Genesis
<1>1. validators = [x \in G |-> NewValidator(Genesis[x])] /\ now = 0
  BY DEF Init, InitializeGenesisValidators
<1>2. \A x \in G : Genesis[x] \in Nat /\ Genesis[x] >= MinStake
  BY GenesisAssumption, MinStakeAssumption, BoundsAssumption
<1>3. \A x \in G : /\ NewValidator(Genesis[x]) \in Validator
                   /\ NewValidator(Genesis[x]).stake >= MinStake
                   /\ NewValidator(Genesis[x]).power =
                        CalculatePower(NewValidator(Genesis[x]).stake)
  BY <1>2, NewValidatorType
<1>4. TypeOK
  BY <1>1, <1>3, GenesisAssumption DEF TypeOK
<1>5. MemberStakeFloor /\ PowerMatchesStake
  BY <1>1, <1>3 DEF MemberStakeFloor, PowerMatchesStake
<1>6. SetWithinCapacity
  BY <1>1, GenesisAssumption DEF SetWithinCapacity
<1>. QED  BY <1>4, <1>5, <1>6 DEF Inv

(* Every step of Next, and a stuttering step, keeps Inv. *)
LEMMA NextInv == Inv /\ [Next]_vars => Inv'
<1> SUFFICES ASSUME Inv, [Next]_vars PROVE Inv'
  OBVIOUS
<1>1. CASE \E a \in Addr, s \in Amounts : RegisterValidator(a, s)
  BY <1>1, RegisterInv
<1>2. CASE \E a \in Addr, s \in Amounts : Stake(a, s)
  BY <1>2, StakeInv
<1>3. CASE \E a \in Addr, s \in Amounts : Unstake(a, s)
  BY <1>3, UnstakeInv
<1>4. CASE \E a \in Addr, p \in SlashPercents, d \in JailDurations : Slash(a, p, d)
  BY <1>4, SlashInv
<1>5. CASE \E a \in Addr : Unjail(a)
  BY <1>5, UnjailInv
<1>6. CASE \E a \in Addr, m \in BOOLEAN : UpdateValidatorActivity(a, m)
  BY <1>6, UpdateValidatorActivityInv
<1>7. CASE Tick
  BY <1>7, TickInv
<1>8. CASE UNCHANGED vars
  BY <1>8 DEF vars, Inv, TypeOK, MemberStakeFloor, PowerMatchesStake, SetWithinCapacity
<1>. QED  BY <1>1, <1>2, <1>3, <1>4, <1>5, <1>6, <1>7, <1>8 DEF Next

(***************************************************************************)
(* The invariants TLC checks in MC_ValidatorSet hold in every reachable    *)
(* state for all constants: types, the minStake floor (Unstake's guard and *)
(* Slash's removal), the power derivation after every stake change, and    *)
(* the maxValidators capacity kept by RegisterValidator's eviction.        *)
(***************************************************************************)
THEOREM InvariantsHold == Spec => []Inv
BY InitInv, NextInv, PTL DEF Spec

(* The set never holds more than maxValidators validators. *)
THEOREM CapacityHolds == Spec => []SetWithinCapacity
BY InvariantsHold, PTL DEF Inv

(* No member's stake is ever below minStake. *)
THEOREM StakeFloorHolds == Spec => []MemberStakeFloor
BY InvariantsHold, PTL DEF Inv

(* Every member's power is calculatePower of its stake. *)
THEOREM PowerDerived == Spec => []PowerMatchesStake
BY InvariantsHold, PTL DEF Inv

(* Every reachable state is well typed. *)
THEOREM TypeCorrect == Spec => []TypeOK
BY InvariantsHold, PTL DEF Inv
=============================================================================
