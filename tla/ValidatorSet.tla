---------------------------- MODULE ValidatorSet ----------------------------
(***************************************************************************)
(* The validator set manager of src/go/internal/consensus/validators.go.   *)
(*                                                                         *)
(* `validators` is the map vs.validators (address -> *Validator).  Every   *)
(* method that changes it runs under the write lock vs.mutex, so at this   *)
(* level each method is one atomic action; the lock protocol itself is     *)
(* modelled in ValidatorLocks.  A Validator keeps the fields the code      *)
(* decides on: Stake, Power, Jailed, JailedUntil and MissedBlocks.  The    *)
(* timestamps CreatedAt/LastActiveAt, TotalMissed and DelegatedTo are      *)
(* written but never read by any decision and are left out.  Stake is      *)
(* counted in wei-like units: one coin (10^18 in the code) is Unit units,  *)
(* so the integer division in calculatePower keeps its rounding.           *)
(***************************************************************************)
EXTENDS Naturals, FiniteSets

CONSTANTS
  Addr,           \* validator addresses (model values)
  Unit,           \* stake units per coin: big.NewInt(1e18) in calculatePower
  MaxPower,       \* the power clamp maxPower = 1 << 30
  MinStake,       \* vs.minStake
  MaxValidators,  \* vs.maxValidators
  Genesis,        \* genesis validators: address -> initial stake
  Amounts,        \* stake/unstake amounts the callers pass
  SlashPercents,  \* slashPercent arguments of Slash
  JailDurations,  \* jailDuration arguments of Slash, in clock ticks
  MissThreshold,  \* consecutive missed blocks that trigger the slash log (100)
  MaxStake,       \* model bound: no stake grows past it
  MaxTime         \* model bound: the clock stops at it

ASSUME UnitAssumption == Unit \in Nat \ {0}
ASSUME MaxPowerAssumption == MaxPower \in Nat
ASSUME MinStakeAssumption == MinStake \in Nat
ASSUME MaxValidatorsAssumption == MaxValidators \in Nat \ {0}
ASSUME GenesisAssumption ==
  /\ DOMAIN Genesis \subseteq Addr
  /\ \A a \in DOMAIN Genesis : Genesis[a] \in MinStake..MaxStake
  /\ Cardinality(DOMAIN Genesis) <= MaxValidators
ASSUME AmountsAssumption == Amounts \subseteq Nat
ASSUME SlashAssumption == SlashPercents \subseteq 0..100
ASSUME JailAssumption == JailDurations \subseteq Nat
ASSUME MissAssumption == MissThreshold \in Nat \ {0}
ASSUME BoundsAssumption == MaxStake \in Nat /\ MaxTime \in Nat
ASSUME AddrAssumption == IsFiniteSet(Addr)

VARIABLES
  validators,     \* vs.validators: a function from the registered addresses
  now             \* time.Now(), as a tick counter

vars == <<validators, now>>

Validator ==
  [stake: Nat, power: Nat, jailed: BOOLEAN, until: Nat, missed: Nat]

(***************************************************************************)
(* calculatePower: floor(stake / 10^18), clamped to maxPower.              *)
(***************************************************************************)
CalculatePower(stake) ==
  IF stake \div Unit > MaxPower THEN MaxPower ELSE stake \div Unit

(* A fresh Validator literal as RegisterValidator and genesis build it. *)
NewValidator(stake) ==
  [stake |-> stake, power |-> CalculatePower(stake),
   jailed |-> FALSE, until |-> 0, missed |-> 0]

(* vs.validators[a] = v and delete(vs.validators, a). *)
PutVal(vs, a, v) == [x \in DOMAIN vs \cup {a} |-> IF x = a THEN v ELSE vs[x]]
DropVal(vs, a) == [x \in DOMAIN vs \ {a} |-> vs[x]]

(***************************************************************************)
(* findLowestStakeValidator: the first validator of the map iteration with *)
(* the smallest stake.  Go randomises map order, so with ties any of the   *)
(* minimal ones can come out.                                              *)
(***************************************************************************)
LowestStake(vs) ==
  {a \in DOMAIN vs : \A b \in DOMAIN vs : vs[a].stake <= vs[b].stake}

(***************************************************************************)
(* GetActiveValidators / the filter of ToCometBFTValidators and            *)
(* RotateValidators: not jailed and stake >= minStake.                     *)
(***************************************************************************)
IsActive(v) == ~v.jailed /\ v.stake >= MinStake
ActiveValidators(vs) == {a \in DOMAIN vs : IsActive(vs[a])}

(***************************************************************************)
(* InitializeGenesisValidators over the empty map NewValidatorSet makes:   *)
(* the state InitChain leaves on a fresh node.                             *)
(***************************************************************************)
InitializeGenesisValidators(vs, gen) ==
  [x \in DOMAIN vs \cup DOMAIN gen |->
     IF x \in DOMAIN gen THEN NewValidator(gen[x]) ELSE vs[x]]

Init ==
  /\ validators = InitializeGenesisValidators(<<>>, Genesis)
  /\ now = 0

-----------------------------------------------------------------------------
(* RegisterValidator with the capacity test off by one (> for >=). *)
RegisterValidatorOffByOne(a, s) ==
  /\ a \notin DOMAIN validators
  /\ s >= MinStake
  /\ IF Cardinality(DOMAIN validators) > MaxValidators
       THEN \E low \in LowestStake(validators) :
              /\ s > validators[low].stake
              /\ validators' = PutVal(DropVal(validators, low), a, NewValidator(s))
       ELSE validators' = PutVal(validators, a, NewValidator(s))
  /\ UNCHANGED now

(***************************************************************************)
(* RegisterValidator(address, pubKey, initialStake).                       *)
(***************************************************************************)
RegisterValidator(a, s) ==
  /\ a \notin DOMAIN validators
  /\ s >= MinStake
  /\ IF Cardinality(DOMAIN validators) >= MaxValidators
       THEN \E low \in LowestStake(validators) :
              /\ s > validators[low].stake
              /\ validators' = PutVal(DropVal(validators, low), a, NewValidator(s))
       ELSE validators' = PutVal(validators, a, NewValidator(s))
  /\ UNCHANGED now

(* Stake that forgets to recompute Power. *)
StakeKeepingPower(a, amt) ==
  /\ a \in DOMAIN validators
  /\ ~validators[a].jailed
  /\ validators[a].stake + amt <= MaxStake
  /\ validators' = [validators EXCEPT ![a].stake = @ + amt]
  /\ UNCHANGED now

(* Stake(address, amount): refused for a jailed validator. *)
Stake(a, amt) ==
  /\ a \in DOMAIN validators
  /\ ~validators[a].jailed
  /\ validators[a].stake + amt <= MaxStake
  /\ LET st == validators[a].stake + amt
     IN  validators' = [validators EXCEPT ![a].stake = st,
                                          ![a].power = CalculatePower(st)]
  /\ UNCHANGED now

(***************************************************************************)
(* Unstake(address, amount): refused for a jailed validator and when the   *)
(* new stake would fall below minStake; the removal that follows the       *)
(* update is kept as the code writes it.                                   *)
(***************************************************************************)
Unstake(a, amt) ==
  /\ a \in DOMAIN validators
  /\ ~validators[a].jailed
  /\ validators[a].stake - amt >= MinStake
  /\ LET st == validators[a].stake - amt
     IN  validators' =
           IF st < MinStake
             THEN DropVal(validators, a)
             ELSE [validators EXCEPT ![a].stake = st,
                                     ![a].power = CalculatePower(st)]
  /\ UNCHANGED now

(* Slash without the removal of a validator left below minStake. *)
SlashKeepingMember(a, pct, dur) ==
  /\ a \in DOMAIN validators
  /\ LET st == validators[a].stake - (validators[a].stake * pct) \div 100
     IN  validators' = [validators EXCEPT ![a].stake = st,
                                          ![a].power = CalculatePower(st),
                                          ![a].jailed = TRUE,
                                          ![a].until = now + dur]
  /\ UNCHANGED now

(* Slash with the jail term added with the wrong sign. *)
SlashUntilPast(a, pct, dur) ==
  /\ a \in DOMAIN validators
  /\ LET st == validators[a].stake - (validators[a].stake * pct) \div 100
     IN  validators' =
           IF st < MinStake
             THEN DropVal(validators, a)
             ELSE [validators EXCEPT ![a].stake = st,
                                     ![a].power = CalculatePower(st),
                                     ![a].jailed = TRUE,
                                     ![a].until = now - dur]
  /\ UNCHANGED now

(***************************************************************************)
(* Slash(address, slashPercent, jailDuration): stake -= stake*pct/100,     *)
(* power recomputed, jailed until now+duration, removed if the stake fell  *)
(* below minStake.  A jailed validator can be slashed again.               *)
(***************************************************************************)
Slash(a, pct, dur) ==
  /\ a \in DOMAIN validators
  /\ LET st == validators[a].stake - (validators[a].stake * pct) \div 100
     IN  validators' =
           IF st < MinStake
             THEN DropVal(validators, a)
             ELSE [validators EXCEPT ![a].stake = st,
                                     ![a].power = CalculatePower(st),
                                     ![a].jailed = TRUE,
                                     ![a].until = now + dur]
  /\ UNCHANGED now

(* Unjail(address): only a jailed validator whose term is over. *)
Unjail(a) ==
  /\ a \in DOMAIN validators
  /\ validators[a].jailed
  /\ ~(now < validators[a].until)
  /\ validators' = [validators EXCEPT ![a].jailed = FALSE,
                                      ![a].until = 0,
                                      ![a].missed = 0]
  /\ UNCHANGED now

(***************************************************************************)
(* UpdateValidatorActivity(address, missedBlock): counts consecutive       *)
(* misses; at the threshold the code only logs a pending slash and resets  *)
(* the counter.                                                            *)
(***************************************************************************)
UpdateValidatorActivity(a, missedBlock) ==
  /\ a \in DOMAIN validators
  /\ LET m == validators[a].missed + 1
     IN  validators' =
           [validators EXCEPT ![a].missed =
              IF ~missedBlock \/ m >= MissThreshold THEN 0 ELSE m]
  /\ UNCHANGED now

(* The wall clock advancing, up to the model bound. *)
Tick ==
  /\ now < MaxTime
  /\ now' = now + 1
  /\ UNCHANGED validators

Next ==
  \/ \E a \in Addr, s \in Amounts : RegisterValidator(a, s)
  \/ \E a \in Addr, s \in Amounts : Stake(a, s)
  \/ \E a \in Addr, s \in Amounts : Unstake(a, s)
  \/ \E a \in Addr, p \in SlashPercents, d \in JailDurations : Slash(a, p, d)
  \/ \E a \in Addr : Unjail(a)
  \/ \E a \in Addr, m \in BOOLEAN : UpdateValidatorActivity(a, m)
  \/ Tick

Spec == Init /\ [][Next]_vars

-----------------------------------------------------------------------------
(* Every registered validator is a well-formed record. *)
TypeOK ==
  /\ DOMAIN validators \subseteq Addr
  /\ validators \in [DOMAIN validators -> Validator]
  /\ now \in Nat

(***************************************************************************)
(* Stake floor: no validator stays in the set with a stake below minStake  *)
(* (spec 4.D/8: unstake refuses it, slash removes it in the same           *)
(* operation, registration refuses it).                                    *)
(***************************************************************************)
MemberStakeFloor ==
  \A a \in DOMAIN validators : validators[a].stake >= MinStake

(***************************************************************************)
(* Capacity: registration never grows the set past maxValidators; when the *)
(* set is full it evicts the lowest-stake member (RegisterValidator).      *)
(***************************************************************************)
SetWithinCapacity ==
  Cardinality(DOMAIN validators) <= MaxValidators

(***************************************************************************)
(* Power derivation: every member's Power is calculatePower of its Stake   *)
(* after every Stake, Unstake and Slash (spec 3: power == clamp(stake /    *)
(* 10^18, 0, 2^30)).                                                       *)
(***************************************************************************)
PowerMatchesStake ==
  \A a \in DOMAIN validators :
    validators[a].power = CalculatePower(validators[a].stake)
=============================================================================
