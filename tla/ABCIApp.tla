------------------------------ MODULE ABCIApp ------------------------------
(***************************************************************************)
(* The ABCI application of src/go/internal/consensus/abci_app.go as        *)
(* CometBFT drives it: FinalizeBlock then Commit for each height, the      *)
(* validator-set rotation at heights that are multiples of 100.  No code   *)
(* of the node calls ValidatorSet's write methods (RegisterValidator,      *)
(* Stake, Unstake, Slash, Unjail, UpdateValidatorActivity; only tests do,  *)
(* and they block on vs.mutex, see ValidatorLocks), so between blocks the  *)
(* set only changes through the rotation itself.                           *)
(*                                                                         *)
(* A transaction is a record [from, nonce, form]: `form` is how far it     *)
(* gets through FinalizeBlock (JSON decoding, validateTransaction, the     *)
(* parsing of Value/GasPrice in ExecuteTransaction).  The EVM is           *)
(* abstracted to what decides the outcome and the sender's nonce:          *)
(* core.ApplyMessage rejects a message whose nonce is not the account      *)
(* nonce or whose sender cannot pay (no state change), and otherwise       *)
(* increments the nonce and either succeeds or reverts.                    *)
(***************************************************************************)
EXTENDS Naturals, Sequences, FiniteSets

CONSTANTS
  Addr, Unit, MaxPower, MinStake, MaxValidators, Genesis, Amounts,
  SlashPercents, JailDurations, MissThreshold, MaxStake, MaxTime,
  Senders,          \* transaction senders
  MaxNonce,         \* model bound on transaction nonces
  Forms,            \* the forms of transactions proposers put in blocks
  MaxBlockTxs,      \* model bound on the transactions of one block
  RotationPeriod,   \* the 100 of req.Height%100 == 0
  MaxHeight         \* model bound on the height

(* Nonces are naturals (uint64 in the EVM). *)
ASSUME NonceAssumption == MaxNonce \in Nat

VARIABLES
  validators, now,  \* the ValidatorSet (see ValidatorSet)
  engine,           \* CometBFT's validator set: address -> voting power
  pending,          \* validatorUpdates returned by the last FinalizeBlock
  height,           \* app.state.Height
  phase,            \* "Idle" after Commit, "Finalized" after FinalizeBlock
  nonce,            \* the EVM account nonce of each sender (live StateDB)
  blockTxs,         \* app.currentBlockTxs
  chain             \* storage blocks: height -> transactions of the block

VS == INSTANCE ValidatorSet

vars == <<validators, now, engine, pending, height, phase, nonce, blockTxs, chain>>

Tx == [from: Senders, nonce: 0..MaxNonce, form: Forms]

(* What core.ApplyMessage does with a well-formed message. *)
Outcomes == {"Unfunded", "Reverted", "Succeeded"}

(* Mutant: a nonce check that only rejects stale nonces, as CheckTx does. *)
ExecTxAcceptingFutureNonce(st, tx, out) ==
  IF tx.form # "Wellformed" \/ tx.nonce < st.nonce[tx.from] \/ out = "Unfunded"
    THEN st
    ELSE [nonce |-> [st.nonce EXCEPT ![tx.from] = @ + 1],
          block |-> IF out = "Succeeded" THEN Append(st.block, tx) ELSE st.block]

(***************************************************************************)
(* One iteration of FinalizeBlock's loop over req.Txs on the state         *)
(* [nonce, block].  Decoding failures (code 1), validateTransaction        *)
(* failures (code 2) and unparsable Value/GasPrice (code 3) change         *)
(* nothing.  ApplyMessage's precheck error becomes Success=false (code 4)  *)
(* with no state change; a revert (code 4) and a success both increment    *)
(* the nonce, and only a success is appended to currentBlockTxs.           *)
(***************************************************************************)
ExecTx(st, tx, out) ==
  IF tx.form # "Wellformed" \/ tx.nonce # st.nonce[tx.from] \/ out = "Unfunded"
    THEN st
    ELSE [nonce |-> [st.nonce EXCEPT ![tx.from] = @ + 1],
          block |-> IF out = "Succeeded" THEN Append(st.block, tx) ELSE st.block]

(* Mutant: the block list not reset at the start of FinalizeBlock. *)
ExecTxsKeepingBlock(n0, txs, outs) ==
  LET f[i \in 0..Len(txs)] ==
        IF i = 0 THEN [nonce |-> n0, block |-> blockTxs]
                 ELSE ExecTx(f[i - 1], txs[i], outs[i])
  IN  f[Len(txs)]

(* The loop over req.Txs, from empty block lists (lines 215-216). *)
ExecTxs(n0, txs, outs) ==
  LET f[i \in 0..Len(txs)] ==
        IF i = 0 THEN [nonce |-> n0, block |-> <<>>]
                 ELSE ExecTx(f[i - 1], txs[i], outs[i])
  IN  f[Len(txs)]

(***************************************************************************)
(* ToCometBFTValidators: every active validator with its stored Power.     *)
(***************************************************************************)
ToCometBFTValidators(vs) ==
  [a \in VS!ActiveValidators(vs) |-> vs[a].power]

(***************************************************************************)
(* RotateValidators: the active validators, cut to maxValidators by an     *)
(* unstable sort on stake when there are more, with the Power it has just  *)
(* recomputed.  Any set of the right size that no left-out validator       *)
(* out-stakes is a possible cut.                                           *)
(***************************************************************************)
RotateValidators(vs) ==
  LET act == VS!ActiveValidators(vs)
      k == IF Cardinality(act) > MaxValidators THEN MaxValidators ELSE Cardinality(act)
  IN { [a \in T |-> VS!CalculatePower(vs[a].stake)] :
         T \in { T \in SUBSET act :
                   /\ Cardinality(T) = k
                   /\ \A x \in T, y \in act \ T : vs[x].stake >= vs[y].stake } }

(* hasValidatorChanges: a different count, a new key or a changed power. *)
HasValidatorChanges(current, updates) == current # updates

(* Powers recomputed by RotateValidators under its lock (lines 502-504). *)
Repowered(vs) == [a \in DOMAIN vs |-> [vs[a] EXCEPT !.power = VS!CalculatePower(vs[a].stake)]]

NoUpdates == [a \in {} |-> 0]

(***************************************************************************)
(* How CometBFT applies a validator update list: power 0 removes the key,  *)
(* any other power sets it.                                                *)
(***************************************************************************)
ApplyUpdates(set, upd) ==
  LET keys == (DOMAIN set \cup DOMAIN upd) \ {k \in DOMAIN upd : upd[k] = 0}
  IN  [k \in keys |-> IF k \in DOMAIN upd THEN upd[k] ELSE set[k]]

Init ==
  /\ VS!Init
  /\ engine = [a \in DOMAIN Genesis |-> VS!CalculatePower(Genesis[a])]
  /\ pending = NoUpdates
  /\ height = 0
  /\ phase = "Idle"
  /\ nonce = [s \in Senders |-> 0]
  /\ blockTxs = <<>>
  /\ chain = <<>>

-----------------------------------------------------------------------------
(***************************************************************************)
(* FinalizeBlock(req) for the next height: the transaction loop, then at   *)
(* a multiple of RotationPeriod the rotation: skipped when the current set *)
(* has at most one validator, otherwise the rotated list is returned only  *)
(* if it is non-empty and differs from the current set.                    *)
(***************************************************************************)
FinalizeBlock(txs, outs) ==
  /\ phase = "Idle"
  /\ height < MaxHeight
  /\ LET h == height + 1
         res == ExecTxs(nonce, txs, outs)
         current == ToCometBFTValidators(validators)
     IN  /\ height' = h
         /\ nonce' = res.nonce
         /\ blockTxs' = res.block
         /\ IF h % RotationPeriod = 0 /\ Cardinality(DOMAIN current) > 1
              THEN /\ validators' = Repowered(validators)
                   /\ \E upd \in RotateValidators(validators) :
                        pending' = IF upd # NoUpdates /\ HasValidatorChanges(current, upd)
                                     THEN upd ELSE NoUpdates
              ELSE UNCHANGED <<validators, pending>>
  /\ phase' = "Finalized"
  /\ UNCHANGED <<now, engine, chain>>

(***************************************************************************)
(* Commit: the state is saved and the block of currentBlockTxs stored at   *)
(* currentBlockHeight (saveBlock); CometBFT then applies the updates the   *)
(* block returned.                                                         *)
(***************************************************************************)
Commit ==
  /\ phase = "Finalized"
  /\ chain' = Append(chain, blockTxs)
  /\ engine' = ApplyUpdates(engine, pending)
  /\ pending' = NoUpdates
  /\ phase' = "Idle"
  /\ UNCHANGED <<validators, now, height, nonce, blockTxs>>

(* The run is over: the last height is committed. *)
Done ==
  /\ phase = "Idle" /\ height = MaxHeight
  /\ UNCHANGED vars

Next ==
  \/ \E n \in 0..MaxBlockTxs :
       \E txs \in [1..n -> Tx], outs \in [1..n -> Outcomes] : FinalizeBlock(txs, outs)
  \/ Commit
  \/ Done

Spec == Init /\ [][Next]_vars
-----------------------------------------------------------------------------
(* The places of the stored transactions: <<height, index in the block>>. *)
ChainPositions == UNION {{<<h, i>> : i \in DOMAIN chain[h]} : h \in DOMAIN chain}
TxAt(p) == chain[p[1]][p[2]]
Earlier(p, q) == p[1] < q[1] \/ (p[1] = q[1] /\ p[2] < q[2])

(***************************************************************************)
(* Replay protection across blocks: a sender's stored transactions carry   *)
(* strictly increasing nonces in chain order, all below its EVM nonce, so  *)
(* no transaction is stored twice however often proposers re-propose it   *)
(* (the account-nonce check of core.ApplyMessage in ExecuteTransaction).   *)
(***************************************************************************)
ChainOrderedByNonce ==
  \A p \in ChainPositions :
    /\ TxAt(p).nonce < nonce[TxAt(p).from]
    /\ \A q \in ChainPositions :
         Earlier(p, q) /\ TxAt(p).from = TxAt(q).from => TxAt(p).nonce < TxAt(q).nonce

(***************************************************************************)
(* Spec section 8: after each Commit a sender's nonce equals the number of *)
(* its transactions in the committed blocks that were executed (success or *)
(* failure).  FinalizeBlock stores only successful transactions.           *)
(***************************************************************************)
NonceMatchesBlocks ==
  phase = "Idle" =>
    \A s \in Senders : nonce[s] = Cardinality({p \in ChainPositions : TxAt(p).from = s})

-----------------------------------------------------------------------------
(***************************************************************************)
(* Refinement: the ledger a client sees is the stored chain, extended by   *)
(* the block FinalizeBlock has just executed (its nonces are already       *)
(* consumed in the EVM state).  FinalizeBlock is the ledger's AppendBlock; *)
(* Commit and the validator operations are stuttering steps.               *)
(***************************************************************************)
LedgerChain == IF phase = "Finalized" THEN Append(chain, blockTxs) ELSE chain

L == INSTANCE Ledger WITH Txs <- Tx, chain <- LedgerChain, nonce <- nonce

(***************************************************************************)
(* FinalizeBlock and Commit implement the append-only ledger: blocks are   *)
(* never rewritten, nonces never go back, and each block's transactions   *)
(* use, in order, nonces the block consumes (ExecTx's account-nonce check *)
(* and the reset of currentBlockTxs at the start of FinalizeBlock).        *)
(***************************************************************************)
ImplementsLedger == L!LSpec
=============================================================================
