----------------------------- MODULE ABCIAppProofs -----------------------------
(***************************************************************************)
(* Replay protection of the ABCI app, derived from its refinement of the   *)
(* abstract Ledger.  What ExecTxs computes for an arbitrary list of        *)
(* transactions needs induction over the list, out of the provers' reach,  *)
(* so Spec => ImplementsLedger is model-checked (run abci_txs); what the   *)
(* ledger promises is proved (LedgerProofs), and this module shows that    *)
(* the promise, read through the refinement mapping, is ChainOrderedByNonce *)
(* of the stored chain.                                                    *)
(***************************************************************************)
EXTENDS ABCIApp, TLAPS

LP == INSTANCE LedgerProofs WITH Txs <- Tx, chain <- LedgerChain, nonce <- nonce

(* The app is between two ABCI calls, and the stored chain is well typed. *)
AppShape ==
  /\ phase \in {"Idle", "Finalized"}
  /\ chain \in Seq(Seq(Tx))

(* Every transaction names a sender and carries a natural nonce. *)
LEMMA TxHasFields == LP!TxFields
BY NonceAssumption DEF LP!TxFields, Tx

(***************************************************************************)
(* AppShape holds in every state in which the ledger invariant holds:      *)
(* FinalizeBlock leaves the stored chain alone, and after Commit the       *)
(* stored chain is the ledger's chain, which the ledger invariant types.   *)
(***************************************************************************)
LEMMA ShapeStep ==
  ASSUME AppShape, [Next]_vars, LP!LInv'
  PROVE  AppShape'
<1>1. CASE \E n \in 0..MaxBlockTxs :
             \E txs \in [1..n -> Tx], outs \in [1..n -> Outcomes] : FinalizeBlock(txs, outs)
  BY <1>1 DEF FinalizeBlock, AppShape
<1>2. CASE Commit
  <2>1. phase' = "Idle"
    BY <1>2 DEF Commit
  <2>2. LedgerChain' = chain'
    BY <2>1 DEF LedgerChain
  <2>3. QED
    BY <2>1, <2>2 DEF AppShape, LP!LInv, LP!LTypeOK
<1>3. CASE Done \/ UNCHANGED vars
  BY <1>3 DEF Done, vars, AppShape
<1>4. QED
  BY <1>1, <1>2, <1>3 DEF Next

(***************************************************************************)
(* The stored chain is a prefix of the ledger's chain (all of it after     *)
(* Commit, all but the block FinalizeBlock has just run before), so the   *)
(* ledger's ordering of its positions covers every stored position.        *)
(***************************************************************************)
LEMMA OrderedFromLedger ==
  ASSUME AppShape, LP!LInv
  PROVE  ChainOrderedByNonce
<1> DEFINE LC == LedgerChain
<1>1. /\ \A h \in DOMAIN chain : h \in DOMAIN LC /\ LC[h] = chain[h]
      /\ \A h \in DOMAIN chain : DOMAIN chain[h] \subseteq Nat
  BY DEF AppShape, LedgerChain
<1>2. ChainPositions \subseteq LP!Positions
  BY <1>1 DEF ChainPositions, LP!Positions
<1>3. \A p \in ChainPositions : TxAt(p) = LP!At(p)
  BY <1>1 DEF ChainPositions, TxAt, LP!At
<1>4. \A p, q \in ChainPositions : Earlier(p, q) <=> LP!Before(p, q)
  BY DEF Earlier, LP!Before
<1>5. LP!NonceOrdered
  BY DEF LP!LInv
<1>6. QED
  BY <1>2, <1>3, <1>4, <1>5 DEF ChainOrderedByNonce, LP!NonceOrdered

(***************************************************************************)
(* FinalizeBlock's account-nonce check and Commit's saveBlock keep every   *)
(* sender's stored transactions in strictly increasing nonce order below  *)
(* its EVM nonce, in every behaviour that implements the ledger.           *)
(***************************************************************************)
THEOREM ChainOrderedFromLedger ==
  Spec /\ ImplementsLedger => []ChainOrderedByNonce
<1>1. ImplementsLedger => []LP!LInv
  <2>1. ImplementsLedger <=> LP!LSpec
    BY DEF ImplementsLedger, L!LSpec, LP!LSpec, L!LInit, LP!LInit, L!LNext, LP!LNext,
           L!ledgerVars, LP!ledgerVars, L!AppendBlock, LP!AppendBlock,
           L!SenderSlice, LP!SenderSlice
  <2>2. QED
    BY <2>1, TxHasFields, LP!LedgerInv
<1>2. Init => AppShape
  BY DEF Init, AppShape
<1>3. Spec /\ []LP!LInv => []AppShape
  BY <1>2, ShapeStep, PTL DEF Spec
<1>4. QED
  BY <1>1, <1>3, OrderedFromLedger, PTL
==============================================================================
