----------------------------- MODULE LedgerProofs -----------------------------
(***************************************************************************)
(* Proof that the abstract ledger rules out replay: in every state of      *)
(* LSpec a sender's transactions carry strictly increasing nonces in       *)
(* ledger order, all below the sender's nonce.  NonceOrdered is inductive  *)
(* together with the type invariant: each appended block takes its        *)
(* nonces from [nonce[s], nonce'[s]), above every earlier one.             *)
(***************************************************************************)
EXTENDS Ledger, TLAPS

(* Every transaction names a sender and carries a natural nonce. *)
TxFields == \A t \in Txs : t.from \in Senders /\ t.nonce \in Nat

LInv == LTypeOK /\ NonceOrdered

LEMMA InitLInv == LInit => LInv
BY DEF LInit, LInv, LTypeOK, NonceOrdered, Positions

(***************************************************************************)
(* Where a transaction of the longer ledger sits: in an old block, where   *)
(* it is unchanged, or in the appended block.                              *)
(***************************************************************************)
LEMMA AppendPositions ==
  ASSUME NEW c \in Seq(Seq(Txs)), NEW blk \in Seq(Txs),
         NEW p \in UNION {{<<h, i>> : i \in DOMAIN Append(c, blk)[h]} : h \in DOMAIN Append(c, blk)}
  PROVE  \/ /\ p \in UNION {{<<h, i>> : i \in DOMAIN c[h]} : h \in DOMAIN c}
            /\ p[1] \in 1..Len(c)
            /\ Append(c, blk)[p[1]][p[2]] = c[p[1]][p[2]]
         \/ /\ p[1] = Len(c) + 1 /\ p[2] \in 1..Len(blk)
            /\ Append(c, blk)[p[1]][p[2]] = blk[p[2]]
BY DEF Positions

(***************************************************************************)
(* AppendBlock keeps LInv.  An old transaction stays below its sender's    *)
(* nonce, which only grows, and below the new block's slice, which starts  *)
(* at the old nonce; inside the new block SenderSlice orders the nonces    *)
(* and bounds them by the new nonce.                                       *)
(***************************************************************************)
LEMMA AppendLInv ==
  ASSUME TxFields, LInv, AppendBlock
  PROVE  LInv'
<1> DEFINE blk == chain'[Len(chain')]
           n == Len(chain)
<1>1. /\ blk \in Seq(Txs) /\ chain' = Append(chain, blk)
      /\ nonce' \in [Senders -> Nat]
      /\ \A s \in Senders : nonce[s] <= nonce'[s] /\ SenderSlice(blk, s, nonce[s], nonce'[s])
  BY DEF AppendBlock
<1>2. chain \in Seq(Seq(Txs)) /\ nonce \in [Senders -> Nat]
  BY DEF LInv, LTypeOK
<1>3. LTypeOK'
  <2>1. Append(chain, blk) \in Seq(Seq(Txs))
    BY <1>1, <1>2
  <2>2. QED
    BY <1>1, <2>1 DEF LTypeOK
<1> DEFINE Old(p) == /\ p \in Positions /\ p[1] \in 1..n /\ At(p)' = At(p)
           New(p) == /\ p[1] = n + 1 /\ p[2] \in 1..Len(blk) /\ At(p)' = blk[p[2]]
<1>4. \A p \in Positions' : Old(p) \/ New(p)
  BY <1>1, <1>2, AppendPositions DEF Positions, At
<1>5. \A p \in Positions : At(p).from \in Senders /\ At(p).nonce \in Nat
  BY <1>2 DEF Positions, At, TxFields
<1>6. \A i \in 1..Len(blk) : blk[i].from \in Senders /\ blk[i].nonce \in Nat
  BY <1>1 DEF TxFields
<1>7. NonceOrdered'
  <2> SUFFICES ASSUME NEW p \in Positions'
               PROVE  /\ At(p)'.nonce < nonce'[At(p)'.from]
                      /\ \A q \in Positions' :
                           Before(p, q) /\ At(p)'.from = At(q)'.from
                             => At(p)'.nonce < At(q)'.nonce
    BY DEF NonceOrdered
  <2>1. CASE Old(p)
    <3>1. At(p).nonce < nonce[At(p).from] /\ nonce[At(p).from] <= nonce'[At(p).from]
      BY <2>1, <1>1, <1>5 DEF LInv, NonceOrdered
    <3>2. At(p)'.nonce < nonce'[At(p)'.from]
      BY <2>1, <3>1, <1>1, <1>2, <1>5
    <3>3. ASSUME NEW q \in Positions', Before(p, q), At(p)'.from = At(q)'.from
          PROVE  At(p)'.nonce < At(q)'.nonce
      <4>1. CASE Old(q)
        BY <2>1, <4>1, <3>3 DEF LInv, NonceOrdered
      <4>2. CASE New(q)
        <5>1. SenderSlice(blk, At(p).from, nonce[At(p).from], nonce'[At(p).from])
          BY <1>1, <1>5, <2>1
        <5>2. nonce[At(p).from] <= blk[q[2]].nonce
          BY <4>2, <5>1, <3>3, <2>1 DEF SenderSlice
        <5>3. QED
          BY <2>1, <4>2, <3>1, <5>2, <1>5, <1>6, <1>2
      <4>3. QED
        BY <4>1, <4>2, <1>4
    <3>4. QED
      BY <3>2, <3>3
  <2>2. CASE New(p)
    <3> DEFINE s == blk[p[2]].from
    <3>1. s \in Senders /\ SenderSlice(blk, s, nonce[s], nonce'[s])
      BY <2>2, <1>1, <1>6
    <3>2. At(p)'.nonce < nonce'[At(p)'.from]
      BY <2>2, <3>1 DEF SenderSlice
    <3>3. ASSUME NEW q \in Positions', Before(p, q), At(p)'.from = At(q)'.from
          PROVE  At(p)'.nonce < At(q)'.nonce
      <4>1. ~Old(q)
        BY <2>2, <3>3 DEF Before
      <4>2. New(q) /\ p[2] < q[2]
        BY <4>1, <1>4, <2>2, <3>3 DEF Before
      <4>3. QED
        BY <2>2, <3>1, <3>3, <4>2 DEF SenderSlice
    <3>4. QED
      BY <3>2, <3>3
  <2>3. QED
    BY <1>4, <2>1, <2>2
<1>8. QED
  BY <1>3, <1>7 DEF LInv

(* A stuttering step changes neither the chain nor the nonces. *)
LEMMA StutterLInv ==
  ASSUME LInv, UNCHANGED ledgerVars
  PROVE  LInv'
BY DEF LInv, LTypeOK, NonceOrdered, Positions, At, Before, ledgerVars

(* LInv holds in every state of the ledger. *)
LEMMA LedgerInv ==
  ASSUME TxFields
  PROVE  LSpec => []LInv
<1>1. LInv /\ [LNext]_ledgerVars => LInv'
  BY AppendLInv, StutterLInv DEF LNext
<1>2. QED
  BY InitLInv, <1>1, PTL DEF LSpec

(***************************************************************************)
(* The ledger's promise excludes replay: for every set of senders and      *)
(* transactions, whatever blocks are appended, no sender's nonce repeats   *)
(* or goes backwards along the chain, and none reaches the sender's nonce. *)
(***************************************************************************)
THEOREM LedgerNoReplay ==
  ASSUME TxFields
  PROVE  LSpec => []NonceOrdered
<1>1. LSpec => []LInv
  BY LedgerInv
<1>2. QED
  BY <1>1, PTL DEF LInv
==============================================================================
