------------------------------- MODULE Ledger -------------------------------
(***************************************************************************)
(* What the chain promises its users (spec sections 3 and 8): an           *)
(* append-only sequence of blocks, and per sender an account nonce that   *)
(* only grows.  A block may hold, for each sender, transactions with       *)
(* strictly increasing nonces taken from the nonces the block consumes:    *)
(* at least the sender's nonce before the block and below the one after.   *)
(* A consumed nonce need not appear in the block (a transaction that ran   *)
(* and failed).  This is the abstract specification ABCIApp implements.   *)
(***************************************************************************)
EXTENDS Naturals, Sequences

CONSTANTS
  Senders,   \* accounts that send transactions
  Txs        \* transactions: records with a sender (from) and a nonce

VARIABLES chain, nonce

ledgerVars == <<chain, nonce>>

LInit ==
  /\ chain = <<>>
  /\ nonce = [s \in Senders |-> 0]

(* The transactions of sender s in block blk have increasing nonces in [lo, hi). *)
SenderSlice(blk, s, lo, hi) ==
  \A i, j \in DOMAIN blk :
    /\ blk[i].from = s => lo <= blk[i].nonce /\ blk[i].nonce < hi
    /\ i < j /\ blk[i].from = s /\ blk[j].from = s => blk[i].nonce < blk[j].nonce

(* One block is appended and every sender's nonce moves past its slice. *)
AppendBlock ==
  /\ chain' # <<>>
  /\ LET blk == chain'[Len(chain')] IN
       /\ blk \in Seq(Txs)
       /\ chain' = Append(chain, blk)
       /\ nonce' \in [Senders -> Nat]
       /\ \A s \in Senders :
            /\ nonce[s] <= nonce'[s]
            /\ SenderSlice(blk, s, nonce[s], nonce'[s])

LNext == AppendBlock

LSpec == LInit /\ [][LNext]_ledgerVars

-----------------------------------------------------------------------------
LTypeOK ==
  /\ chain \in Seq(Seq(Txs))
  /\ nonce \in [Senders -> Nat]

(* The places of the transactions in the ledger: <<block, index>>. *)
Positions == UNION {{<<h, i>> : i \in DOMAIN chain[h]} : h \in DOMAIN chain}
At(p) == chain[p[1]][p[2]]
Before(p, q) == p[1] < q[1] \/ (p[1] = q[1] /\ p[2] < q[2])

(***************************************************************************)
(* No replay: a sender's transactions in the ledger carry strictly         *)
(* increasing nonces in ledger order, all below the sender's nonce, so no  *)
(* transaction can appear twice.                                           *)
(***************************************************************************)
NonceOrdered ==
  \A p \in Positions :
    /\ At(p).nonce < nonce[At(p).from]
    /\ \A q \in Positions :
         Before(p, q) /\ At(p).from = At(q).from => At(p).nonce < At(q).nonce
=============================================================================
