------------------------------ MODULE NodeProofs ------------------------------
(***************************************************************************)
(* Proof that saveBlock's write order keeps the stored chain serveable     *)
(* across every crash and restart, for every MaxHeight, MaxCrashes and set *)
(* of blocks.  StoredPrefixComplete is not inductive alone: SaveLatestHeight *)
(* raises the latest height to app.state.Height, so the proof also needs   *)
(* that every height CometBFT has committed has its block, and what holds  *)
(* in the middle of the block cycle (app.state.Height is the next height,  *)
(* the block is a decided one, and after SaveBlock it is in storage).      *)
(***************************************************************************)
EXTENDS Node, TLAPS

(* Every height CometBFT counts as committed has its block in storage. *)
CommittedPrefixStored == \A h \in 1..cmtHeight : blocks[h] # NoBlock

(* Inside the block cycle the process runs the next height's block. *)
CycleState ==
  phase # "Idle" =>
    /\ running /\ appHeight = cmtHeight + 1 /\ cur \in Blocks
    /\ phase = "BlockSaved" => blocks[appHeight] # NoBlock

IInv == TypeOK /\ StoredPrefixComplete /\ CommittedPrefixStored /\ CycleState
-----------------------------------------------------------------------------
(* The initial state: nothing stored, nothing committed, no cycle running. *)
LEMMA InitIInv == Init => IInv
<1> SUFFICES ASSUME Init PROVE IInv
  OBVIOUS
<1>1. TypeOK
  <2>1. running \in BOOLEAN /\ stateDb \in BOOLEAN /\ evmChanged \in BOOLEAN
    BY DEF Init
  <2>2. cmtHeight \in 0..MaxHeight /\ privHeight \in 0..MaxHeight
    BY NodeAssumption DEF Init
  <2>3. blocks \in [Heights -> Blocks \cup {NoBlock}]
    BY DEF Init
  <2>4. latest \in 0..MaxHeight /\ appHeight \in 0..MaxHeight
    BY NodeAssumption DEF Init
  <2>5. phase \in Phases /\ cur \in Blocks \cup {NoBlock} /\ curChanges \in BOOLEAN
    BY DEF Init, Phases
  <2>6. crashes \in 0..MaxCrashes
    BY NodeAssumption DEF Init
  <2>7. QED
    BY <2>1, <2>2, <2>3, <2>4, <2>5, <2>6 DEF TypeOK
<1>2. StoredPrefixComplete /\ CommittedPrefixStored /\ CycleState
  BY DEF Init, StoredPrefixComplete, CommittedPrefixStored, CycleState
<1>3. QED
  BY <1>1, <1>2 DEF IInv

(***************************************************************************)
(* Every step keeps IInv: one case per action of Next.  Boot may reset the *)
(* committed height (the wipe) but touches no stored block; the cycle's    *)
(* steps fill block/<h> before SaveLatestHeight raises latest and the      *)
(* committed height to h; Crash ends the cycle and keeps storage.          *)
(***************************************************************************)
LEMMA NextIInv == IInv /\ [Next]_vars => IInv'
<1> SUFFICES ASSUME IInv, [Next]_vars PROVE IInv'
  OBVIOUS
<1> USE NodeAssumption DEF IInv, TypeOK, StoredPrefixComplete,
                           CommittedPrefixStored, CycleState, Heights, Phases
<1>1. CASE Boot
  <2>1. /\ cmtHeight' \in 0..cmtHeight /\ privHeight' \in 0..MaxHeight
        /\ running' = TRUE /\ stateDb' = TRUE /\ phase' = "Idle"
        /\ appHeight' = 0 /\ cur' = NoBlock /\ curChanges' = FALSE
        /\ UNCHANGED <<evmChanged, blocks, latest, crashes>>
    BY <1>1 DEF Boot, DataDirWiped
  <2>2. /\ running' \in BOOLEAN /\ stateDb' \in BOOLEAN /\ evmChanged' \in BOOLEAN
        /\ curChanges' \in BOOLEAN
    BY <2>1, Zenon
  <2>3. TypeOK'
    BY <2>1, <2>2
  <2>4. QED
    BY <2>1, <2>3
<1>2. ASSUME NEW b \in Blocks, NEW changes \in BOOLEAN, FinalizeBlock(b, changes)
      PROVE  IInv'
  BY <1>2 DEF FinalizeBlock
<1>3. CASE CommitState
  BY <1>3 DEF CommitState
<1>4. CASE SaveBlock
  <2>1. appHeight \in Heights /\ cur \in Blocks
    BY <1>4 DEF SaveBlock
  <2>2. /\ blocks' \in [Heights -> Blocks \cup {NoBlock}]
        /\ blocks'[appHeight] # NoBlock
        /\ \A h \in Heights : blocks[h] # NoBlock => blocks'[h] # NoBlock
    BY <1>4, <2>1 DEF SaveBlock
  <2>3. QED
    BY <1>4, <2>1, <2>2 DEF SaveBlock
<1>5. CASE SaveLatestHeight
  <2>1. /\ appHeight = cmtHeight + 1 /\ appHeight \in Heights
        /\ blocks[appHeight] # NoBlock
    BY <1>5 DEF SaveLatestHeight
  <2>2. \A h \in 1..appHeight : blocks[h] # NoBlock
    BY <2>1
  <2>3. QED
    BY <1>5, <2>2 DEF SaveLatestHeight
<1>6. CASE Crash
  <2>1. /\ running' = FALSE /\ phase' = "Idle"
        /\ appHeight' = 0 /\ cur' = NoBlock /\ curChanges' = FALSE
        /\ crashes' \in 0..MaxCrashes
        /\ UNCHANGED <<stateDb, cmtHeight, privHeight, evmChanged, blocks, latest>>
    BY <1>6 DEF Crash
  <2>2. /\ running' \in BOOLEAN /\ stateDb' \in BOOLEAN /\ evmChanged' \in BOOLEAN
        /\ curChanges' \in BOOLEAN
    BY <2>1, Zenon
  <2>3. TypeOK'
    BY <2>1, <2>2
  <2>4. QED
    BY <2>1, <2>3
<1>7. CASE Done \/ UNCHANGED vars
  BY <1>7 DEF Done, vars
<1>8. QED
  BY <1>1, <1>2, <1>3, <1>4, <1>5, <1>6, <1>7 DEF Next

(***************************************************************************)
(* saveBlock writes block/<h> before the latest height h, and CometBFT      *)
(* records h only after Commit returns; so whatever write the process dies *)
(* after, and whatever restarts follow, every height up to the stored      *)
(* latest height has its block.                                            *)
(***************************************************************************)
THEOREM StoredPrefixHolds == Spec => []StoredPrefixComplete
<1>1. Init => IInv
  BY InitIInv
<1>2. IInv /\ [Next]_vars => IInv'
  BY NextIInv
<1>3. IInv => StoredPrefixComplete
  BY DEF IInv
<1>4. QED
  BY <1>1, <1>2, <1>3, PTL DEF Spec

(* The type invariant of the node model holds in every reachable state. *)
THEOREM NodeTypeOK == Spec => []TypeOK
<1>1. IInv => TypeOK
  BY DEF IInv
<1>2. QED
  BY InitIInv, NextIInv, <1>1, PTL DEF Spec
==============================================================================
