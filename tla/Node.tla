-------------------------------- MODULE Node --------------------------------
(***************************************************************************)
(* One node across process restarts: NewCometBFTNode (cometbft_node.go)    *)
(* with its data-directory checks, the ABCI app built fresh by NewABCIApp, *)
(* CometBFT's handshake, and the block cycle FinalizeBlock / Commit /      *)
(* saveBlock (abci_app.go) with the process able to die between any two    *)
(* of its writes.                                                          *)
(*                                                                         *)
(* Durable: CometBFT's data directory (state.db and the block store, its   *)
(* height), priv_validator_state.json (the last height signed), the root   *)
(* in the EVM state metadata and the application's storage (block/<h>,     *)
(* latest height).  The EVM trie nodes are not durable (EVMState).          *)
(* Volatile: everything in the ABCIApp struct.                             *)
(***************************************************************************)
EXTENDS Naturals, FiniteSets

CONSTANTS
  Blocks,       \* what the consensus can decide at a height (model values)
  NoBlock,      \* storage has no block at a height
  MaxHeight,    \* heights a run reaches
  MaxCrashes    \* process crashes in a run

ASSUME NodeAssumption ==
  /\ NoBlock \notin Blocks
  /\ MaxHeight \in Nat \ {0} /\ MaxCrashes \in Nat

VARIABLES
  running,      \* the process is up and the node started
  stateDb,      \* CometBFT's data/state.db exists
  cmtHeight,    \* CometBFT's last committed height (state.db, block store)
  privHeight,   \* height in priv_validator_state.json
  evmChanged,   \* a committed block has changed the EVM state (the recorded
                \* root is no longer the empty one)
  blocks,       \* storage block/<h>
  latest,       \* storage latest height (SaveLatestHeight)
  appHeight,    \* app.state.Height
  phase,        \* step of the block cycle
  cur,          \* the block being finalized (its decided content)
  curChanges,   \* whether its transactions change the EVM state
  crashes

vars == <<running, stateDb, cmtHeight, privHeight, evmChanged, blocks,
          latest, appHeight, phase, cur, curChanges, crashes>>

Heights == 1..MaxHeight
Phases == {"Idle", "Finalized", "StateSaved", "BlockSaved"}

TypeOK ==
  /\ running \in BOOLEAN /\ stateDb \in BOOLEAN /\ evmChanged \in BOOLEAN
  /\ cmtHeight \in 0..MaxHeight /\ privHeight \in 0..MaxHeight
  /\ blocks \in [Heights -> Blocks \cup {NoBlock}]
  /\ latest \in 0..MaxHeight /\ appHeight \in 0..MaxHeight
  /\ phase \in Phases /\ cur \in Blocks \cup {NoBlock} /\ curChanges \in BOOLEAN
  /\ crashes \in 0..MaxCrashes

Init ==
  /\ running = FALSE /\ stateDb = FALSE
  /\ cmtHeight = 0 /\ privHeight = 0
  /\ evmChanged = FALSE
  /\ blocks = [h \in Heights |-> NoBlock] /\ latest = 0
  /\ appHeight = 0 /\ phase = "Idle" /\ cur = NoBlock /\ curChanges = FALSE
  /\ crashes = 0

(***************************************************************************)
(* CometBFT's handshake (spec section 4) against an app that answers Info  *)
(* with app.state.Height = 0: with blocks in its store it replays them     *)
(* from height 1, and once the EVM state has moved the replayed app hash   *)
(* differs from the stored one; node start fails and main exits.           *)
(***************************************************************************)
HandshakeFails(height) == height > 0 /\ evmChanged

(***************************************************************************)
(* The start-up wipe: markerExists || dbExists.  The genesis marker is     *)
(* written (225) only while the genesis file has no validator, on a first *)
(* start with no data directory, so what matters is data/state.db.        *)
(***************************************************************************)
DataDirWiped == stateDb

(***************************************************************************)
(* evm.Start (part_001:89), before the CometBFT node is built: LoadState   *)
(* opens a new trie database over Pebble and state.New at the root in the  *)
(* metadata.  StateDB.Commit never flushed the trie nodes to Pebble, so    *)
(* once a committed block changed the state that root cannot be opened;   *)
(* Start fails and main exits with Fatalf (part_001:92).                   *)
(***************************************************************************)
EVMStartFails == evmChanged

(***************************************************************************)
(* NewCometBFTNode: when data/state.db exists it deletes                   *)
(* priv_validator_state.json (287, 439) and the whole data directory       *)
(* (451); node.NewNode then creates it again.  NewABCIApp starts at height *)
(* 0.  Start succeeds only when evm.Start and the handshake do.            *)
(***************************************************************************)
Boot ==
  /\ ~running
  /\ ~EVMStartFails
  /\ LET h0 == IF DataDirWiped THEN 0 ELSE cmtHeight
     IN  /\ ~HandshakeFails(h0)
         /\ cmtHeight' = h0
         /\ privHeight' = IF DataDirWiped THEN 0 ELSE privHeight
  /\ running' = TRUE /\ stateDb' = TRUE
  /\ appHeight' = 0 /\ phase' = "Idle" /\ cur' = NoBlock /\ curChanges' = FALSE
  /\ UNCHANGED <<evmChanged, blocks, latest, crashes>>

(***************************************************************************)
(* The next height: the validator signs the decided block (the private     *)
(* validator refuses a height below the one in its state file), then       *)
(* FinalizeBlock sets app.state.Height = req.Height and executes it.       *)
(***************************************************************************)
FinalizeBlock(b, changes) ==
  /\ running /\ phase = "Idle" /\ cmtHeight < MaxHeight
  /\ LET h == cmtHeight + 1 IN
       /\ privHeight <= h
       /\ privHeight' = h
       /\ appHeight' = h
  /\ cur' = b /\ curChanges' = changes
  /\ phase' = "Finalized"
  /\ UNCHANGED <<running, stateDb, cmtHeight, evmChanged, blocks, latest, crashes>>

(* Commit: executor.SaveState, then the state metadata. *)
CommitState ==
  /\ running /\ phase = "Finalized"
  /\ evmChanged' = (evmChanged \/ curChanges)
  /\ phase' = "StateSaved"
  /\ UNCHANGED <<running, stateDb, cmtHeight, privHeight, blocks, latest,
                 appHeight, cur, curChanges, crashes>>

(* Mutant: saveBlock records the latest height before the block. *)
SaveBlockLatestFirst ==
  /\ running /\ phase = "StateSaved"
  /\ latest' = appHeight
  /\ phase' = "BlockSaved"
  /\ UNCHANGED <<running, stateDb, cmtHeight, privHeight, evmChanged, blocks,
                 appHeight, cur, curChanges, crashes>>

(* saveBlock: SaveBlock(currentBlockHeight, block). *)
SaveBlock ==
  /\ running /\ phase = "StateSaved"
  /\ blocks' = [blocks EXCEPT ![appHeight] = cur]
  /\ phase' = "BlockSaved"
  /\ UNCHANGED <<running, stateDb, cmtHeight, privHeight, evmChanged, latest,
                 appHeight, cur, curChanges, crashes>>

(* Mutant: the latest height recorded one past the block's. *)
SaveLatestHeightOffByOne ==
  /\ running /\ phase = "BlockSaved"
  /\ latest' = appHeight + 1
  /\ cmtHeight' = appHeight
  /\ phase' = "Idle"
  /\ UNCHANGED <<running, stateDb, privHeight, evmChanged, blocks,
                 appHeight, cur, curChanges, crashes>>

(***************************************************************************)
(* saveBlock: SaveLatestHeight; Commit returns and CometBFT records the    *)
(* height as committed in its state.                                       *)
(***************************************************************************)
SaveLatestHeight ==
  /\ running /\ phase = "BlockSaved"
  /\ latest' = appHeight
  /\ cmtHeight' = appHeight
  /\ phase' = "Idle"
  /\ UNCHANGED <<running, stateDb, privHeight, evmChanged, blocks,
                 appHeight, cur, curChanges, crashes>>

(* The process dies between any two writes. *)
Crash ==
  /\ running /\ crashes < MaxCrashes
  /\ running' = FALSE
  /\ appHeight' = 0 /\ phase' = "Idle" /\ cur' = NoBlock /\ curChanges' = FALSE
  /\ crashes' = crashes + 1
  /\ UNCHANGED <<stateDb, cmtHeight, privHeight, evmChanged, blocks, latest>>

(* Nothing left to do: the last height is committed. *)
Done ==
  /\ running /\ phase = "Idle" /\ cmtHeight = MaxHeight
  /\ UNCHANGED vars

Next ==
  \/ Boot
  \/ \E b \in Blocks, changes \in BOOLEAN : FinalizeBlock(b, changes)
  \/ CommitState \/ SaveBlock \/ SaveLatestHeight
  \/ Crash \/ Done

(***************************************************************************)
(* CometBFT creates a block every second (CreateEmptyBlocks, line 50) and  *)
(* drives FinalizeBlock and Commit to the end; a stopped node is started   *)
(* again (by its operator: nothing in the repository restarts it).         *)
(***************************************************************************)
Fairness ==
  /\ WF_vars(Boot)
  /\ WF_vars(\E b \in Blocks, changes \in BOOLEAN : FinalizeBlock(b, changes))
  /\ WF_vars(CommitState) /\ WF_vars(SaveBlock) /\ WF_vars(SaveLatestHeight)

Spec == Init /\ [][Next]_vars /\ Fairness

-----------------------------------------------------------------------------
(***************************************************************************)
(* The storage never claims a height it cannot serve: every height up to  *)
(* the latest one saveBlock recorded has its block, whatever write the     *)
(* process died after (REST and Query read block/<latest>).                *)
(***************************************************************************)
StoredPrefixComplete == \A h \in 1..latest : blocks[h] # NoBlock

(***************************************************************************)
(* Restarts do not stop the chain: once crashes stop, the node started     *)
(* again reaches the last height and stays there (main's start sequence:   *)
(* evm.Start, then NewCometBFTNode's handling of the data directory        *)
(* against the app's Info answer).                                         *)
(***************************************************************************)
NodeProgress == <>[](running /\ cmtHeight = MaxHeight)

(***************************************************************************)
(* Committed blocks are immutable: once saveBlock stored a block at a      *)
(* height, no later step replaces it (spec section 9: do not silently     *)
(* wipe consensus state).                                                  *)
(***************************************************************************)
BlocksImmutable ==
  [][\A h \in Heights : blocks[h] # NoBlock => blocks'[h] = blocks[h]]_vars
=============================================================================
