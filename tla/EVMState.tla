------------------------------ MODULE EVMState ------------------------------
(***************************************************************************)
(* The EVM state of the node: the StateDB instances that the executor      *)
(* (evm.go, EVMExecutor) and the state manager (execution/state.go,        *)
(* StateManager) hold, the trie database they commit to, and the root     *)
(* recorded in the storage metadata, across FinalizeBlock, the two halves  *)
(* of ABCI Commit, FundAccount from the REST server, and crashes.          *)
(*                                                                         *)
(* A StateDB's content is abstracted to the set of effects applied to it;  *)
(* a root hash is the content it commits (the hash is injective).  A       *)
(* state-changing FinalizeBlock adds the effect of its block, FundAccount  *)
(* the effect of its call.                                                 *)
(*                                                                         *)
(* The trie database LoadState opens (triedb.NewDatabase with an empty     *)
(* Config, state.go:75) is go-ethereum's hash database: StateDB.Commit     *)
(* only hands it the new trie nodes in memory, and nothing in the code     *)
(* flushes them to Pebble (there is no triedb.Commit).  trieDB is the set  *)
(* of roots the live trie database can open; what a new one opened over   *)
(* the Pebble store can open is DiskRoots.                                 *)
(***************************************************************************)
EXTENDS Naturals, Sequences, FiniteSets

CONSTANTS
  MaxBlocks,      \* FinalizeBlock calls in a run
  MaxFunds,       \* FundAccount calls in a run
  MaxCrashes,     \* process crashes in a run
  StorageFaults   \* whether StateDB.Commit / state.New may fail with an I/O error

ASSUME EVMStateAssumption ==
  /\ MaxBlocks \in Nat /\ MaxFunds \in Nat /\ MaxCrashes \in Nat
  /\ StorageFaults \in BOOLEAN

VARIABLES
  objs,      \* objs[i]: content of the i-th StateDB instance created
  smDB,      \* sm.stateDB (index into objs, 0 = nil)
  exDB,      \* e.stateDB, the executor's own reference (0 = nil)
  trieDB,    \* roots sm.database (the live trie database) can open
  meta,      \* root in the storage metadata (storage.SaveState)
  root,      \* the root SaveState has just committed (its local variable)
  appHash,   \* app.state.AppHash
  running,   \* the process is up and evm.Start has succeeded
  phase,     \* where the ABCI block cycle is
  blocks,    \* FinalizeBlock calls so far
  funds,     \* FundAccount calls so far
  crashes

vars == <<objs, smDB, exDB, trieDB, meta, root, appHash, running, phase, blocks, funds, crashes>>

TxEffect(b) == <<"block", b>>
FundEffect(k) == <<"fund", k>>
Effects == {TxEffect(b) : b \in 1..MaxBlocks} \cup {FundEffect(k) : k \in 1..MaxFunds}

(* common.Hash{}: no metadata yet, state.New opens the empty state. *)
EmptyRoot == {}

(* What a trie database newly opened over the Pebble store can open. *)
DiskRoots == {EmptyRoot}

(* StateManager.GetRootHash: common.Hash{} when sm.stateDB is nil. *)
GetRootHash == IF smDB = 0 THEN EmptyRoot ELSE objs[smDB]

Phases == {"Idle", "Finalized", "StateCommitted", "StateSaved"}

TypeOK ==
  /\ objs \in Seq(SUBSET Effects)
  /\ smDB \in 0..Len(objs) /\ exDB \in 0..Len(objs)
  /\ trieDB \subseteq SUBSET Effects
  /\ meta \in SUBSET Effects /\ root \in SUBSET Effects /\ appHash \in SUBSET Effects
  /\ running \in BOOLEAN /\ phase \in Phases
  /\ blocks \in 0..MaxBlocks /\ funds \in 0..MaxFunds /\ crashes \in 0..MaxCrashes

Init ==
  /\ objs = <<>>
  /\ smDB = 0 /\ exDB = 0
  /\ trieDB = DiskRoots
  /\ meta = EmptyRoot /\ root = EmptyRoot /\ appHash = EmptyRoot
  /\ running = FALSE /\ phase = "Idle"
  /\ blocks = 0 /\ funds = 0 /\ crashes = 0

(* A new StateDB instance opened at a committed root. *)
Open(r) == Append(objs, r)
NewIndex == Len(objs) + 1

-----------------------------------------------------------------------------
(***************************************************************************)
(* EVMExecutor.Start: LoadState opens a new trie database over Pebble and  *)
(* a StateDB at the root recorded in the metadata; the executor keeps the  *)
(* pointer LoadState returns, which is sm.stateDB.  state.New fails on a   *)
(* root the new trie database cannot open; Start then returns the error   *)
(* and main exits with Fatalf (part_001:89-92): no step.                   *)
(***************************************************************************)
Start ==
  /\ ~running
  /\ meta \in DiskRoots
  /\ trieDB' = DiskRoots
  /\ objs' = Open(meta)
  /\ smDB' = NewIndex /\ exDB' = NewIndex
  /\ running' = TRUE
  /\ phase' = "Idle"
  /\ UNCHANGED <<meta, root, appHash, blocks, funds, crashes>>

(* Mutant: the block's effect numbered with the height before the block. *)
FinalizeBlockOffByOne ==
  /\ running /\ phase = "Idle" /\ blocks < MaxBlocks
  /\ \E changes \in BOOLEAN :
       objs' = IF changes THEN [objs EXCEPT ![exDB] = @ \cup {TxEffect(blocks)}]
                          ELSE objs
  /\ blocks' = blocks + 1
  /\ phase' = "Finalized"
  /\ UNCHANGED <<smDB, exDB, trieDB, meta, root, appHash, running, funds, crashes>>

(***************************************************************************)
(* FinalizeBlock: ExecuteTransaction runs every transaction on             *)
(* e.getStateDB(), the executor's own pointer.  A block either changes the *)
(* state (a success, a revert's nonce and gas) or not (all rejected).      *)
(***************************************************************************)
FinalizeBlock ==
  /\ running /\ phase = "Idle" /\ blocks < MaxBlocks
  /\ \E changes \in BOOLEAN :
       objs' = IF changes THEN [objs EXCEPT ![exDB] = @ \cup {TxEffect(blocks + 1)}]
                          ELSE objs
  /\ blocks' = blocks + 1
  /\ phase' = "Finalized"
  /\ UNCHANGED <<smDB, exDB, trieDB, meta, root, appHash, running, funds, crashes>>

(* FundAccount from a REST handler goroutine: AddBalance on e.getStateDB(). *)
FundAccount ==
  /\ running /\ funds < MaxFunds
  /\ objs' = [objs EXCEPT ![exDB] = @ \cup {FundEffect(funds + 1)}]
  /\ funds' = funds + 1
  /\ UNCHANGED <<smDB, exDB, trieDB, meta, root, appHash, running, phase, blocks, crashes>>

(* Mutant: the metadata written before the trie commit. *)
SaveStateCommitMetaFirst ==
  /\ running /\ phase = "Finalized" /\ smDB # 0
  /\ LET r == objs[smDB] IN
       /\ meta' = r /\ root' = r
       /\ objs' = Open(r) /\ smDB' = NewIndex
       /\ phase' = "StateCommitted"
  /\ UNCHANGED <<exDB, trieDB, appHash, running, blocks, funds, crashes>>

(***************************************************************************)
(* reloadStateFromRoot failed, so SaveState runs sm.stateDB, _ =           *)
(* LoadState(): a new trie database over Pebble and a StateDB at the root  *)
(* in the metadata, or, when that fails (Pebble, the snapshot tree or      *)
(* state.New), nil with sm.database left as it was.                        *)
(***************************************************************************)
LoadStateFallback(r) ==
  \/ /\ meta \in DiskRoots
     /\ trieDB' = DiskRoots
     /\ objs' = Open(meta) /\ smDB' = NewIndex
  \/ /\ trieDB' = trieDB \cup {r}
     /\ objs' = objs /\ smDB' = 0

(***************************************************************************)
(* First half of ABCI Commit: executor.SaveState -> StateManager.SaveState *)
(* up to the reload.  With sm.stateDB nil it returns an error at once.     *)
(* root is sm.stateDB's IntermediateRoot; Commit hands its nodes to the    *)
(* live trie database; sm.stateDB is replaced by a new instance at that    *)
(* root (reloadStateFromRoot) or by LoadState's fallback.  e.stateDB is    *)
(* not touched.  A failing Commit returns early.  ABCI Commit logs an      *)
(* error of SaveState and goes on.                                         *)
(***************************************************************************)
SaveStateCommit ==
  /\ running /\ phase = "Finalized"
  /\ \/ /\ smDB # 0
        /\ LET r == objs[smDB] IN
             /\ root' = r
             /\ \/ /\ trieDB' = trieDB \cup {r}
                   /\ objs' = Open(r) /\ smDB' = NewIndex
                \/ StorageFaults /\ LoadStateFallback(r)
        /\ phase' = "StateCommitted"
     \/ /\ smDB = 0 \/ StorageFaults
        /\ phase' = "StateSaved"
        /\ UNCHANGED <<objs, smDB, trieDB, root>>
  /\ UNCHANGED <<exDB, meta, appHash, running, blocks, funds, crashes>>

(* End of StateManager.SaveState: the root goes to the storage metadata. *)
SaveStateMeta ==
  /\ running /\ phase = "StateCommitted"
  /\ meta' = root
  /\ phase' = "StateSaved"
  /\ UNCHANGED <<objs, smDB, exDB, trieDB, root, appHash, running, blocks, funds, crashes>>

(* Mutant: the app hash taken from the executor's instance. *)
CommitAppHashExecutorRoot ==
  /\ running /\ phase = "StateSaved"
  /\ appHash' = objs[exDB]
  /\ meta' = objs[exDB]
  /\ phase' = "Idle"
  /\ UNCHANGED <<objs, smDB, exDB, trieDB, root, running, blocks, funds, crashes>>

(***************************************************************************)
(* Rest of ABCI Commit: the metadata is overwritten with GetRootHash(),    *)
(* the IntermediateRoot of sm.stateDB, and that root is the app hash.  On  *)
(* common.Hash{} the app hash is the Keccak of app.state instead, which    *)
(* covers no EVM effect: it stands here as EmptyRoot.                      *)
(***************************************************************************)
CommitAppHash ==
  /\ running /\ phase = "StateSaved"
  /\ appHash' = GetRootHash
  /\ meta' = GetRootHash
  /\ phase' = "Idle"
  /\ UNCHANGED <<objs, smDB, exDB, trieDB, root, running, blocks, funds, crashes>>

(***************************************************************************)
(* The process dies: every StateDB and the trie nodes the live trie        *)
(* database held in memory are lost; Pebble and the storage metadata      *)
(* survive.                                                                *)
(***************************************************************************)
Crash ==
  /\ running /\ crashes < MaxCrashes
  /\ running' = FALSE
  /\ smDB' = 0 /\ exDB' = 0
  /\ trieDB' = DiskRoots
  /\ phase' = "Idle"
  /\ crashes' = crashes + 1
  /\ UNCHANGED <<objs, meta, root, appHash, blocks, funds>>

(* The run is over: every block executed and committed. *)
Done ==
  /\ running /\ phase = "Idle" /\ blocks = MaxBlocks
  /\ UNCHANGED vars

Next ==
  \/ Start \/ FinalizeBlock \/ FundAccount
  \/ SaveStateCommit \/ SaveStateMeta \/ CommitAppHash
  \/ Crash \/ Done

Spec == Init /\ [][Next]_vars

-----------------------------------------------------------------------------
(***************************************************************************)
(* The metadata names committed state: while the process runs, the root   *)
(* ABCI Commit and SaveState record in the storage metadata is one whose   *)
(* trie nodes StateDB.Commit has handed to the live trie database, so      *)
(* reloadStateFromRoot and state.New on it succeed ("esto persiste el      *)
(* StateDB", abci_app.go:427).                                             *)
(***************************************************************************)
RecordedRootCommitted == running => meta \in trieDB

(***************************************************************************)
(* The app hash Commit returns covers the state FinalizeBlock produced:    *)
(* every effect applied through the executor's StateDB is in the root      *)
(* GetRootHash reports at the end of Commit.                               *)
(***************************************************************************)
AppHashCoversExecution ==
  [][phase = "StateSaved" /\ phase' = "Idle" /\ running'
       => objs[exDB] \subseteq appHash']_vars

-----------------------------------------------------------------------------
(***************************************************************************)
(* Refinement: the roots the live trie database can open are the          *)
(* committed roots, those a new one over Pebble can open the durable ones; *)
(* the storage metadata is the recorded root, app.state.AppHash the        *)
(* reported one.  SaveStateCommit is a Commit, or a Reopen when LoadState  *)
(* replaces the trie database; Start and Crash are Reopens; SaveStateMeta  *)
(* is a Record and CommitAppHash a Report.                                 *)
(***************************************************************************)
CR == INSTANCE CommittedRoots WITH
        Durable <- DiskRoots, committed <- trieDB, recorded <- meta, reported <- appHash

(***************************************************************************)
(* StateManager.SaveState and ABCI Commit implement what the abstract      *)
(* specification promises of them: the root left in the metadata and the  *)
(* app hash handed to CometBFT only ever move to roots the live trie       *)
(* database holds, and roots are dropped only down to the durable ones.    *)
(***************************************************************************)
ImplementsCommittedRoots == CR!CRSpec
=============================================================================
