# TLA+ models of the oxg-blockchain node

This directory holds TLA+ models of the Go node under `src/go`. Each model is checked with TLC, and the main invariants are proved with TLAPS. `PROJECT.json` holds the machine-readable index:

- the components;
- the TLC runs;
- the mutants that each property must catch;
- the map from every definition to the source lines it models;
- the findings, the hazards and the theorems.

## 1. The system

The node is a CometBFT ABCI application (`src/go/internal/consensus`).

| Part | Source | State | Operations | Interacts with |
|---|---|---|---|---|
| ValidatorSet | `validators.go` | map address → Validator{Stake, Power, Jailed, JailedUntil, MissedBlocks, …}; `sync.RWMutex` | LoadValidators, SaveValidators, RegisterValidator, Stake, Unstake, Slash, Unjail, UpdateValidatorActivity, RotateValidators, InitializeGenesisValidators, getters, ToCometBFTValidators | storage (`validators:set`), ABCIApp |
| ABCIApp | `abci_app.go` (1-968) | AppState{Height, AppHash, Validators}; current block txs/receipts | InitChain, FinalizeBlock (decode, validate, execute, save, rotation every 100 blocks), Commit (SaveState, app hash, saveBlock), Info, Query, CheckTx, PrepareProposal | ValidatorSet, EVM executor, storage, mempool |
| EVM executor | `validators_test.go` 698-1202 (package `execution`) | StateDB, running flag, current block info | ExecuteTransaction, FundAccount, DeployContract, CallContract, SaveState, Start, Stop | StateManager, REST |
| StateManager | `execution/state.go` | Pebble DB, StateDB, root | LoadState, SaveState (commit, reload, persist root), Save/LoadStateAtHeight, Close | storage |
| Node bootstrap | `cometbft_node.go` | genesis and key files, data directory | NewCometBFTNode (wipes CometBFT data on every start), config | CometBFT, ABCIApp |
| HealthChecker | `health/health.go` | component map under an RWMutex | CheckHealth, Set*Health, UpdateComponent | REST |
| REST server | `api/rest_server.go` | per-IP token buckets | handlers; fund, submit tx, validators | executor, consensus |

### Hard behaviours

- **Concurrent callers of the ValidatorSet.** The ABCI connection and the REST goroutines call the set under one `sync.RWMutex`, and the mutex is not reentrant.
- **Randomised map order.** Go randomises the order of map iteration. This order decides which validator is evicted at a stake tie (`findLowestStakeValidator`) and which validators survive the unstable sort in `RotateValidators`.
- **Two-phase block apply.** The in-memory height is set in FinalizeBlock, before Commit.
- **Ordered persistence in Commit.** Commit persists in this order: EVM state, then block, then latest height. Errors at each step are only logged.
- **Restarts.** On every restart the CometBFT data is wiped and the app starts from height 0.
- **Volatile trie.** `StateDB.Commit` hands the trie nodes to go-ethereum's in-memory hash database, opened by `LoadState` (`triedb.NewDatabase` with an empty Config, `state.go:75`). Nothing in the code calls `triedb.Commit`, so the nodes never reach Pebble and a crash loses every root except the empty one.
- **Outcomes of a transaction.** Each has its own effect on the mempool:
  - rejected at admission (code 1 or 2);
  - failing at execution (code 3);
  - reverted (code 4);
  - succeeding.

### Properties that make each part correct

- **ValidatorSet:**
  - no member's stake is below minStake;
  - the set never exceeds maxValidators;
  - Power equals calculatePower(Stake);
  - every method returns.
- **ABCIApp:**
  - a validator update is emitted only when the active set changed, and it carries power 0 for removals;
  - Info reports only committed heights;
  - nonces count the sender's executed transactions;
  - blocks chain by parent hash and are never overwritten.
- **StateManager and executor:** the root in the metadata names committed state, and after a restart it can be reopened; the app hash covers what was executed.
- **Node:** restarts neither lose nor rewrite stored blocks, and a restarted node makes progress (the code fails this; see `node_progress`).
- **REST:** no map is read while it is being written.

`PROJECT.json` lists every hazard found at the line where it bites. It also gives the property that covers each one, or the reason none does yet.

## 2. Modules

### ValidatorSet.tla

The data of `validators.go`. The write lock serialises every method, so each method is one atomic action. The lock itself is modelled in ValidatorLocks.

**Constants:**

- `Addr`: the validator addresses;
- `Unit`: stake units per coin, standing for 10^18;
- `MaxPower`: the 2^30 clamp;
- `MinStake` and `MaxValidators`;
- `Genesis`: address → stake;
- the argument sets `Amounts`, `SlashPercents` and `JailDurations`;
- `MissThreshold`: the code's 100;
- two bounds of the model, `MaxStake` and `MaxTime`.

**Variables:**

- `validators`: a function from the registered addresses to records `[stake, power, jailed, until, missed]`;
- `now`: the wall clock, as ticks.

**Left out:** CreatedAt, LastActiveAt, TotalMissed and DelegatedTo. The code writes them and never reads them in a decision.

**Actions:**

| Action | Source | What it covers |
|---|---|---|
| `RegisterValidator` | 136-187 | the eviction at capacity, with any of the tied lowest-stake members, as Go's map order allows |
| `Stake` | 190-217 | |
| `Unstake` | 220-259 | the guard, and the removal that follows it and can never fire |
| `Slash` | 262-301 | no jail check; the removal below minStake |
| `Unjail` | 304-334 | |
| `UpdateValidatorActivity` | 456-488 | the counter resets at the threshold; no slash is applied |
| `Tick` | | the wall clock advancing |

`Init` is the state that InitChain leaves on a fresh node: `InitializeGenesisValidators` applied to the genesis map.

The operators `Register…OffByOne`, `StakeKeepingPower`, `SlashKeepingMember` and `SlashUntilPast` are the mutants. Each stands for one plausible bug in one method.

### ValidatorLocks.tla

The protocol each method follows on `vs.mutex`. A call is the sequence of lock operations that its path through the code performs:

- a saving writer (Register, Stake, Unstake, Slash, Unjail) either returns early (`Lock, Unlock`), or saves under its own lock (`Lock, RLock, RUnlock, Unlock`);
- a plain writer (UpdateValidatorActivity, RotateValidators, LoadValidators) does `Lock, Unlock`;
- a reader does `RLock, RUnlock`;
- InitializeGenesisValidators does `Lock, Unlock, RLock, RUnlock`, because it unlocks before it saves.

**The RWMutex.** `sync.RWMutex` is modelled with its writer preference:

- `LockAnnounce` takes the writer mutex, which blocks new readers;
- `LockAcquire` waits until the readers already inside have left.

**Goroutines.** Each goroutine runs the list `Program[t]`. `Terminated` is the stuttering step taken once all the lists are done. Without it, normal termination would be reported as a deadlock, so that report stays meaningful.

### ABCIApp.tla

The block cycle of `abci_app.go`, composed with the validator set through `VS == INSTANCE ValidatorSet` (same variables, so the rotation acts on the set's map). No code of the node calls the set's write methods (RegisterValidator, Stake, Unstake, Slash, Unjail, UpdateValidatorActivity): only tests do, and the methods block on `vs.mutex` anyway (ValidatorLocks). So they are not actions here, and between blocks the set changes only through the rotation.

- **State.** `height` (state.Height), `phase` (Idle between Commit and the next FinalizeBlock, Finalized in between), `nonce` (each sender's EVM account nonce), `blockTxs` (currentBlockTxs), `chain` (the blocks saveBlock stored), `pending` (the ValidatorUpdates FinalizeBlock returned) and `engine` (the validator set CometBFT holds, which is the genesis powers at InitChain).
- **Transactions.** A transaction is a sender, a nonce and a form (well-formed, or one that fails decoding/validation). `ExecTx` is one iteration of the loop: failures with code 1-3 and ApplyMessage's precheck error change nothing; a revert or a success increments the nonce; only a success is appended to the block. The EVM itself is abstracted to the outcome `Unfunded`, `Reverted` or `Succeeded`, chosen per transaction.
- **Rotation.** At heights that are multiples of `RotationPeriod` (100 in the code) with more than one active validator, `RotateValidators` recomputes every power and returns one of the possible top-maxValidators cuts (the sort is unstable, so every tie order is a possible result); the list is returned only if it is non-empty and `hasValidatorChanges` finds it different from `ToCometBFTValidators` of the same moment.
- **Commit** stores the block and CometBFT applies the returned list (`ApplyUpdates`: power 0 removes, other powers set). This is CometBFT's documented rule, modelled from the spec because its code is not in the repository.
- `Done` is the final stutter once the last height is committed.

Refinement: `LedgerChain` is the stored chain extended by the block FinalizeBlock has just executed, and `L == INSTANCE Ledger WITH Txs <- Tx, chain <- LedgerChain, nonce <- nonce`. FinalizeBlock is the ledger's `AppendBlock`; Commit is a stuttering step. `ImplementsLedger == L!LSpec` is checked as a PROPERTY.

### Ledger.tla

The abstract specification of what the chain promises (spec sections 3 and 8): an append-only sequence of blocks and a per-sender nonce that only grows. A block may carry, for each sender, transactions with strictly increasing nonces in `[nonce before, nonce after)`; a consumed nonce need not appear (a transaction that ran and failed). `AppendBlock` is written over the primed state, not with an existential over blocks, so TLC can check it as a property of ABCIApp. The appended block is a sequence of `Txs`, the constant set of transactions (ABCIApp's `Tx`). `NonceOrdered` states the no-replay promise over the ledger's positions; it is proved in `LedgerProofs`.

### CommittedRoots.tla

The abstract specification of what the state persistence promises about the roots it records and reports (spec sections 5 and 9).

- The constant `Durable` is the set of roots storage keeps across a restart.
- `committed` is the set of roots the open state database holds; it starts as `Durable`.
- `recorded` is the root a restart opens, and `reported` is the app hash last given to consensus.

Steps:

- `Commit` adds a root.
- `Record` moves the recorded root to a committed one.
- `Report` does the same and reports that root.
- `Reopen` drops every committed root except the durable ones.

EVMState implements it with `CR == INSTANCE CommittedRoots WITH Durable <- DiskRoots, committed <- trieDB, recorded <- meta, reported <- appHash`:

- SaveStateCommit is a Commit, or a Reopen when LoadState's fallback replaces the trie database;
- Start and Crash are Reopens;
- SaveStateMeta is a Record, and CommitAppHash a Report.

The specification does not promise that committed roots survive a restart. The code does not keep that promise (spec 4.B asks for it), and the `node_progress` run shows the consequence. `ImplementsCommittedRoots == CR!CRSpec` is a property of the `evm_crash` run.

### EVMState.tla

The StateDB instances of the executor (`EVMExecutor`, `validators_test.go` 698-1202, which is package `execution`) and of `StateManager` (`execution/state.go`), with the trie database, the root in the storage metadata and the app hash.

- **State.** `objs[i]` is the content of the i-th StateDB created, abstracted to the set of effects applied to it; a root is the content it commits. `smDB` is `sm.stateDB`, `exDB` the executor's cached pointer `e.stateDB`. `trieDB` is the set of roots the live trie database (`sm.database`) can open, `meta` the root in the storage metadata, `appHash` `app.state.AppHash`. `DiskRoots == {EmptyRoot}` is what a trie database newly opened over Pebble can open: nothing flushes the committed nodes. `GetRootHash` is the zero hash when `sm.stateDB` is nil; Commit then hashes `app.state` instead, which covers no EVM effect and stands as `EmptyRoot`.
- **Actions.**
  - `Start`: LoadState opens a new trie database over Pebble and a StateDB at the metadata root, and the executor keeps that pointer. It is enabled only when the root is in `DiskRoots`; otherwise `state.New` fails, and main exits with Fatalf (`part_001:89-92`).
  - `FinalizeBlock`: the block's effect, if it changes anything, goes to `objs[exDB]`.
  - `FundAccount`: a REST call, on the same pointer.
  - `SaveStateCommit`: returns an error at once when sm.stateDB is nil. Otherwise it commits `objs[smDB]` into the live trie database and replaces sm.stateDB with a new instance at that root. Under `StorageFaults` the commit may fail, and Commit goes on. The reload may also fail, and then `LoadStateFallback` runs: a new trie database at the metadata root, or sm.stateDB left nil.
  - `SaveStateMeta`: the metadata write.
  - `CommitAppHash`: GetRootHash of sm.stateDB, and the metadata is overwritten with it.
  - `Crash`: the StateDBs and the in-memory trie nodes are lost; Pebble and the metadata are kept.

### Node.tla

One node across process restarts. Durable state: `stateDb` (CometBFT's `data/state.db` exists), `cmtHeight` (CometBFT's committed height), `privHeight` (`priv_validator_state.json`), `evmChanged` (a committed block has changed the EVM state, so the recorded root is no longer the empty one), `blocks` and `latest` (storage `block/<h>` and the latest height). Volatile: `appHeight` (`app.state.Height`), `phase`, `cur`.

- `Boot` is main's start sequence. `evm.Start` comes first, and it fails once `evmChanged` holds (`EVMStartFails`): the recorded root's trie nodes were never written to Pebble, and main exits with Fatalf. Then comes `NewCometBFTNode` plus node start: when `state.db` exists it deletes `priv_validator_state.json` and the data directory (`DataDirWiped`); the new `ABCIApp` starts at height 0; start succeeds only if CometBFT's handshake does (`HandshakeFails`: Info says 0, CometBFT holds blocks, and replaying them on an EVM state that already contains them yields a different app hash).
- `FinalizeBlock`, `CommitState`, `SaveBlock`, `SaveLatestHeight` are the writes of one height in the order Commit/saveBlock do them; `Crash` can come between any two.
- `Done` is the final stutter once the last height is committed.

### RateLimiter.tla

The rate-limit middleware of the REST server: a token bucket per `r.RemoteAddr` in a plain Go map, run by one goroutine per request. The map lookup and the map insert each take two steps (begin, end), so other goroutines can run in between; refill uses the clock value the goroutine read, so `elapsed` can be negative when requests overtake each other, as in the code.

### ValidatorSetProofs.tla, NodeProofs.tla, EVMStateProofs.tla, LedgerProofs.tla, ABCIAppProofs.tla

The TLAPS proofs, described in section 4. Each extends its component module and TLAPS, and holds its inductive invariant, its lemmas and its theorems.

### MC modules

`MC_ValidatorSet`, `MC_ValidatorLocks`, `MC_ABCIApp`, `MC_EVMState`, `MC_Node` and `MC_RateLimiter` give the constants their values for TLC.

## 3. Runs

### `validator_set` (pass)

Checks `MC_ValidatorSet.cfg`: TypeOK, MemberStakeFloor, SetWithinCapacity and PowerMatchesStake.

**Bounds:**

- 3 addresses, with room for 2 validators, so a third registration must evict;
- genesis stake 4 = MinStake, so ties with new registrations at stake 4 occur;
- `Unit = 2` and `MaxPower = 3`, so power rounds (5 → 2) and clamps (8 → 3);
- slashes of 10% and 50% (8 → 4 stays; 4 → 2 is removed; 5 → 5 with 10%, showing floor rounding);
- jail terms of 1 and 2 against a clock of 3 ticks, so Unjail is tried both before and after the term (TypeOK covers the clock bound);
- `MissThreshold = 2`, so the reset at the threshold is reached.

The run explores 37,804 distinct states. Each property is broken by its mutant (see `PROJECT.json`).

### `validator_locks_production` (pass)

Checks `MC_ValidatorLocks.cfg` with three goroutines:

- the ABCI connection: InitChain's LoadValidators, GetActiveValidators, InitializeGenesisValidators, GetValidators and ToCometBFTValidators, then a rotation's ToCometBFTValidators and RotateValidators;
- `main`: LoadValidators, then a REST `/validators` read;
- another REST read.

The run checks the liveness property AllCallsReturn. Deadlock is checked as well.

**Fairness:**

- weak fairness on the steps that do not block;
- strong fairness on each lock acquisition.

The strong fairness is justified by `sync.Mutex`: after 1 ms it switches to starvation mode and hands the lock over in FIFO order.

The mutant has InitializeGenesisValidators save under its own lock, the form its comment at `validators.go:625` warns against. TLC finds that this deadlock violates the property.

### `validator_locks_staking` (violation)

The same model with `main` calling RegisterValidator and Stake, as the tests do. AllCallsReturn fails: a successful RegisterValidator blocks on SaveValidators' RLock (`validators.go:94`) while it holds the Lock (`:141`). The run uses `CHECK_DEADLOCK FALSE` so that the violation is reported as a liveness counterexample.

This is a code bug, recorded under `findings`. Stake, Unstake, Slash and Unjail have the same defect, and only tests call them. Production code calls only LoadValidators, InitializeGenesisValidators, RotateValidators and the getters.

### `abci_txs` (pass)

Checks ChainOrderedByNonce and the refinement ImplementsLedger. ChainOrderedByNonce: each sender's stored transactions have strictly increasing nonces in chain order, all below the sender's current nonce, so no transaction is stored twice.

**Bounds:** one sender, nonces 0..2, both forms (well-formed and invalid), up to two transactions per block (so a block can carry the same transaction twice, or a transaction and its successor), four heights with rotations at heights 2 and 4, and two genesis validators. The run explores 307 distinct states.

**Mutants:**

- `ExecTxAcceptingFutureNonce` (the `>=` check CheckTx uses, instead of ApplyMessage's equality) stores a transaction twice;
- `ExecTxsKeepingBlock` (currentBlockTxs not reset at the start of FinalizeBlock) makes a block carry the previous block's transactions again, which no `AppendBlock` step allows.

### `abci_nonce` (violation)

NonceMatchesBlocks (spec section 8: a sender's nonce equals the number of its executed transactions in committed blocks) fails: a reverted transaction advances the nonce but is not in the block (`abci_app.go:297`, `:341`). Recorded as a spec/code divergence.

### `evm_crash` (pass)

Checks TypeOK, RecordedRootCommitted and the refinement ImplementsCommittedRoots. RecordedRootCommitted says that while the process runs, the root in the metadata is one the live trie database holds: SaveState never records a root it has not committed.

**Bounds:** three blocks, one FundAccount, two crashes at any step of Commit, and no I/O faults. The run explores 3,821 distinct states.

**Deadlock:** the run uses `CHECK_DEADLOCK FALSE`. After a crash that follows a block that changed the state, `Start` is disabled, because `evm.Start` fails and main exits (`node_progress` shows that outcome).

**Mutants:**

- `FinalizeBlockOffByOne` (the block's effect numbered with the previous height) breaks TypeOK;
- `SaveStateCommitMetaFirst` (the metadata written before the trie commit) breaks RecordedRootCommitted;
- `CommitAppHashExecutorRoot` (the app hash taken from the executor's instance rather than sm.stateDB) breaks ImplementsCommittedRoots. After a FundAccount, Commit records and reports a root nobody committed.

### `evm_stale` (violation)

AppHashCoversExecution: every effect applied through the executor's StateDB is in the app hash Commit returns. It fails at the second block: `EVMExecutor.Start` cached the pointer (`validators_test.go:767`), SaveState swapped `sm.stateDB` for a new instance (`state.go:151`), so block 2 runs on the old instance and Commit hashes the new, unchanged one.

### `evm_commit_fault` (violation)

Checks RecordedRootCommitted with `StorageFaults`. ABCI Commit ignores SaveState's error (`abci_app.go:427`). Two traces violate the property:

- The reload after a successful StateDB.Commit fails. The fallback LoadState (`state.go:149`) opens a new trie database over Pebble, which has lost the root just committed, and SaveState still writes that root to the metadata.
- StateDB.Commit itself fails. Commit then writes GetRootHash, a root never committed, to the metadata.

### `node_restart` (pass)

Checks TypeOK and StoredPrefixComplete: every height up to the stored latest height has its block, whatever write the process died after.

**Bounds:** three heights, two possible blocks per height, and two crashes. The run explores 2,198 distinct states.

**Deadlock:** the run uses `CHECK_DEADLOCK FALSE`, because the node really does stop. A restart after a block changed the EVM state fails in `evm.Start`, and main exits.

**Mutants:**

- `SaveBlockLatestFirst` breaks StoredPrefixComplete;
- `SaveLatestHeightOffByOne` breaks TypeOK.

### `node_progress` (violation)

Checks the liveness property NodeProgress (`<>[](running /\ cmtHeight = MaxHeight)`): a node restarted after a crash reaches the last height. The instance is the same as `node_restart`.

**Fairness:**

- weak fairness on FinalizeBlock, CommitState, SaveBlock and SaveLatestHeight, because CometBFT drives a block every second (`CreateEmptyBlocks`, `cometbft_node.go:50`) and calls Commit after FinalizeBlock;
- weak fairness on Boot. This stands for an operator or supervisor restarting a stopped node, since nothing in the repository restarts it.

TLC finds the property violated. A crash after the first block that changed the EVM state leaves a metadata root whose trie nodes were only ever in memory (`state.go:135`; no `triedb.Commit`). Every later Boot fails in `evm.Start`, so the node never runs again. This is recorded as a code bug.

### `node_overwrite` (violation)

BlocksImmutable: a stored block is never replaced. It fails after one crash: the next start wipes CometBFT's data (`cometbft_node.go:451`), the chain restarts at height 1, and saveBlock overwrites `block/1` with the newly decided block. The same wipe resets `priv_validator_state.json` (`:439`), so the validator may sign a second block at a height it already signed.

### `rest_rate_limit` (violation)

NoMapRace: no goroutine reads or writes the bucket map while another writes it. Two requests from two connections violate it in six steps: both begin their lookup, the first finds no bucket and begins the insert while the second is still reading. The Go runtime aborts the whole node process on such an access.

## 4. Proofs

### ValidatorSetProofs.tla

`Inv == TypeOK /\ MemberStakeFloor /\ PowerMatchesStake /\ SetWithinCapacity` is inductive as it stands. The capacity conjunct needs the domain of the map to be a finite set. This follows from `AddrAssumption` (Addr is finite) through `FS_Subset`.

**Per-action lemmas:**

- **RegisterValidator.** The capacity argument is the key one:
  - when the set is full, one member is removed and one is added, so the cardinality is unchanged (`FS_RemoveElement`, `FS_AddElement`);
  - otherwise the set grows by one from below MaxValidators.
- **Slash.** `SlashAmountBound` shows that `stake * pct / 100 <= stake`, so the reduced stake is still a natural number.
- **The other actions.** Each uses one of two lemmas:
  - `UpdateMemberInv`: an update of a single record;
  - `DropMemberInv`: a removal.

**Theorems:**

- `InvariantsHold` (`Spec => []Inv`);
- the corollaries TypeCorrect, StakeFloorHolds, CapacityHolds and PowerDerived;

**Assumptions used:**

- `Unit > 0`;
- MinStake, MaxPower and MaxStake are naturals, and `MaxValidators > 0`;
- genesis stakes lie in `MinStake..MaxStake`, and there are at most MaxValidators of them;
- slash percentages lie in `0..100`;
- Addr is finite.

**What stays with TLC:**

- the liveness property AllCallsReturn: TLAPS does not reason about liveness under fairness or about ENABLED;
- the lock-protocol counterexample.

### NodeProofs.tla

`StoredPrefixHolds` proves `Spec => []StoredPrefixComplete` for every MaxHeight, MaxCrashes and set of blocks: after any crashes and restarts, every height up to the stored latest height has its block. `NodeTypeOK` follows from the same invariant.

StoredPrefixComplete is not inductive alone. SaveLatestHeight raises `latest` to `app.state.Height`, and only the cycle's history says that block is stored. The strengthening `IInv` adds two conjuncts:

- `CommittedPrefixStored`: every height CometBFT counts as committed has its block;
- `CycleState`: inside the block cycle, the process runs, `appHeight = cmtHeight + 1`, and `cur` is a decided block; after SaveBlock, `blocks[appHeight]` is stored.

IInv was checked with TLC on the `node_restart` instance before it was proved. The step lemma `NextIInv` has one case per action. Boot may reset `cmtHeight` to 0 (the wipe) but never touches storage, and Crash only drops volatile state. The proof uses `NodeAssumption` (NoBlock is not a block; MaxHeight > 0).

### EVMStateProofs.tla

`RootCommittedHolds` proves `Spec => []RecordedRootCommitted` under the assumption `~StorageFaults`. With no I/O failure, the root in the storage metadata is always one the live trie database holds, for every number of blocks, FundAccount calls and crashes. This is what SaveState and Commit promise within one run of the process. That the roots do not survive a restart is the `node_progress` finding. The `evm_commit_fault` run shows that the assumption is needed.

The strengthening `IInv` adds three conjuncts:

- `PointersValid`: while running, `e.stateDB` names an instance;
- `StateManagerOpen`: while running, `sm.stateDB` is not nil. Without faults the fallback never leaves it nil;
- `CommittedInstance`: after SaveStateCommit, `sm.stateDB` is a committed instance distinct from the executor's, and `root` is its content.

The last conjunct is what makes CommitAppHash safe. FundAccount, from a REST goroutine, may still change the executor's instance, but not the one whose root CommitAppHash records. Start is enabled only at a root in `DiskRoots`, and Start and Crash set `trieDB` to `DiskRoots`, so the metadata root is in `trieDB` after them.

**Lemmas:**

- `OpenFacts` (Append) and `ApplyFacts` (an effect applied to one instance) carry the sequence reasoning;
- `RootFacts` gives the value of GetRootHash;
- `SaveStateCommitNoFault` says that without faults SaveStateCommit takes its success branch.

IInv was checked with TLC on the `evm_crash` instance before it was proved.

`EVMTypeOK` proves `Spec => []TypeOK` for both values of StorageFaults. The strengthening is `TInv == TypeOK /\ PointersValid`: the actions index `objs` with `exDB`, and with `smDB` when it is not nil. It was checked with TLC on the fault instance. SaveStateCommit has four cases, one per outcome:

- reload at the new root;
- fallback to a new trie database at the metadata root;
- fallback leaving sm.stateDB nil;
- early return.

`RefinesCommittedRoots` proves `Spec => ImplementsCommittedRoots` under `~StorageFaults`, step by step:

- `InitRefines`: the initial state maps to CRInit with `Durable = DiskRoots`.
- `NextRefines`: under IInv, every step maps to a CommittedRoots step or a stutter.
  - SaveStateCommit is a Commit of `objs[smDB]`.
  - SaveStateMeta is a Record of `root`, which CommittedInstance places in the trie database.
  - CommitAppHash is a Report of GetRootHash, which is `objs[smDB]`, placed there by the same conjunct.
  - Start and Crash are Reopens.
  - Every other action leaves `trieDB`, `meta` and `appHash` alone.

### LedgerProofs.tla

`LedgerNoReplay` proves `LSpec => []NonceOrdered` under `TxFields` (every transaction has a sender in Senders and a natural nonce). It holds for every set of senders and transactions. The inductive invariant is `LInv == LTypeOK /\ NonceOrdered`. The lemma `AppendPositions` splits the positions of `Append(c, blk)` into the old ones, unchanged, and those of the new block. `AppendLInv` then has one case per pair of old and new positions:
- an old transaction is below the old nonce, which is at most both the new nonce and the new block's nonces;
- a new one is ordered and bounded by `SenderSlice`.

### ABCIAppProofs.tla

`ChainOrderedFromLedger` proves `Spec /\ ImplementsLedger => []ChainOrderedByNonce`. The `abci_txs` run shows `Spec => ImplementsLedger` on its instance; this theorem shows, for every value of the constants, that the refinement is enough for replay protection. `LP == INSTANCE LedgerProofs` with the same mapping gives the ledger invariant over `LedgerChain`. `AppShape` (phase is Idle or Finalized, and the stored chain is a sequence of blocks) is proved from it: after Commit the stored chain is the ledger chain. `OrderedFromLedger` shows that the stored chain is a prefix of the ledger chain, so its positions, transactions and order are the ledger's. `NonceAssumption` (MaxNonce is a natural) gives TxFields for ABCIApp's `Tx`.

### What stays with TLC

- Liveness: AllCallsReturn (and NodeProgress, which TLC finds violated). TLAPS does not reason about liveness under fairness or about ENABLED.
- `Spec => ImplementsLedger` (and so ChainOrderedByNonce from Spec alone). Stepping ABCIApp's FinalizeBlock to AppendBlock needs what `ExecTxs`, a recursive function over the block's transaction list, computes for every list. That is induction over data: the library's induction theorems take an operator parameter, which the installed provers cannot instantiate. Without that theorem, tlapm cannot even unfold the recursive function once.
- The violation runs, whose counterexamples TLC finds.

## 5. Plan for the next modules

1. **Admission.** CheckTx, validateTransactionComplete and PrepareProposal against CometBFT's mempool (modelled from its documented behaviour): future nonces admitted and then failing, the missing (from, nonce) ordering of spec 4.F, and head-of-line blocking at MaxTxBytes.
2. **InitChain on restart.** Re-initialising genesis validators when none is active.
3. **Proof of the Ledger refinement.** This needs induction over the transaction list (see "What stays with TLC"); it stays model-checked unless the provers gain that.

## 6. Not modelled

These parts are left out:

- the go-ethereum interpreter;
- storage, P2P, config, logging and metrics, whose code is not in the repository;
- HTTP formatting and the read-only REST handlers;
- the HealthChecker: main writes it only during start-up, before the REST server starts, and afterwards it is only read, so there is no interleaving to check;
- the geth trie internals: a trie database is modelled by the set of roots it can open. A new one over Pebble opens only the empty root (`DiskRoots`), since `triedb.Commit` is never called;
- SaveStateAtHeight/LoadStateAtHeight, which nothing calls;
- Pebble's wipe of `evm_state` on an open failure (`state.go:58`), listed as a hazard;
- the ValidatorSet writers inside the block cycle: no node code calls them (`ValidatorSet` and `ValidatorLocks` model them on their own);
- the tests and the launch scripts.

Their reasons are given per component in `PROJECT.json`.
