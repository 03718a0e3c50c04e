---------------------------- MODULE EVMStateProofs ----------------------------
(***************************************************************************)
(* Proofs about EVMState for every number of blocks, FundAccount calls and *)
(* crashes.  When the trie database's I/O does not fail, the root the      *)
(* storage metadata records is, while the process runs, one the live trie *)
(* database holds, and SaveState/Commit refine CommittedRoots.  meta \in   *)
(* trieDB is not inductive alone: CommitAppHash writes sm.stateDB's root   *)
(* to the metadata without committing it, so the proof carries what       *)
(* SaveState leaves behind: sm.stateDB is a fresh instance at the root     *)
(* just committed, no longer the executor's instance, which FundAccount    *)
(* may still change.                                                       *)
(***************************************************************************)
EXTENDS EVMState, TLAPS

(* While the process runs, e.stateDB names an instance. *)
PointersValid ==
  running => exDB \in 1..Len(objs)

(* While the process runs, sm.stateDB is not nil (no LoadState fallback). *)
StateManagerOpen ==
  running => smDB \in 1..Len(objs)

(* After the trie commit, sm.stateDB is a committed, unshared instance. *)
CommittedInstance ==
  phase \in {"StateCommitted", "StateSaved"} =>
    /\ running /\ smDB # exDB /\ objs[smDB] \in trieDB
    /\ phase = "StateCommitted" => root = objs[smDB]

IInv ==
  /\ TypeOK /\ RecordedRootCommitted /\ PointersValid /\ StateManagerOpen
  /\ CommittedInstance

(* The strengthening of TypeOK, with or without storage faults. *)
TInv == TypeOK /\ PointersValid
-----------------------------------------------------------------------------
(* Opening an instance appends it and leaves the others as they were. *)
LEMMA OpenFacts ==
  ASSUME TypeOK, NEW r \in SUBSET Effects
  PROVE  /\ Open(r) \in Seq(SUBSET Effects)
         /\ Len(Open(r)) = NewIndex
         /\ Open(r)[NewIndex] = r
         /\ \A i \in 1..Len(objs) : Open(r)[i] = objs[i]
BY DEF TypeOK, Open, NewIndex

(* Adding an effect to one instance keeps the others and the length. *)
LEMMA ApplyFacts ==
  ASSUME TypeOK, NEW i \in 1..Len(objs), NEW e \in Effects
  PROVE  LET o == [objs EXCEPT ![i] = @ \cup {e}]
         IN  /\ o \in Seq(SUBSET Effects) /\ Len(o) = Len(objs)
             /\ \A j \in 1..Len(objs) \ {i} : o[j] = objs[j]
BY DEF TypeOK

(* The durable roots are contents, and sm.stateDB's root is one. *)
LEMMA RootFacts ==
  ASSUME TypeOK
  PROVE  /\ DiskRoots \subseteq SUBSET Effects /\ EmptyRoot \in DiskRoots
         /\ GetRootHash \in SUBSET Effects
         /\ smDB # 0 => GetRootHash = objs[smDB]
BY DEF TypeOK, DiskRoots, EmptyRoot, GetRootHash

(***************************************************************************)
(* With no I/O failure and sm.stateDB open, SaveStateCommit is the         *)
(* successful path: Commit, then reloadStateFromRoot at the new root.      *)
(***************************************************************************)
LEMMA SaveStateCommitNoFault ==
  ASSUME ~StorageFaults, StateManagerOpen, SaveStateCommit
  PROVE  /\ running /\ phase = "Finalized" /\ smDB \in 1..Len(objs)
         /\ trieDB' = trieDB \cup {objs[smDB]} /\ root' = objs[smDB]
         /\ objs' = Open(objs[smDB]) /\ smDB' = NewIndex
         /\ phase' = "StateCommitted"
         /\ UNCHANGED <<exDB, meta, appHash, running, blocks, funds, crashes>>
<1>1. running /\ phase = "Finalized" /\ smDB \in 1..Len(objs)
  BY DEF SaveStateCommit, StateManagerOpen
<1>2. smDB # 0
  BY <1>1
<1>3. QED
  BY <1>1, <1>2 DEF SaveStateCommit

LEMMA InitIInv == Init => IInv
<1> SUFFICES ASSUME Init PROVE IInv
  OBVIOUS
<1>1. TypeOK
  <2>1. running \in BOOLEAN
    BY DEF Init
  <2>2. QED
    BY <2>1, EVMStateAssumption DEF Init, TypeOK, Phases, DiskRoots, EmptyRoot
<1>2. QED
  BY <1>1 DEF Init, IInv, RecordedRootCommitted, PointersValid, StateManagerOpen,
             CommittedInstance

(***************************************************************************)
(* Every step keeps IInv when the trie database's I/O does not fail.       *)
(* Start and Crash leave only the durable roots, and Start opens the       *)
(* recorded root, which must be one of them; the block cycle and           *)
(* FundAccount write only the executor's instance; SaveStateCommit         *)
(* commits sm.stateDB's root before SaveStateMeta or CommitAppHash records *)
(* it.                                                                     *)
(***************************************************************************)
LEMMA NextIInv ==
  ASSUME ~StorageFaults
  PROVE  IInv /\ [Next]_vars => IInv'
<1> SUFFICES ASSUME IInv, [Next]_vars PROVE IInv'
  OBVIOUS
<1> USE EVMStateAssumption DEF IInv, RecordedRootCommitted, PointersValid,
                               StateManagerOpen, CommittedInstance
<1>0. TypeOK
  OBVIOUS
<1>1. CASE Start
  <2>1. meta \in SUBSET Effects /\ DiskRoots \subseteq SUBSET Effects
    BY <1>0, RootFacts DEF TypeOK
  <2>2. /\ objs' \in Seq(SUBSET Effects) /\ Len(objs') = NewIndex
        /\ smDB' = NewIndex /\ exDB' = NewIndex
        /\ running' = TRUE /\ phase' = "Idle"
        /\ meta \in DiskRoots /\ trieDB' = DiskRoots
        /\ UNCHANGED <<meta, root, appHash, blocks, funds, crashes>>
    BY <1>0, <1>1, <2>1, OpenFacts DEF Start
  <2>3. NewIndex \in Nat \ {0}
    BY <1>0 DEF TypeOK, NewIndex
  <2>4. running' \in BOOLEAN
    BY <2>2, Zenon
  <2>5. QED
    BY <2>1, <2>2, <2>3, <2>4, <1>0 DEF TypeOK, Phases
<1>2. CASE FinalizeBlock
  <2>1. PICK changes \in BOOLEAN :
          objs' = IF changes THEN [objs EXCEPT ![exDB] = @ \cup {TxEffect(blocks + 1)}]
                             ELSE objs
    BY <1>2 DEF FinalizeBlock
  <2>2. /\ running /\ phase = "Idle" /\ blocks < MaxBlocks
        /\ blocks' = blocks + 1 /\ phase' = "Finalized"
        /\ UNCHANGED <<smDB, exDB, trieDB, meta, root, appHash, running, funds, crashes>>
    BY <1>2 DEF FinalizeBlock
  <2>3. TxEffect(blocks + 1) \in Effects
    BY <1>0, <2>2 DEF TypeOK, Effects
  <2>4. objs' \in Seq(SUBSET Effects) /\ Len(objs') = Len(objs)
    BY <1>0, <2>1, <2>2, <2>3, ApplyFacts
  <2>5. QED
    BY <1>0, <2>2, <2>4 DEF TypeOK, Phases
<1>3. CASE FundAccount
  <2>1. /\ running /\ funds < MaxFunds
        /\ objs' = [objs EXCEPT ![exDB] = @ \cup {FundEffect(funds + 1)}]
        /\ funds' = funds + 1
        /\ UNCHANGED <<smDB, exDB, trieDB, meta, root, appHash, running, phase, blocks, crashes>>
    BY <1>3 DEF FundAccount
  <2>2. FundEffect(funds + 1) \in Effects
    BY <1>0, <2>1 DEF TypeOK, Effects
  <2>3. /\ objs' \in Seq(SUBSET Effects) /\ Len(objs') = Len(objs)
        /\ \A j \in 1..Len(objs) \ {exDB} : objs'[j] = objs[j]
    BY <1>0, <2>1, <2>2, ApplyFacts
  <2>4. QED
    BY <1>0, <2>1, <2>3 DEF TypeOK
<1>4. CASE SaveStateCommit
  <2> DEFINE r == objs[smDB]
  <2>1. /\ running /\ phase = "Finalized" /\ smDB \in 1..Len(objs)
        /\ trieDB' = trieDB \cup {r} /\ root' = r
        /\ objs' = Open(r) /\ smDB' = NewIndex /\ phase' = "StateCommitted"
        /\ UNCHANGED <<exDB, meta, appHash, running, blocks, funds, crashes>>
    BY <1>4, SaveStateCommitNoFault
  <2>2. r \in SUBSET Effects
    BY <1>0, <2>1 DEF TypeOK
  <2>3. /\ objs' \in Seq(SUBSET Effects) /\ Len(objs') = NewIndex
        /\ objs'[NewIndex] = r
    BY <1>0, <2>1, <2>2, OpenFacts
  <2>4. exDB \in 1..Len(objs) /\ NewIndex = Len(objs) + 1
    BY <2>1 DEF NewIndex
  <2>5. QED
    BY <1>0, <2>1, <2>2, <2>3, <2>4 DEF TypeOK, Phases
<1>5. CASE SaveStateMeta
  BY <1>0, <1>5 DEF SaveStateMeta, TypeOK, Phases
<1>6. CASE CommitAppHash
  <2>1. /\ running /\ phase = "StateSaved" /\ smDB \in 1..Len(objs)
        /\ appHash' = GetRootHash /\ meta' = GetRootHash /\ phase' = "Idle"
        /\ UNCHANGED <<objs, smDB, exDB, trieDB, root, running, blocks, funds, crashes>>
    BY <1>6 DEF CommitAppHash
  <2>2. GetRootHash = objs[smDB] /\ GetRootHash \in SUBSET Effects
    BY <1>0, <2>1, RootFacts
  <2>3. QED
    BY <1>0, <2>1, <2>2 DEF TypeOK, Phases
<1>7. CASE Crash
  <2>1. /\ running' = FALSE /\ smDB' = 0 /\ exDB' = 0 /\ phase' = "Idle"
        /\ crashes' \in 0..MaxCrashes /\ trieDB' = DiskRoots
        /\ UNCHANGED <<objs, meta, root, appHash, blocks, funds>>
    BY <1>0, <1>7 DEF Crash, TypeOK
  <2>2. running' \in BOOLEAN
    BY <2>1, Zenon
  <2>3. QED
    BY <1>0, <2>1, <2>2, RootFacts DEF TypeOK, Phases
<1>8. CASE Done \/ UNCHANGED vars
  BY <1>0, <1>8 DEF Done, vars, TypeOK
<1>9. QED
  BY <1>1, <1>2, <1>3, <1>4, <1>5, <1>6, <1>7, <1>8 DEF Next

(***************************************************************************)
(* StateManager.SaveState hands sm.stateDB's trie nodes to the live trie   *)
(* database before any root reaches the storage metadata, and              *)
(* CommitAppHash records the root of that same, unshared instance: with no *)
(* I/O failure, while the process runs the recorded root is always one the *)
(* live trie database can open.                                            *)
(***************************************************************************)
THEOREM RootCommittedHolds ==
  ASSUME ~StorageFaults
  PROVE  Spec => []RecordedRootCommitted
<1>1. Spec => []IInv
  BY InitIInv, NextIInv, PTL DEF Spec
<1>2. IInv => RecordedRootCommitted
  BY DEF IInv
<1>3. QED
  BY <1>1, <1>2, PTL
(***************************************************************************)
(* TInv holds initially and every step keeps it, with or without storage   *)
(* faults.  The step that needs care is SaveStateCommit, whose four       *)
(* outcomes (reload at the new root, LoadState's fallback at the recorded  *)
(* root, the fallback leaving sm.stateDB nil, early return) each leave     *)
(* sm.stateDB naming an instance or nil, never a dangling index.           *)
(***************************************************************************)
LEMMA InitTInv == Init => TInv
BY InitIInv DEF IInv, TInv

LEMMA NextTInv == TInv /\ [Next]_vars => TInv'
<1> SUFFICES ASSUME TInv, [Next]_vars PROVE TInv'
  OBVIOUS
<1> USE EVMStateAssumption DEF TInv, PointersValid
<1>0. TypeOK
  OBVIOUS
<1>1. CASE Start
  <2>1. meta \in SUBSET Effects /\ DiskRoots \subseteq SUBSET Effects
    BY <1>0, RootFacts DEF TypeOK
  <2>2. /\ objs' \in Seq(SUBSET Effects) /\ Len(objs') = NewIndex
        /\ smDB' = NewIndex /\ exDB' = NewIndex
        /\ running' = TRUE /\ phase' = "Idle" /\ trieDB' = DiskRoots
        /\ UNCHANGED <<meta, root, appHash, blocks, funds, crashes>>
    BY <1>0, <1>1, <2>1, OpenFacts DEF Start
  <2>3. NewIndex \in Nat \ {0}
    BY <1>0 DEF TypeOK, NewIndex
  <2>4. running' \in BOOLEAN
    BY <2>2, Zenon
  <2>5. QED
    BY <2>1, <2>2, <2>3, <2>4, <1>0 DEF TypeOK, Phases
<1>2. CASE FinalizeBlock
  <2>1. PICK changes \in BOOLEAN :
          objs' = IF changes THEN [objs EXCEPT ![exDB] = @ \cup {TxEffect(blocks + 1)}]
                             ELSE objs
    BY <1>2 DEF FinalizeBlock
  <2>2. /\ running /\ blocks < MaxBlocks
        /\ blocks' = blocks + 1 /\ phase' = "Finalized"
        /\ UNCHANGED <<smDB, exDB, trieDB, meta, root, appHash, running, funds, crashes>>
    BY <1>2 DEF FinalizeBlock
  <2>3. TxEffect(blocks + 1) \in Effects
    BY <1>0, <2>2 DEF TypeOK, Effects
  <2>4. objs' \in Seq(SUBSET Effects) /\ Len(objs') = Len(objs)
    BY <1>0, <2>1, <2>2, <2>3, ApplyFacts
  <2>5. QED
    BY <1>0, <2>2, <2>4 DEF TypeOK, Phases
<1>3. CASE FundAccount
  <2>1. /\ running /\ funds < MaxFunds
        /\ objs' = [objs EXCEPT ![exDB] = @ \cup {FundEffect(funds + 1)}]
        /\ funds' = funds + 1
        /\ UNCHANGED <<smDB, exDB, trieDB, meta, root, appHash, running, phase, blocks, crashes>>
    BY <1>3 DEF FundAccount
  <2>2. FundEffect(funds + 1) \in Effects
    BY <1>0, <2>1 DEF TypeOK, Effects
  <2>3. objs' \in Seq(SUBSET Effects) /\ Len(objs') = Len(objs)
    BY <1>0, <2>1, <2>2, ApplyFacts
  <2>4. QED
    BY <1>0, <2>1, <2>3 DEF TypeOK
<1>4. CASE SaveStateCommit
  <2> DEFINE r == objs[smDB]
  <2>1. running /\ meta \in SUBSET Effects /\ DiskRoots \subseteq SUBSET Effects
    BY <1>0, <1>4, RootFacts DEF SaveStateCommit, TypeOK
  <2>2. UNCHANGED <<exDB, meta, appHash, running, blocks, funds, crashes>>
    BY <1>4 DEF SaveStateCommit
  <2>3. NewIndex = Len(objs) + 1 /\ exDB \in 1..Len(objs)
    BY <2>1 DEF NewIndex
  <2>4. CASE /\ smDB # 0 /\ root' = r /\ phase' = "StateCommitted"
             /\ trieDB' = trieDB \cup {r}
             /\ objs' = Open(r) /\ smDB' = NewIndex
    <3>1. r \in SUBSET Effects
      BY <1>0, <2>4 DEF TypeOK
    <3>2. objs' \in Seq(SUBSET Effects) /\ Len(objs') = NewIndex
      BY <1>0, <2>4, <3>1, OpenFacts
    <3>3. QED
      BY <1>0, <2>1, <2>2, <2>3, <2>4, <3>1, <3>2 DEF TypeOK, Phases
  <2>5. CASE /\ smDB # 0 /\ root' = r /\ phase' = "StateCommitted"
             /\ trieDB' = DiskRoots
             /\ objs' = Open(meta) /\ smDB' = NewIndex
    <3>1. r \in SUBSET Effects
      BY <1>0, <2>5 DEF TypeOK
    <3>2. objs' \in Seq(SUBSET Effects) /\ Len(objs') = NewIndex
      BY <1>0, <2>1, <2>5, OpenFacts
    <3>3. QED
      BY <1>0, <2>1, <2>2, <2>3, <2>5, <3>1, <3>2 DEF TypeOK, Phases
  <2>6. CASE /\ smDB # 0 /\ root' = r /\ phase' = "StateCommitted"
             /\ trieDB' = trieDB \cup {r}
             /\ objs' = objs /\ smDB' = 0
    <3>1. r \in SUBSET Effects
      BY <1>0, <2>6 DEF TypeOK
    <3>2. QED
      BY <1>0, <2>1, <2>2, <2>6, <3>1 DEF TypeOK, Phases
  <2>7. CASE /\ phase' = "StateSaved"
             /\ UNCHANGED <<objs, smDB, trieDB, root>>
    BY <1>0, <2>1, <2>2, <2>7 DEF TypeOK, Phases
  <2>8. QED
    BY <1>4, <2>4, <2>5, <2>6, <2>7 DEF SaveStateCommit, LoadStateFallback
<1>5. CASE SaveStateMeta
  BY <1>0, <1>5 DEF SaveStateMeta, TypeOK, Phases
<1>6. CASE CommitAppHash
  <2>1. /\ appHash' = GetRootHash /\ meta' = GetRootHash /\ phase' = "Idle"
        /\ UNCHANGED <<objs, smDB, exDB, trieDB, root, running, blocks, funds, crashes>>
    BY <1>6 DEF CommitAppHash
  <2>2. GetRootHash \in SUBSET Effects
    BY <1>0, RootFacts
  <2>3. QED
    BY <1>0, <2>1, <2>2 DEF TypeOK, Phases
<1>7. CASE Crash
  <2>1. /\ running' = FALSE /\ smDB' = 0 /\ exDB' = 0 /\ phase' = "Idle"
        /\ crashes' \in 0..MaxCrashes /\ trieDB' = DiskRoots
        /\ UNCHANGED <<objs, meta, root, appHash, blocks, funds>>
    BY <1>0, <1>7 DEF Crash, TypeOK
  <2>2. running' \in BOOLEAN
    BY <2>1, Zenon
  <2>3. QED
    BY <1>0, <2>1, <2>2, RootFacts DEF TypeOK, Phases
<1>8. CASE Done \/ UNCHANGED vars
  BY <1>0, <1>8 DEF Done, vars, TypeOK
<1>9. QED
  BY <1>1, <1>2, <1>3, <1>4, <1>5, <1>6, <1>7, <1>8 DEF Next

(***************************************************************************)
(* Every reachable state of the executor and state manager is well typed,  *)
(* also when StateDB.Commit, the reload and LoadState fail.  The proof     *)
(* carries that e.stateDB names an instance while the process runs, so     *)
(* every write of ExecuteTransaction and AddBalance lands on one.          *)
(***************************************************************************)
THEOREM EVMTypeOK == Spec => []TypeOK
<1>1. TInv => TypeOK
  BY DEF TInv
<1>2. QED
  BY InitTInv, NextTInv, <1>1, PTL DEF Spec
-----------------------------------------------------------------------------
(* Initially the live trie database holds only the durable roots, and the *)
(* empty root is recorded and reported.                                    *)
LEMMA InitRefines == Init => CR!CRInit
BY DEF Init, CR!CRInit, DiskRoots

(***************************************************************************)
(* Every step of EVMState is a step of CommittedRoots or leaves trieDB,    *)
(* meta and appHash alone.  The two recording steps need IInv: the root    *)
(* SaveStateMeta writes, and sm.stateDB's root CommitAppHash writes, are   *)
(* in the trie database (CommittedInstance).  Start and Crash reopen.      *)
(***************************************************************************)
LEMMA NextRefines ==
  ASSUME ~StorageFaults
  PROVE  IInv /\ [Next]_vars => [CR!CRNext]_CR!crVars
<1> SUFFICES ASSUME IInv, [Next]_vars PROVE [CR!CRNext]_CR!crVars
  OBVIOUS
<1> USE DEF IInv, CommittedInstance
<1>1. CASE SaveStateCommit
  <2> DEFINE r == objs[smDB]
  <2>1. /\ trieDB' = trieDB \cup {r}
        /\ UNCHANGED <<meta, appHash>>
    BY <1>1, SaveStateCommitNoFault
  <2>2. CR!Commit
    BY <2>1 DEF CR!Commit
  <2>3. QED
    BY <2>2 DEF CR!CRNext
<1>2. CASE SaveStateMeta
  <2>1. /\ phase = "StateCommitted" /\ meta' = root /\ root = objs[smDB]
        /\ objs[smDB] \in trieDB
        /\ UNCHANGED <<trieDB, appHash>>
    BY <1>2 DEF SaveStateMeta
  <2>2. CR!Record
    BY <2>1 DEF CR!Record
  <2>3. QED
    BY <2>2 DEF CR!CRNext
<1>3. CASE CommitAppHash
  <2>1. /\ meta' = GetRootHash /\ appHash' = GetRootHash
        /\ smDB \in 1..Len(objs) /\ objs[smDB] \in trieDB
        /\ UNCHANGED trieDB
    BY <1>3 DEF CommitAppHash, StateManagerOpen
  <2>2. GetRootHash = objs[smDB]
    BY <2>1 DEF GetRootHash
  <2>3. CR!Report
    BY <2>1, <2>2 DEF CR!Report
  <2>4. QED
    BY <2>3 DEF CR!CRNext
<1>4. CASE Start \/ Crash
  <2>1. trieDB' = DiskRoots /\ UNCHANGED <<meta, appHash>>
    BY <1>4 DEF Start, Crash
  <2>2. CR!Reopen
    BY <2>1 DEF CR!Reopen
  <2>3. QED
    BY <2>2 DEF CR!CRNext
<1>5. CASE FinalizeBlock \/ FundAccount \/ Done \/ UNCHANGED vars
  BY <1>5 DEF FinalizeBlock, FundAccount, Done, vars, CR!crVars
<1>6. QED
  BY <1>1, <1>2, <1>3, <1>4, <1>5 DEF Next

(***************************************************************************)
(* When the trie database's I/O does not fail, StateManager.SaveState and  *)
(* ABCI Commit implement CommittedRoots: the root left in the metadata and *)
(* the app hash handed to CometBFT only ever move to roots the live trie   *)
(* database holds, and a crash or restart drops exactly the roots above    *)
(* the durable ones.                                                       *)
(***************************************************************************)
THEOREM RefinesCommittedRoots ==
  ASSUME ~StorageFaults
  PROVE  Spec => ImplementsCommittedRoots
<1>1. Spec => []IInv
  BY InitIInv, NextIInv, PTL DEF Spec
<1>2. QED
  BY <1>1, InitRefines, NextRefines, PTL DEF Spec, ImplementsCommittedRoots, CR!CRSpec
==============================================================================
