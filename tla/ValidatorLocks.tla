---------------------------- MODULE ValidatorLocks ----------------------------
(***************************************************************************)
(* The lock protocol of ValidatorSet (src/go/internal/consensus/           *)
(* validators.go) over Go's sync.RWMutex vs.mutex.                         *)
(*                                                                         *)
(* Each goroutine runs a fixed list of ValidatorSet method calls.  A call  *)
(* is the sequence of lock operations its body performs; the data it reads *)
(* and writes is abstracted (ValidatorSet models it).  sync.RWMutex is     *)
(* modelled with its writer preference: Lock first takes the internal      *)
(* writer mutex and announces itself, which stops new RLocks, and then     *)
(* waits for the readers already inside to leave.  The mutex is not        *)
(* reentrant: an RLock by the goroutine that holds the write lock blocks.  *)
(***************************************************************************)
EXTENDS Naturals, Sequences

CONSTANTS
  Threads,        \* goroutines calling into the ValidatorSet
  Program,        \* Program[t]: the method calls goroutine t makes, in order
  NoThread        \* no goroutine

(* The methods of ValidatorSet, grouped by how they use vs.mutex. *)
SavingWriters ==
  {"RegisterValidator", "Stake", "Unstake", "Slash", "Unjail"}
PlainWriters ==
  {"UpdateValidatorActivity", "RotateValidators", "LoadValidators"}
Readers ==
  {"GetValidators", "GetActiveValidators", "GetValidator",
   "ToCometBFTValidators", "SaveValidators"}
Methods ==
  SavingWriters \cup PlainWriters \cup Readers \cup {"InitializeGenesisValidators"}

ASSUME ProgramAssumption ==
  /\ NoThread \notin Threads
  /\ Program \in [Threads -> Seq(Methods)]

VARIABLES
  writer,         \* goroutine owning the writer side of vs.mutex, or NoThread
  wheld,          \* TRUE once that writer has the lock (readers drained)
  readers,        \* goroutines holding a read lock
  call,           \* call[t]: how many calls of Program[t] have been started
  ops             \* ops[t]: the lock operations left in the current call

vars == <<writer, wheld, readers, call, ops>>

(***************************************************************************)
(* The lock operations of one call.  A saving writer (Register, Stake,     *)
(* Unstake, Slash, Unjail) returns early with an error under its deferred  *)
(* Unlock, or on success calls SaveValidators while it still holds the     *)
(* lock; SaveValidators takes RLock.                                       *)
(***************************************************************************)
SavingWriterOps ==
  { <<"Lock", "Unlock">>,
    <<"Lock", "RLock", "RUnlock", "Unlock">> }

(* UpdateValidatorActivity, RotateValidators, LoadValidators: Lock..Unlock. *)
PlainWriterOps == { <<"Lock", "Unlock">> }

(* The getters and SaveValidators called on its own: RLock..RUnlock. *)
ReaderOps == { <<"RLock", "RUnlock">> }

(***************************************************************************)
(* InitializeGenesisValidators written like the saving writers, saving     *)
(* under its own Lock (the form its comment at validators.go:625 warns     *)
(* against).                                                               *)
(***************************************************************************)
GenesisOpsSavingUnderLock == { <<"Lock", "RLock", "RUnlock", "Unlock">> }

(***************************************************************************)
(* InitializeGenesisValidators unlocks explicitly before it calls          *)
(* SaveValidators.                                                         *)
(***************************************************************************)
GenesisOps == { <<"Lock", "Unlock", "RLock", "RUnlock">> }

CallOps(m) ==
  CASE m \in SavingWriters -> SavingWriterOps
    [] m \in PlainWriters  -> PlainWriterOps
    [] m \in Readers       -> ReaderOps
    [] OTHER               -> GenesisOps

Init ==
  /\ writer = NoThread
  /\ wheld = FALSE
  /\ readers = {}
  /\ call = [t \in Threads |-> 0]
  /\ ops = [t \in Threads |-> <<>>]

Pending(t, o) == ops[t] # <<>> /\ Head(ops[t]) = o

(* Goroutine t enters its next method call. *)
BeginCall(t) ==
  /\ ops[t] = <<>>
  /\ call[t] < Len(Program[t])
  /\ call' = [call EXCEPT ![t] = @ + 1]
  /\ \E seq \in CallOps(Program[t][call[t] + 1]) : ops' = [ops EXCEPT ![t] = seq]
  /\ UNCHANGED <<writer, wheld, readers>>

(* rw.w.Lock() and the announcement that stops new readers. *)
LockAnnounce(t) ==
  /\ Pending(t, "Lock")
  /\ writer = NoThread
  /\ writer' = t
  /\ UNCHANGED <<wheld, readers, call, ops>>

(* The announced writer proceeds once the readers inside have left. *)
LockAcquire(t) ==
  /\ Pending(t, "Lock")
  /\ writer = t
  /\ readers = {}
  /\ wheld' = TRUE
  /\ ops' = [ops EXCEPT ![t] = Tail(@)]
  /\ UNCHANGED <<writer, readers, call>>

Unlock(t) ==
  /\ Pending(t, "Unlock")
  /\ writer' = NoThread
  /\ wheld' = FALSE
  /\ ops' = [ops EXCEPT ![t] = Tail(@)]
  /\ UNCHANGED <<readers, call>>

(* RLock blocks while a writer is announced or holds the lock. *)
RLock(t) ==
  /\ Pending(t, "RLock")
  /\ writer = NoThread
  /\ readers' = readers \cup {t}
  /\ ops' = [ops EXCEPT ![t] = Tail(@)]
  /\ UNCHANGED <<writer, wheld, call>>

RUnlock(t) ==
  /\ Pending(t, "RUnlock")
  /\ readers' = readers \ {t}
  /\ ops' = [ops EXCEPT ![t] = Tail(@)]
  /\ UNCHANGED <<writer, wheld, call>>

Finished(t) == ops[t] = <<>> /\ call[t] = Len(Program[t])

(* Every goroutine has returned from its last call. *)
Terminated ==
  /\ \A t \in Threads : Finished(t)
  /\ UNCHANGED vars

Next ==
  \/ \E t \in Threads :
       \/ BeginCall(t)
       \/ LockAnnounce(t)
       \/ LockAcquire(t)
       \/ Unlock(t)
       \/ RLock(t)
       \/ RUnlock(t)
  \/ Terminated

(***************************************************************************)
(* Fairness: a runnable goroutine keeps running, and the lock is granted   *)
(* to a goroutine that keeps asking for it (sync.Mutex switches to its     *)
(* FIFO starvation mode after 1ms, so no waiter is passed over forever).   *)
(***************************************************************************)
Fairness ==
  \A t \in Threads :
    /\ WF_vars(BeginCall(t) \/ Unlock(t) \/ RUnlock(t))
    /\ SF_vars(LockAnnounce(t))
    /\ SF_vars(LockAcquire(t))
    /\ SF_vars(RLock(t))

Spec == Init /\ [][Next]_vars /\ Fairness

-----------------------------------------------------------------------------
TypeOK ==
  /\ writer \in Threads \cup {NoThread}
  /\ wheld \in BOOLEAN
  /\ readers \subseteq Threads
  /\ call \in [Threads -> Nat]
  /\ ops \in [Threads -> Seq({"Lock", "Unlock", "RLock", "RUnlock"})]

(***************************************************************************)
(* Every method call returns: no goroutine waits forever on vs.mutex, in   *)
(* particular none waits on a lock it holds itself (SaveValidators' RLock  *)
(* under the Lock of the calling method).                                  *)
(***************************************************************************)
AllCallsReturn == \A t \in Threads : <>Finished(t)
=============================================================================
