--------------------------- MODULE CommittedRoots ---------------------------
(***************************************************************************)
(* What the node's state persistence promises of the roots it records and  *)
(* reports (spec sections 5 and 9): the root recorded for the next start   *)
(* and the app hash reported to consensus are only ever roots the state    *)
(* database holds at that moment.  Durable is the set of roots storage     *)
(* keeps across a restart; committed roots above it live only as long as   *)
(* the database that holds them, and a Reopen drops them.  This is the     *)
(* abstract specification EVMState implements when no I/O fails.           *)
(***************************************************************************)
CONSTANT Durable   \* roots storage can open after a restart

VARIABLES
  committed,   \* roots the open state database holds
  recorded,    \* root a restart will open
  reported     \* root last reported to consensus as the app hash

crVars == <<committed, recorded, reported>>

CRInit ==
  /\ committed = Durable
  /\ recorded \in Durable
  /\ reported = recorded

(* One more root is committed. *)
Commit ==
  /\ \E r \in committed' : committed' = committed \cup {r}
  /\ UNCHANGED <<recorded, reported>>

(* The root for the next start moves to a committed root. *)
Record ==
  /\ recorded' \in committed
  /\ UNCHANGED <<committed, reported>>

(* A committed root is recorded and reported to consensus together. *)
Report ==
  /\ recorded' \in committed
  /\ reported' = recorded'
  /\ UNCHANGED committed

(* The state database is opened anew: only the durable roots remain. *)
Reopen ==
  /\ committed' = Durable
  /\ UNCHANGED <<recorded, reported>>

CRNext == Commit \/ Record \/ Report \/ Reopen

CRSpec == CRInit /\ [][CRNext]_crVars
=============================================================================
