----------------------------- MODULE RateLimiter -----------------------------
(***************************************************************************)
(* The REST server's rate-limit middleware (rest_server.go,                *)
(* rateLimitMiddleware): a token bucket per r.RemoteAddr kept in a plain   *)
(* Go map shared by every request.  net/http serves each request on its    *)
(* own goroutine, so the handler closures run concurrently.                *)
(*                                                                         *)
(* A map access is not atomic: a lookup (store[ip]) and an insert          *)
(* (store[ip] = b) each take a step to begin and a step to end, so another *)
(* goroutine can act in between.  Time is whole seconds; Rps tokens come  *)
(* back per second, up to Burst.                                           *)
(***************************************************************************)
EXTENDS Integers, FiniteSets

CONSTANTS
  Requests,   \* HTTP requests, each on its own goroutine (model values)
  Addrs,      \* values of r.RemoteAddr ("ip:port")
  Burst,      \* OXY_REST_BURST
  Rps,        \* OXY_REST_RATE_LIMIT_RPS
  MaxTime     \* seconds a run lasts

VARIABLES
  pc,        \* where each request's goroutine is
  ip,        \* ip := r.RemoteAddr of each request
  seen,      \* now := time.Now() of each request
  store,     \* the map: RemoteAddr -> [tokens, lastRefill]
  now        \* the wall clock

vars == <<pc, ip, seen, store, now>>

Labels == {"Arrive", "Lookup", "Reading", "Inserting", "Refill", "Check",
           "Take", "Served", "Rejected"}

(* Tokens go negative when requests overtake each other (see Refill, Take). *)
Bucket == [tokens: -(MaxTime * Rps + Cardinality(Requests))..Burst, lastRefill: 0..MaxTime]

TypeOK ==
  /\ pc \in [Requests -> Labels]
  /\ ip \in [Requests -> Addrs] /\ seen \in [Requests -> 0..MaxTime]
  /\ DOMAIN store \subseteq Addrs /\ \A a \in DOMAIN store : store[a] \in Bucket
  /\ now \in 0..MaxTime

Init ==
  /\ pc = [r \in Requests |-> "Arrive"]
  /\ ip \in [Requests -> Addrs]
  /\ seen = [r \in Requests |-> 0]
  /\ store = [a \in {} |-> 0]
  /\ now = 0

Goto(r, l) == pc' = [pc EXCEPT ![r] = l]

(* A request reaches the middleware (after maxBodyMiddleware). *)
Arrive(r) ==
  /\ pc[r] = "Arrive" /\ Goto(r, "Lookup")
  /\ UNCHANGED <<ip, seen, store, now>>

(* b, ok := store[ip]: the map read begins ... *)
Lookup(r) ==
  /\ pc[r] = "Lookup" /\ Goto(r, "Reading")
  /\ UNCHANGED <<ip, seen, store, now>>

(***************************************************************************)
(* ... and ends; now := time.Now().  A missing bucket is created full and *)
(* the map write store[ip] = b begins.                                     *)
(***************************************************************************)
ReadDone(r) ==
  /\ pc[r] = "Reading"
  /\ seen' = [seen EXCEPT ![r] = now]
  /\ Goto(r, IF ip[r] \in DOMAIN store THEN "Refill" ELSE "Inserting")
  /\ UNCHANGED <<ip, store, now>>

(* The map write ends: the new bucket is in the map. *)
InsertDone(r) ==
  /\ pc[r] = "Inserting"
  /\ store' = [a \in DOMAIN store \cup {ip[r]} |->
                 IF a = ip[r] THEN [tokens |-> Burst, lastRefill |-> seen[r]]
                              ELSE store[a]]
  /\ Goto(r, "Refill")
  /\ UNCHANGED <<ip, seen, now>>

(***************************************************************************)
(* tokens = minFloat(burst, tokens + elapsed*rps); lastRefill = now.       *)
(* elapsed is negative when a request that read the clock later has       *)
(* refilled the same bucket first.                                         *)
(***************************************************************************)
Refill(r) ==
  /\ pc[r] = "Refill"
  /\ LET b == store[ip[r]]
         t == b.tokens + (seen[r] - b.lastRefill) * Rps
     IN  store' = [store EXCEPT ![ip[r]] =
                     [tokens |-> IF t < Burst THEN t ELSE Burst, lastRefill |-> seen[r]]]
  /\ Goto(r, "Check")
  /\ UNCHANGED <<ip, seen, now>>

(* if b.tokens < 1: 429 Too Many Requests. *)
Check(r) ==
  /\ pc[r] = "Check"
  /\ Goto(r, IF store[ip[r]].tokens < 1 THEN "Rejected" ELSE "Take")
  /\ UNCHANGED <<ip, seen, store, now>>

(* b.tokens -= 1; the request goes on to the CORS middleware and the mux. *)
Take(r) ==
  /\ pc[r] = "Take"
  /\ store' = [store EXCEPT ![ip[r]].tokens = @ - 1]
  /\ Goto(r, "Served")
  /\ UNCHANGED <<ip, seen, now>>

Tick ==
  /\ now < MaxTime /\ now' = now + 1
  /\ UNCHANGED <<pc, ip, seen, store>>

Next ==
  \/ Tick
  \/ \E r \in Requests :
       Arrive(r) \/ Lookup(r) \/ ReadDone(r) \/ InsertDone(r)
         \/ Refill(r) \/ Check(r) \/ Take(r)

Spec == Init /\ [][Next]_vars

-----------------------------------------------------------------------------
(***************************************************************************)
(* Go maps are not safe for concurrent use: while one goroutine writes     *)
(* the bucket map no other goroutine may read or write it (otherwise the   *)
(* runtime aborts the whole process with "concurrent map read and map      *)
(* write").  The middleware's store[ip] lookups and inserts must never     *)
(* overlap.                                                                *)
(***************************************************************************)
NoMapRace ==
  \A r, q \in Requests :
    r # q /\ pc[r] = "Inserting" => pc[q] \notin {"Reading", "Inserting"}
=============================================================================
