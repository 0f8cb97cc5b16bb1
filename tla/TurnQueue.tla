----------------------------- MODULE TurnQueue -----------------------------
(***************************************************************************)
(* The FIFO turn queue of packages/proxy-lib/src/turn-queue.ts.             *)
(*                                                                         *)
(* There is no queue in the code: enqueueTurn(fn) chains fn onto the       *)
(* module's tail promise (run = tail.then(fn, fn)) and makes the settled   *)
(* run the new tail.  after[j] is the turn whose settlement starts j.      *)
(* That this chain behaves as a queue is what SerialQueue and the          *)
(* properties below say.                                                   *)
(***************************************************************************)
EXTENDS Integers, FiniteSets, Sequences

CONSTANTS
  Calls,   \* calls of enqueueTurn, each made at most once
  Root     \* the promise the module starts with, already resolved

ASSUME QueueAssumption ==
  /\ IsFiniteSet(Calls)
  /\ Root \notin Calls

VARIABLES
  tail,      \* the turn whose settled promise is the module's tail
  after,     \* the promise each enqueued turn was chained on
  phase,     \* where each turn is
  bypassed,  \* the turns that found M365_NO_TURN_QUEUE=1 when they called
  rejected,  \* the turns whose fn rejected
  waiting,   \* the module's counter
  arrivals   \* history: the turns in the order they were enqueued

chainVars == <<tail, after, phase, bypassed, rejected, waiting, arrivals>>

\* A "settled" turn has not run its finally handler yet, a "gone" one has.
Over == {"settled", "gone"}
Begun == {"running"} \cup Over

Uncounted == {j \in Calls \ bypassed : phase[j] \in {"chained", "running", "settled"}}

QueueTypeOK ==
  /\ tail \in Calls \cup {Root}
  /\ after \in [Calls -> Calls \cup {Root}]
  /\ phase \in [Calls -> {"new", "chained"} \cup Begun]
  /\ bypassed \in SUBSET Calls
  /\ rejected \in SUBSET Calls
  /\ waiting \in Int
  /\ arrivals \in Seq(Calls)

QueueInit ==
  /\ tail = Root
  /\ after = [j \in Calls |-> Root]
  /\ phase = [j \in Calls |-> "new"]
  /\ bypassed = {}
  /\ rejected = {}
  /\ waiting = 0
  /\ arrivals = <<>>
-----------------------------------------------------------------------------
\* enqueueTurn(fn) while the queue is on.
EnqueueTurn(j) ==
  /\ phase[j] = "new"
  /\ phase' = [phase EXCEPT ![j] = "chained"]
  /\ after' = [after EXCEPT ![j] = tail]
  /\ tail' = j
  /\ waiting' = waiting + 1
  /\ arrivals' = Append(arrivals, j)
  /\ UNCHANGED <<bypassed, rejected>>

\* enqueueTurn(fn) with M365_NO_TURN_QUEUE=1, which is read at every call: fn
\* runs at once and its promise is the caller's, neither chained nor counted.
RunAtOnce(j) ==
  /\ phase[j] = "new"
  /\ phase' = [phase EXCEPT ![j] = "running"]
  /\ bypassed' = bypassed \cup {j}
  /\ UNCHANGED <<tail, after, rejected, waiting, arrivals>>

\* The promise j is chained on has settled; both its outcomes call fn.
Released_NotLast(j) == after[j] # Root => phase[after[j]] \in Begun
Released_OnSuccess(j) ==
  after[j] # Root => phase[after[j]] \in Over /\ after[j] \notin rejected
Released(j) == after[j] # Root => phase[after[j]] \in Over

Start(j) ==
  /\ phase[j] = "chained"
  /\ Released(j)
  /\ phase' = [phase EXCEPT ![j] = "running"]
  /\ UNCHANGED <<tail, after, bypassed, rejected, waiting, arrivals>>

\* fn's promise settles, ok or not.
Settle(j, ok) ==
  /\ phase[j] = "running"
  /\ phase' = [phase EXCEPT ![j] = IF j \in bypassed THEN "gone" ELSE "settled"]
  /\ rejected' = IF ok THEN rejected ELSE rejected \cup {j}
  /\ UNCHANGED <<tail, after, bypassed, waiting, arrivals>>

\* run.finally(() => { waiting -= 1 }).
Uncount_WhenResolved(j) ==
  /\ phase[j] = "settled"
  /\ phase' = [phase EXCEPT ![j] = "gone"]
  /\ waiting' = IF j \in rejected THEN waiting ELSE waiting - 1
  /\ UNCHANGED <<tail, after, bypassed, rejected, arrivals>>

Uncount(j) ==
  /\ phase[j] = "settled"
  /\ phase' = [phase EXCEPT ![j] = "gone"]
  /\ waiting' = waiting - 1
  /\ UNCHANGED <<tail, after, bypassed, rejected, arrivals>>

QueueNext ==
  \E j \in Calls : \/ EnqueueTurn(j)
                   \/ RunAtOnce(j)
                   \/ Start(j)
                   \/ \E ok \in BOOLEAN : Settle(j, ok)
                   \/ Uncount(j)

QueueSpec == QueueInit /\ [][QueueNext]_chainVars

\* Microtasks run, and every fn settles.
QueueFairness ==
  \A j \in Calls : /\ WF_chainVars(Start(j))
                   /\ WF_chainVars(\E ok \in BOOLEAN : Settle(j, ok))
                   /\ WF_chainVars(Uncount(j))

FairQueueSpec == QueueSpec /\ QueueFairness
-----------------------------------------------------------------------------
(* Properties. *)

\* The chain of promises implements the abstract queue: one turn at a time,
\* in arrival order (turn-queue.ts:20-21), whoever bypasses it meanwhile.
\* A turn that bypasses it is no turn of the queue.
Serial ==
  INSTANCE SerialQueue WITH
    Turns <- Calls,
    order <- arrivals,
    state <- [j \in Calls |-> IF j \in bypassed \/ phase[j] = "new" THEN "absent"
                             ELSE IF phase[j] = "chained" THEN "waiting"
                             ELSE IF phase[j] = "running" THEN "active" ELSE "over"]
ImplementsSerialQueue == Serial!Spec

\* The invariant the refinement rests on: the promises form one line in
\* arrival order, its end is the tail, and whoever has begun has only turns
\* that are over before it; the counter counts those whose finally handler is
\* still to come (turn-queue.ts:27-35).
ChainInv ==
  /\ QueueTypeOK
  /\ \A j \in bypassed : phase[j] \in {"running", "gone"}
  /\ \A j \in Calls : (phase[j] # "new" /\ j \notin bypassed) <=>
       \E n \in DOMAIN arrivals : arrivals[n] = j
  /\ \A m, n \in DOMAIN arrivals : arrivals[m] = arrivals[n] => m = n
  /\ tail = IF arrivals = <<>> THEN Root ELSE arrivals[Len(arrivals)]
  /\ \A n \in DOMAIN arrivals :
       after[arrivals[n]] = IF n = 1 THEN Root ELSE arrivals[n - 1]
  /\ \A n \in DOMAIN arrivals : phase[arrivals[n]] \in Begun =>
       \A m \in 1..(n - 1) : phase[arrivals[m]] \in Over
  /\ waiting = Cardinality(Uncounted)

\* A turn that was enqueued gets its run and leaves the counter, whatever
\* became of the turns before it: a rejection "never poisons the chain".
EveryTurnRuns == \A j \in Calls : phase[j] = "chained" ~> phase[j] = "gone"
=============================================================================
