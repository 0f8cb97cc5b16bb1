---------------------------- MODULE ToneRouting ----------------------------
(***************************************************************************)
(* How requests are routed by the breakers: rerouteIfOpen at the start of  *)
(* produceCompletion, the outcome runBuffered records, and the inline      *)
(* failover at its end (packages/proxy-lib/src/handler.ts).                *)
(*                                                                         *)
(* Failover is enabled and the profile allows it, which is the default of  *)
(* every profile.  Each request is made once; a bound on their number      *)
(* bounds the failure counters.                                            *)
(***************************************************************************)
EXTENDS ToneHealth

CONSTANTS
  Requests,
  Canonical,  \* resolveModel(name).canonicalModel
  Fallbacks   \* TONE_FALLBACKS: a sequence of models for every name

\* The table has canonical models only; an alias has no fallbacks.
ASSUME RoutingAssumption ==
  /\ Canonical \in [Names -> Names]
  /\ Fallbacks \in [Names -> Seq(Names)]
  /\ \A n \in Names :
       /\ Fallbacks[n] # <<>> => Canonical[n] = n
       /\ \A i \in DOMAIN Fallbacks[n] : Canonical[Fallbacks[n][i]] = Fallbacks[n][i]

VARIABLES
  requested,  \* body.model as the client sent it
  stage,      \* "new", "running", "search", "task" or "retry" (had content, a round of
              \* that loop follows), "outage" (failover not yet decided), "done"
  model,      \* the canonical model of the turn
  depth,      \* 1 for the inline failover
  admitted    \* history: the requests sent to a tone since its breaker opened
              \* although one of their fallbacks was healthy

\* The loops of a reply, each with those that may still follow one of its rounds.
Rounds == [running |-> {"search", "task", "retry", "done"},
           search |-> {"search", "task", "retry", "done"},
           task |-> {"task", "retry", "done"},
           retry |-> {"retry", "done"}]

Stages == {"new", "outage", "done"} \cup DOMAIN Rounds

requestVars == <<requested, stage, model, depth>>
vars == <<breaker, requestVars, admitted>>

TypeOK ==
  /\ breaker \in [Names -> BreakerStates]
  /\ requested \in [Requests -> Names] /\ model \in [Requests -> Names]
  /\ stage \in [Requests -> Stages]
  /\ depth \in [Requests -> {0, 1}]
  /\ admitted \in [Names -> Nat]

Init ==
  /\ breaker = [m \in Names |-> Closed]
  /\ requested \in [Requests -> Names]
  /\ model = requested
  /\ stage = [r \in Requests |-> "new"]
  /\ depth = [r \in Requests |-> 0]
  /\ admitted = [m \in Names |-> 0]
-----------------------------------------------------------------------------
\* alt is the first fallback of m that is not routed away.
IsFallback(b, m, alt) ==
  \E i \in DOMAIN Fallbacks[m] :
    /\ alt = Fallbacks[m][i] /\ ~RouteAway(b, alt)
    /\ \A j \in 1..(i - 1) : RouteAway(b, Fallbacks[m][j])

HasFallback(b, m) == \E alt \in Names : IsFallback(b, m, alt)

\* rerouteIfOpen: the name to use, the requested one when no fallback is healthy.
Rerouted(b, n, to) ==
  IF RouteAway(b, n) /\ HasFallback(b, n) THEN IsFallback(b, n, to) ELSE to = n

\* A request goes to the tone of m.  It counts for the breaker of that tone, whatever
\* breaker was asked, if it could have gone elsewhere and the tone is not closed.
SentTo(m, choice) ==
  admitted' = [admitted EXCEPT ![m] = IF choice /\ breaker[m].age # Shut THEN @ + 1 ELSE @]

\* A request starts: the breaker of the name it uses is asked first, then the
\* fallbacks in turn.  A name without a healthy fallback is used though its tone
\* is open, and an alias is asked about under its own name.
Begin(r) == \E to \in Names :
  /\ stage[r] = "new" /\ Rerouted(breaker, requested[r], to)
  /\ stage' = [stage EXCEPT ![r] = "running"]
  /\ model' = [model EXCEPT ![r] = Canonical[to]]
  /\ breaker' = Claimed(breaker, to)
  /\ SentTo(Canonical[to], HasFallback(breaker, requested[r]))
  /\ UNCHANGED <<requested, depth>>

\* A round of the request returns content; a tool search or a sub-agent may
\* call for another round.
Content(r) ==
  /\ stage[r] \in DOMAIN Rounds
  /\ \E s \in Rounds[stage[r]] : stage' = [stage EXCEPT ![r] = s]
  /\ breaker' = AfterSuccess(breaker, model[r])
  /\ admitted' = [admitted EXCEPT ![model[r]] = 0]
  /\ UNCHANGED <<requested, model, depth>>

\* A round stays empty and is classified tone_outage.  It is recorded, unless the
\* conversation was at its message limit.
Recorded(m, atLimit) == breaker' = IF atLimit THEN breaker ELSE AfterFailure(breaker, m)

\* The reply is lost, and the failover decides about it.
Outage(r, atLimit) ==
  /\ stage[r] \in DOMAIN Rounds
  /\ stage' = [stage EXCEPT ![r] = "outage"]
  /\ Recorded(model[r], atLimit)
  /\ UNCHANGED <<requested, model, depth, admitted>>

\* The round of a tool search or a sub-agent is lost; the other calls of the reply
\* are kept, which leaves the loop, and there is no failover.
KeepCalls(r, atLimit) ==
  /\ \/ stage[r] = "search" /\ \E s \in {"task", "done"} : stage' = [stage EXCEPT ![r] = s]
     \/ stage[r] = "task" /\ stage' = [stage EXCEPT ![r] = "done"]
  /\ Recorded(model[r], atLimit)
  /\ UNCHANGED <<requested, model, depth, admitted>>

\* Any other failure: an upstream error, a throttle, a Disengaged turn.
OtherFailure(r) ==
  /\ stage[r] \in DOMAIN Rounds
  /\ stage' = [stage EXCEPT ![r] = "done"]
  /\ UNCHANGED <<breaker, requested, model, depth, admitted>>

\* The inline failover claims the fallback, then records the failure once more.
Failover(r) == \E to \in Names : LET m == model[r] IN
  /\ stage[r] = "outage" /\ depth[r] = 0 /\ IsFallback(breaker, m, to)
  /\ breaker' = AfterFailure(Claimed(breaker, to), m)
  /\ SentTo(Canonical[to], TRUE)
  /\ stage' = [stage EXCEPT ![r] = "running"]
  /\ depth' = [depth EXCEPT ![r] = 1]
  /\ model' = [model EXCEPT ![r] = Canonical[to]]
  /\ UNCHANGED requested

\* No failover: the error goes to the client.
GiveUp(r) ==
  /\ stage[r] = "outage"
  /\ depth[r] = 1 \/ ~HasFallback(breaker, model[r])
  /\ stage' = [stage EXCEPT ![r] = "done"]
  /\ UNCHANGED <<breaker, requested, model, depth, admitted>>

Tick ==
  /\ \E m \in Names : breaker[m].age # Shut /\ breaker[m].age < Cooldown
  /\ breaker' = Older(breaker)
  /\ UNCHANGED <<requestVars, admitted>>

Next ==
  \/ \E r \in Requests :
       \/ Begin(r) \/ Content(r) \/ OtherFailure(r) \/ Failover(r) \/ GiveUp(r)
       \/ \E atLimit \in BOOLEAN : Outage(r, atLimit) \/ KeepCalls(r, atLimit)
  \/ Tick

Spec == Init /\ [][Next]_vars

\* Time passes, and every turn that was started settles.  Nothing is asked of the
\* clients.
FairSpec ==
  /\ Spec /\ WF_vars(Tick)
  /\ \A r \in Requests :
       WF_vars(Content(r) \/ OtherFailure(r) \/ Failover(r) \/ GiveUp(r)
                 \/ \E atLimit \in BOOLEAN : Outage(r, atLimit))
-----------------------------------------------------------------------------
\* Of the requests that have a healthy fallback, none goes to an open tone before
\* its cooldown is over, and after it at most one, by whatever name and however the
\* others interleave, until a success closes the breaker ("ONE probe request",
\* health.ts 49-53 and 98-109).  A request without a healthy fallback goes there
\* all the same (handler.ts 617-623).
OneProbe ==
  \A m \in Names :
    /\ admitted[m] <= 1
    /\ admitted[m] = 1 => breaker[m].age = Cooldown

\* A probe slot belongs to an opening: a closed breaker has none claimed, and only
\* enough recorded failures in a row open one (recordFailure, 77-87).
BreakerInv ==
  /\ TypeOK
  /\ \A m \in Names :
       /\ breaker[m].probe => breaker[m].age # Shut
       /\ breaker[m].age # Shut <=> breaker[m].failures >= BreakerThreshold

(* What the comments say, and the code does not do. *)

\* "success closes the breaker, failure re-opens it" (health.ts 52-53), "exactly
\* once per cooldown" (100-101): a tone that is routed away gets another probe.
ProbedAgain == \A m \in Names : []<>(Status(breaker, m) # "open")
=============================================================================
