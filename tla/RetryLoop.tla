----------------------------- MODULE RetryLoop -----------------------------
(***************************************************************************)
(* The control of runBuffered (packages/proxy-lib/src/handler.ts): what it *)
(* does with the way a turn ended.                                         *)
(***************************************************************************)
EXTENDS Integers

CONSTANT MaxRetries  \* M365_MAX_EMPTY_RETRIES

ASSUME RetryAssumption == MaxRetries \in Nat

\* How a turn that was sent can end: with content, refused, with an exhausted
\* conversation counter, with nothing, or with an error of the stream.
Outcomes == {"content", "disengaged", "atLimit", "empty", "error"}

\* What runBuffered does next; attempt counts from 0, rotated says whether the
\* one free retry was used.
Verdict_FreeRetries(outcome, tools, attempt, rotated) ==
  CASE outcome = "content" -> "answer"
    [] outcome = "disengaged" /\ tools -> "rotate"
    [] outcome = "empty" /\ attempt < MaxRetries -> "retry"
    [] outcome = "empty" /\ attempt >= MaxRetries -> "exhausted"
    [] OTHER -> "fail"

Verdict(outcome, tools, attempt, rotated) ==
  CASE outcome = "content" -> "answer"
    [] outcome = "disengaged" /\ tools /\ ~rotated -> "rotate"
    [] outcome = "empty" /\ attempt < MaxRetries -> "retry"
    [] outcome = "empty" /\ attempt >= MaxRetries -> "exhausted"
    [] OTHER -> "fail"
=============================================================================
