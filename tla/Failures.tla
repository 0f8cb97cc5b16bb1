------------------------------ MODULE Failures ------------------------------
(***************************************************************************)
(* Who may ask, and what is told when a request fails: the HTTP surfaces   *)
(* (packages/proxy-lib/src/index.ts, packages/proxy/middleware and         *)
(* routes), the classes of failures (packages/core/src/errors.ts,          *)
(* packages/proxy-lib/src/health.ts) and their replies (handler.ts,        *)
(* anthropic.ts).                                                          *)
(***************************************************************************)
EXTENDS Integers, Sequences, TLC

(* Requests are [method, path, browser, key, json, valid, profile]; paths  *)
(* are the routes, "prompt" for a system prompt's and "elsewhere".         *)
Reads == {"/", "/health", "/internal/stats", "/v1/models", "/v1/system-prompts", "/v1/model-prompts"}
Turns == {"/v1/chat/completions", "/v1/messages"}
Unprotected == {"/", "/health", "/internal/stats", "elsewhere"}

\* A reply is [status, type]; Handled stands for the turn a request is let to.
Reply(status, type) == [status |-> status, type |-> type]
Ok == Reply(200, "ok")
BadRequest == Reply(400, "invalid_request_error")
NotFound == Reply(404, "invalid_request_error")
Handled == Reply(0, "handled")

\* createApp's fetch.
Embedded(r, profiles, prompts) ==
  LET readable == r.method = "GET" /\ r.path \in Reads
      prompt == r.method = "GET" /\ r.path = "prompt"
      counted == r.path = "/v1/messages/count_tokens"
      posted == r.method = "POST" /\ (r.path \in Turns \/ counted)
  IN  CASE r.method = "OPTIONS" -> Reply(204, "none")
        [] r.method # "OPTIONS" /\ readable -> Ok
        [] prompt -> IF prompts THEN Ok ELSE NotFound
        [] posted -> IF ~r.json THEN BadRequest
                     ELSE IF counted THEN Ok
                     ELSE IF r.profile \notin profiles \cup {""} \/ ~r.valid THEN BadRequest
                     ELSE Handled
        [] OTHER -> NotFound

\* The server's: browsers are refused first, then wrong keys, then its routes.
Served(r, profiles, prompts) ==
  LET open == r.path \in Unprotected \/ (r.method = "GET" /\ r.path = "/v1/models") IN
  IF r.browser THEN Reply(403, "browser")
  ELSE IF r.method = "OPTIONS" THEN Reply(204, "none")
  ELSE IF ~open /\ ~r.key THEN Reply(401, "key")
  ELSE Embedded(r, profiles, prompts)
-----------------------------------------------------------------------------
\* The subclasses of M365ProxyError: <<status, whether a retry may help>> by code.
ProxyErrors ==
  "AUTHENTICATION_REQUIRED" :> <<401, FALSE>> @@ "AUTHENTICATION_EXPIRED" :> <<401, TRUE>>
  @@ "CONDITIONAL_ACCESS_REJECTED" :> <<403, FALSE>> @@ "MODEL_UNAVAILABLE" :> <<404, FALSE>>
  @@ "MODEL_CAPABILITY_UNSUPPORTED" :> <<400, FALSE>> @@ "M365_DISENGAGED" :> <<502, FALSE>>
  @@ "M365_THROTTLED" :> <<429, TRUE>> @@ "CONVERSATION_EXPIRED" :> <<410, TRUE>>
  @@ "INVALID_TOOL_CALL" :> <<400, FALSE>> @@ "TOOL_SCHEMA_TOO_LARGE" :> <<400, FALSE>>
  @@ "UPSTREAM_PROTOCOL_CHANGED" :> <<502, FALSE>> @@ "UPSTREAM_TIMEOUT" :> <<504, TRUE>>

\* The types of errors an Anthropic client knows, by status.
TypeOfStatus(status) ==
  CASE status = 401 -> "authentication_error" [] status = 403 -> "permission_error"
    [] status = 404 -> "not_found_error" [] status = 429 -> "rate_limit_error" [] OTHER -> "api_error"

\* toAnthropicError, of a code or of an error that has none.
ToAnthropicError(code) ==
  IF code \notin DOMAIN ProxyErrors THEN Reply(500, "api_error")
  ELSE LET status == ProxyErrors[code][1] IN
       Reply(status, IF status = 400 THEN "invalid_request_error" ELSE TypeOfStatus(status))

\* classifyFailure, of [content, message, throttle, failed, elapsed]: elapsed "instant"
\* is below 2.5 s and "fast" below 5 s.
ClassifyFailure(s) ==
  IF s.content THEN "none"
  ELSE IF s.message = "Disengaged" THEN "disengaged"
  ELSE IF s.throttle = "none" /\ s.elapsed = "instant" THEN "dead_agent"
  ELSE IF s.failed THEN "tone_outage"
  ELSE IF s.message = "ReferencesListComplete" THEN "throttle"
  ELSE IF s.elapsed \in {"instant", "fast"} THEN "tone_outage" ELSE "throttle"

\* The last failure of runBuffered: an error that was thrown, or an empty answer.
Thrown(code) ==
  IF code \in DOMAIN ProxyErrors THEN Reply(ProxyErrors[code][1], code) ELSE Reply(502, "upstream_error")
GivenUp(s) ==
  IF s.message = "Disengaged" THEN Reply(502, "disengaged")
  ELSE IF s.throttle = "full" THEN Reply(429, "rate_limit_error")
  ELSE Reply(502, "upstream_empty_response")

\* anthropicErrorFromPayload.
AnthropicError(failure) ==
  IF failure.type \in {"upstream_empty_response", "disengaged"} THEN BadRequest
  ELSE Reply(failure.status, TypeOfStatus(failure.status))

\* What a client is told: a stream has begun with 200, and a disengagement is explained
\* to an Anthropic client in a turn.
Told(route, stream, failure) ==
  CASE route = "openai" -> IF stream THEN Reply(200, "upstream_error") ELSE failure
    [] route = "anthropic" -> IF failure.type = "disengaged" THEN Reply(200, "turn")
                              ELSE IF stream THEN Reply(200, failure.type) ELSE AnthropicError(failure)
=============================================================================
