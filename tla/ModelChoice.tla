---------------------------- MODULE ModelChoice ----------------------------
(***************************************************************************)
(* From a requested name to the model, the tone, the profile and the       *)
(* system prompt of a turn: packages/core/src/copilot.ts, model-registry.ts*)
(* and prompts.ts, packages/proxy-lib/src/profiles.ts, model-prompts.ts,   *)
(* anthropic.ts and handler.ts.                                            *)
(*                                                                         *)
(* A name is looked up trimmed and in lower case, and names here are.      *)
(* Tables are functions on the names they have.                            *)
(***************************************************************************)
EXTENDS Integers, SequencesExt, TLC

CONSTANTS
  ClaudeNames,  \* names that begin with "claude"
  HaikuNames,   \* names with "haiku" in them
  Fallback      \* M365_CLAUDE_CODE_MODEL, or gpt-5.5

\* CANONICAL_MODELS: the tone of each model.
CANONICAL_MODELS ==
  [m \in {
    "m365-copilot", "auto", "gpt-5.5", "gpt-5.5-quick", "gpt-5.5-think-deeper", "gpt-5.4-quick",
    "gpt-5.4-think-deeper", "gpt-5.3-quick", "gpt-5.3-think-deeper", "gpt-5.2-quick", "gpt-5.2-think-deeper", "quick",
    "gpt-5.6-reasoning", "think-deeper", "claude-sonnet", "claude-sonnet-think-deeper", "claude-opus"} |->
    CASE m \in {"m365-copilot", "auto"} -> "magic"
      [] m \in {"gpt-5.5", "gpt-5.5-quick"} -> "Gpt_5_5_Chat"
      [] m = "gpt-5.5-think-deeper" -> "Gpt_5_5_Reasoning"
      [] m = "gpt-5.4-quick" -> "Gpt_5_4_Quick"
      [] m = "gpt-5.4-think-deeper" -> "Gpt_5_4_Reasoning"
      [] m = "gpt-5.3-quick" -> "Gpt_5_3_Quick"
      [] m = "gpt-5.3-think-deeper" -> "Gpt_5_3_Reasoning"
      [] m = "gpt-5.2-quick" -> "Gpt_5_2_Quick"
      [] m = "gpt-5.2-think-deeper" -> "Gpt_5_2_Reasoning"
      [] m = "quick" -> "Gpt_Quick"
      [] m = "gpt-5.6-reasoning" -> "Gpt_5_6_Reasoning"
      [] m = "think-deeper" -> "Gpt_Reasoning"
      [] m = "claude-sonnet" -> "Claude_Sonnet"
      [] m = "claude-sonnet-think-deeper" -> "Claude_Sonnet_Reasoning"
      [] m = "claude-opus" -> "Claude_Opus"]

\* The names that a table has for its models.
Named(table) ==
  [n \in UNION Range(table) |-> CHOOSE m \in DOMAIN table : n \in table[m]]

\* MODEL_ALIASES, by the model that the names are for.
MODEL_NAMES ==
  [m \in {
    "claude-sonnet", "claude-sonnet-think-deeper", "claude-opus", "gpt-5.6-reasoning", "gpt-5.5", "gpt-5.4-quick",
    "gpt-5.3-quick", "gpt-5.2-quick", "think-deeper", "quick"} |->
    CASE m = "claude-sonnet" ->
           {"claude", "claude-sonnet-4.5", "claude-sonnet-4.6", "claude-sonnet-4-6", "sonnet-4-6",
            "claude-3-7-sonnet", "claude-3-5-sonnet", "claude-sonnet-5", "claude-sonnet-5[1m]", "sonnet", "sonnet-5",
            "sonnet-4", "claude-sonnet-5-20251219", "claude-3-7-sonnet-20250219", "claude-3-5-sonnet-20241022",
            "claude-3-5-sonnet-20240620", "eu.anthropic.claude-sonnet-5", "eu.anthropic.claude-sonnet-4-6",
            "eu.anthropic.claude-sonnet-4.6", "us.anthropic.claude-sonnet-5", "us.anthropic.claude-sonnet-4-6",
            "haiku", "claude-haiku", "claude-3-5-haiku", "claude-haiku-4-5", "claude-haiku-4.5",
            "claude-haiku-4-5-20250514", "claude-3-5-haiku-20241022"}
      [] m = "claude-sonnet-think-deeper" ->
           {"claude-sonnet-5-thinking", "claude-sonnet-5-20251219-thinking", "claude-3-7-sonnet-thinking"}
      [] m = "claude-opus" ->
           {"claude-opus-4", "claude-opus-4-5", "claude-opus-4.5", "claude-opus-4-6", "claude-opus-4.6", "opus-4-6",
            "opus-4.6", "claude-opus-4-7", "claude-opus-4.7", "claude-opus-4-8", "claude-opus-4.8",
            "claude-opus-4-20250514", "opus-4", "claude-opus-4-5-20250514", "opus", "opus-5", "claude-3-opus",
            "claude-opus-5", "claude-opus-5[1m]", "opus[1m]", "eu.anthropic.claude-opus-4-8",
            "eu.anthropic.claude-opus-4-7", "eu.anthropic.claude-opus-4-6", "eu.anthropic.claude-opus-4.6",
            "eu.anthropic.claude-opus-5", "us.anthropic.claude-opus-4-8", "us.anthropic.claude-opus-5"}
      [] m = "gpt-5.6-reasoning" ->
           {"gpt-5.6", "gpt-5.6-sol", "gpt-5.6-terra", "gpt-5.6-luna", "sol", "terra", "luna"}
      [] m = "gpt-5.5" -> {"codex", "openai-codex", "gpt-codex", "codex-5"}
      [] m = "gpt-5.4-quick" -> {"gpt-5.4"}
      [] m = "gpt-5.3-quick" -> {"gpt-5.3"}
      [] m = "gpt-5.2-quick" -> {"gpt-5.2"}
      [] m = "think-deeper" -> {"gpt-deep"}
      [] m = "quick" -> {"gpt-quick"}]
MODEL_ALIASES == Named(MODEL_NAMES)

\* ALIAS_MAP, of CANONICAL_REGISTRY in model-registry.ts.
REGISTRY ==
  [m \in {
    "gpt-5.6-think-deeper", "gpt-5.5-think-deeper", "claude-opus", "claude-sonnet", "claude-sonnet-think-deeper",
    "quick", "auto"} |->
    CASE m = "gpt-5.6-think-deeper" ->
           {"gpt-5.6-think-deeper", "gpt-5.6", "gpt-5.6-reasoning", "gpt-5.6-sol", "sol", "gpt-5.6-terra", "terra",
            "gpt-5.6-luna", "luna"}
      [] m = "gpt-5.5-think-deeper" ->
           {"gpt-5.5-think-deeper", "gpt-5.5", "gpt-5.5-reasoning", "think-deeper", "gpt-deep", "codex",
            "openai-codex", "gpt-codex", "codex-5"}
      [] m = "claude-opus" ->
           {"claude-opus", "claude-opus-5", "claude-opus-4", "claude-opus-4-5", "claude-opus-4.5", "claude-opus-4-6",
            "claude-opus-4.6", "opus-4-6", "opus-4.6", "opus", "opus-5", "claude-3-opus", "claude-opus-5[1m]",
            "opus[1m]", "claude-opus-4-7", "claude-opus-4.7", "claude-opus-4-8", "claude-opus-4.8",
            "eu.anthropic.claude-opus-4-8", "eu.anthropic.claude-opus-4-7", "eu.anthropic.claude-opus-4-6",
            "eu.anthropic.claude-opus-4.6", "eu.anthropic.claude-opus-5", "us.anthropic.claude-opus-4-8",
            "us.anthropic.claude-opus-5", "claude-opus-4-20250514", "claude-opus-4-5-20250514"}
      [] m = "claude-sonnet" ->
           {"claude-sonnet", "claude", "sonnet", "claude-3-7-sonnet", "claude-3-5-sonnet", "claude-sonnet-4.5",
            "claude-sonnet-4.6", "claude-sonnet-4-6", "sonnet-4-6", "claude-sonnet-5", "claude-sonnet-5[1m]",
            "sonnet-5", "sonnet-4", "eu.anthropic.claude-sonnet-5", "eu.anthropic.claude-sonnet-4-6",
            "eu.anthropic.claude-sonnet-4.6", "us.anthropic.claude-sonnet-5", "us.anthropic.claude-sonnet-4-6",
            "claude-sonnet-5-20251219", "claude-3-7-sonnet-20250219", "claude-3-5-sonnet-20241022",
            "claude-3-5-sonnet-20240620", "haiku", "claude-haiku", "claude-3-5-haiku", "claude-haiku-4-5",
            "claude-haiku-4.5"}
      [] m = "claude-sonnet-think-deeper" ->
           {"claude-sonnet-think-deeper", "claude-sonnet-5-thinking", "claude-sonnet-5-20251219-thinking",
            "claude-3-7-sonnet-thinking"}
      [] m = "quick" ->
           {"quick", "gpt-quick", "gpt-5.4-quick", "gpt-5.3-quick", "gpt-5.2-quick", "gpt-5.4", "gpt-5.3", "gpt-5.2"}
      [] m = "auto" -> {"auto", "m365-auto", "magic", "default"}]
ALIAS_MAP == Named(REGISTRY)
WithVision == DOMAIN REGISTRY

\* Names that are refused by name.
MISLEADING == {"fable", "claude-fable", "fable-4", "mythos", "claude-mythos", "gpt-mythos", "mythos-1"}

\* loadCustomAliases: the first of the candidate files that exists and is a JSON object,
\* and over it what the environment says.  A file is <<>> (none), <<"broken">> or
\* <<"object", aliases>>.
CustomAliases(files, environment) ==
  LET objects == SelectSeq(files, LAMBDA f : f # <<>> /\ f[1] = "object") IN
  environment @@ (IF objects = <<>> THEN <<>> ELSE objects[1][2])

Canonical(name) ==
  IF name \in DOMAIN CANONICAL_MODELS THEN {name}
  ELSE IF name \in DOMAIN MODEL_ALIASES THEN {MODEL_ALIASES[name]} ELSE {}

\* resolveModel: the model, or nothing for UnsupportedModelError.
Resolve(custom, name) ==
  IF name = "" \/ name \in MISLEADING THEN {}
  ELSE IF name \in DOMAIN custom /\ Canonical(custom[name]) # {} THEN Canonical(custom[name])
  ELSE IF Canonical(name) # {} THEN Canonical(name)
  ELSE IF name \in ClaudeNames THEN {"claude-sonnet"} ELSE {}

The(S) == CHOOSE x \in S : TRUE

\* getToneForModel.
ToneFor(custom, name) ==
  LET found == Resolve(custom, name) IN IF found = {} THEN CANONICAL_MODELS["m365-copilot"] ELSE CANONICAL_MODELS[The(found)]

\* getAvailableModels, and what GET /v1/models says of each.
AvailableModels(custom) == DOMAIN CANONICAL_MODELS \cup DOMAIN MODEL_ALIASES \cup DOMAIN custom
Advertised(custom) == [name \in AvailableModels(custom) |->
  IF Resolve(custom, name) = {} THEN "unknown" ELSE CANONICAL_MODELS[The(Resolve(custom, name))]]

\* getModelDefinition: the other registry, with the same custom aliases.
ModelDefinition(custom, name) ==
  IF name \in DOMAIN custom /\ custom[name] \in DOMAIN ALIAS_MAP THEN {ALIAS_MAP[custom[name]]}
  ELSE IF name \in DOMAIN ALIAS_MAP THEN {ALIAS_MAP[name]} ELSE {}

\* resolveImageAnnotations: images are sent unless the registry knows that they cannot.
ImagesSent(custom, name) == ModelDefinition(custom, name) \subseteq WithVision

ResolveM365Model_Registry(custom, name) ==
  LET found == ModelDefinition(custom, name) IN IF found = {} THEN Fallback ELSE The(found)

\* resolveM365Model: an Anthropic client's unknown names have a fallback.
ResolveM365Model(custom, name) ==
  LET found == Resolve(custom, name) IN IF found = {} THEN Fallback ELSE The(found)

\* mapUpstreamModel.
MapUpstreamModel(name) == IF name \in HaikuNames THEN "small" ELSE "big"

\* The name produceCompletion gets.
NameFor(route, custom, name) == IF route = "anthropic" THEN ResolveM365Model(custom, name) ELSE name

\* TONE_FALLBACKS and fallbackChain: where turns go while a model's tone is out.
TONE_FALLBACKS ==
  [m \in {"claude-sonnet", "claude-sonnet-think-deeper", "claude-opus"} |->
    IF m = "claude-opus" THEN <<"claude-sonnet", "gpt-5.5">> ELSE <<"claude-opus", "gpt-5.5">>]
FallbackChain(name) == IF name \in DOMAIN TONE_FALLBACKS THEN TONE_FALLBACKS[name] ELSE <<>>

\* rerouteIfOpen: the first of the chain that is not out as well, or the name itself;
\* open has the models whose breakers route this request away (ToneHealth).
Reroute(open, name) ==
  LET chain == FallbackChain(name)
      healthy == {i \in DOMAIN chain : chain[i] \notin open}
  IN  IF name \in open /\ healthy # {} THEN chain[Min(healthy)] ELSE name

\* produceCompletion resolves the name it gets, or the one that it is rerouted to.  The
\* model's session resolves the result once more, to its tone.
TurnModel(route, custom, open, name) == Resolve(custom, Reroute(open, NameFor(route, custom, name)))
-----------------------------------------------------------------------------
(* Profiles. *)

Coding == {"bash", "read", "edit", "write", "glob", "grep", "todowrite"}
Web == {"webfetch", "websearch", "web_search", "fetch", "search"}

PROFILES ==
  [p \in {"claude-safe", "claude-web", "claude-diagnose", "claude-wide"} |->
    [name |-> p,
     allowed |-> CASE p = "claude-safe" -> Coding [] p = "claude-web" -> Coding \cup Web
                   [] p = "claude-diagnose" -> {"bash", "read", "glob", "grep"} [] OTHER -> {},
     visible |-> CASE p = "claude-safe" -> 7 [] p = "claude-web" -> 9 [] p = "claude-diagnose" -> 6 [] OTHER -> 10,
     task |-> p = "claude-wide"]]

\* resolveProfile: an unknown name is an error in a request and ignored in the environment.
ResolveProfile(explicit, environment) ==
  IF explicit # "" THEN IF explicit \in DOMAIN PROFILES THEN {PROFILES[explicit]} ELSE {}
  ELSE IF environment \in DOMAIN PROFILES THEN {PROFILES[environment]}
  ELSE {PROFILES["claude-safe"]}

ToolAllowed(name, profile) == profile.allowed = {} \/ name \in profile.allowed
-----------------------------------------------------------------------------
(* System prompts: a corpus and a disk are functions from names to texts. *)

\* findSystemPromptIndex: the first root with a prompt in it.
PromptIndex(roots) ==
  LET full == SelectSeq(roots, LAMBDA r : DOMAIN r # {}) IN IF full = <<>> THEN <<>> ELSE full[1]

Refused == <<"refused">>
NoPrompt == <<"none">>
Prompt(text) == <<"prompt", text>>

\* resolveSystemPromptSpec; a spec is <<prefix, value>>, the prefix "name", "path" or
\* "bare", the value "" if it is but white space.
ResolveSpec(spec, corpus, disk) ==
  LET named == spec[2] \in DOMAIN corpus
      filed == spec[2] \in DOMAIN disk
  IN  CASE spec[1] = "name" -> IF named THEN Prompt(corpus[spec[2]]) ELSE Refused
        [] spec[1] = "path" -> IF filed THEN Prompt(disk[spec[2]]) ELSE Refused
        [] spec[1] = "bare" -> IF spec[2] = "" THEN NoPrompt
                               ELSE IF named THEN Prompt(corpus[spec[2]])
                               ELSE IF filed THEN Prompt(disk[spec[2]]) ELSE Prompt(spec[2])

\* resolveModelSystemPrompt: the first candidate of the first route that fits the name.
RoutedPrompt(routes, corpus, name) ==
  LET fitting == SelectSeq(routes, LAMBDA r : name \in r.names)
      present == IF fitting = <<>> THEN <<>> ELSE SelectSeq(fitting[1].candidates, LAMBDA c : c \in DOMAIN corpus)
  IN  IF present = <<>> THEN NoPrompt ELSE Prompt(corpus[present[1]])

\* injectSystemPrompt: the request's spec, else the environment's, else the route of the
\* model if routes are enabled; a header that is empty hides the environment's.
NoSpec == <<>>
EmptyHeader == <<"empty">>
SystemPrompt(spec, environment, routes, corpus, disk, name) ==
  LET chosen == IF spec # NoSpec THEN spec ELSE environment IN
  IF chosen \in {NoSpec, EmptyHeader} THEN RoutedPrompt(routes, corpus, name)
  ELSE ResolveSpec(chosen, corpus, disk)
=============================================================================
