--------------------------- MODULE ExchangeProofs ---------------------------
(***************************************************************************)
(* What the conversions on the way of a request keep, whatever clients and *)
(* M365 send: the tone of the name that was asked for, the call that is    *)
(* meant and its arguments through the fence, the schema of its tool, and  *)
(* the text and the calls of an upstream's stream.                         *)
(***************************************************************************)
EXTENDS Exchange, StreamRenderProofs

-----------------------------------------------------------------------------
(* Names and models. *)

\* A name of a table is the name of one of its models.
LEMMA NamedIs ==
  ASSUME NEW table, NEW n \in DOMAIN Named(table)
  PROVE  Named(table)[n] \in DOMAIN table
<1>1. n \in UNION Range(table)
  BY DEF Named
<1>2. PICK m \in DOMAIN table : n \in table[m]
  BY <1>1 DEF Range
<1>3. Named(table)[n] = CHOOSE k \in DOMAIN table : n \in table[k]
  BY <1>1 DEF Named
<1> QED BY <1>2, <1>3

\* Aliases lead to models, and none of them has a name that is refused.
LEMMA AliasesLead ==
  /\ \A n \in DOMAIN MODEL_ALIASES : MODEL_ALIASES[n] \in DOMAIN CANONICAL_MODELS
  /\ \A m \in DOMAIN CANONICAL_MODELS : m # "" /\ m \notin MISLEADING
  /\ {"m365-copilot", "claude-sonnet"} \subseteq DOMAIN CANONICAL_MODELS
<1>1. ASSUME NEW n \in DOMAIN MODEL_ALIASES PROVE MODEL_ALIASES[n] \in DOMAIN CANONICAL_MODELS
  <2>1. MODEL_ALIASES[n] \in DOMAIN MODEL_NAMES
    BY NamedIs DEF MODEL_ALIASES
  <2>2. DOMAIN MODEL_NAMES \subseteq DOMAIN CANONICAL_MODELS
    BY DEF MODEL_NAMES, CANONICAL_MODELS
  <2> QED BY <2>1, <2>2
<1>2. ASSUME NEW m \in DOMAIN CANONICAL_MODELS PROVE m # "" /\ m \notin MISLEADING
  BY DEF CANONICAL_MODELS, MISLEADING
<1>3. {"m365-copilot", "claude-sonnet"} \subseteq DOMAIN CANONICAL_MODELS
  BY DEF CANONICAL_MODELS
<1> QED BY <1>1, <1>2, <1>3

\* A name is resolved to one model that the table has, or to none.
LEMMA ResolvesToModel ==
  ASSUME NEW custom, NEW name, Resolve(custom, name) # {}
  PROVE  \E m \in DOMAIN CANONICAL_MODELS : Resolve(custom, name) = {m}
<1>1. \A n : Canonical(n) # {} => \E m \in DOMAIN CANONICAL_MODELS : Canonical(n) = {m}
  BY AliasesLead DEF Canonical
<1>2. \/ Resolve(custom, name) = Canonical(custom[name])
      \/ Resolve(custom, name) = Canonical(name)
      \/ Resolve(custom, name) = {"claude-sonnet"}
  BY DEF Resolve
<1>3. "claude-sonnet" \in DOMAIN CANONICAL_MODELS
  BY AliasesLead
<1> QED BY <1>1, <1>2, <1>3

\* A model is resolved to itself, unless a custom alias has its name.
LEMMA ModelResolvesToItself ==
  ASSUME NEW custom, NEW m \in DOMAIN CANONICAL_MODELS, m \notin DOMAIN custom
  PROVE  Resolve(custom, m) = {m}
<1>1. m # "" /\ m \notin MISLEADING
  BY AliasesLead
<1>2. Canonical(m) = {m}
  BY DEF Canonical
<1> QED BY <1>1, <1>2 DEF Resolve

\* What is advertised for a model is its tone.
LEMMA ModelTone ==
  ASSUME NEW custom, NEW m \in DOMAIN CANONICAL_MODELS, m \notin DOMAIN custom
  PROVE  /\ ToneFor(custom, m) = CANONICAL_MODELS[m]
         /\ Advertised(custom)[m] = CANONICAL_MODELS[m]
<1>1. Resolve(custom, m) = {m} /\ The({m}) = m
  BY ModelResolvesToItself DEF The
<1>2. m \in AvailableModels(custom)
  BY DEF AvailableModels
<1> QED BY <1>1, <1>2 DEF ToneFor, Advertised

\* The models of a chain are known, and only models have one.
LEMMA ChainsKnown ==
  ASSUME NEW n
  PROVE  /\ \A i \in DOMAIN FallbackChain(n) : i \in Nat /\ FallbackChain(n)[i] \in DOMAIN CANONICAL_MODELS
         /\ n \notin DOMAIN CANONICAL_MODELS => FallbackChain(n) = <<>>
<1>1. {"claude-sonnet", "claude-sonnet-think-deeper", "claude-opus", "gpt-5.5"} \subseteq DOMAIN CANONICAL_MODELS
  BY DEF CANONICAL_MODELS
<1>2. DOMAIN TONE_FALLBACKS = {"claude-sonnet", "claude-sonnet-think-deeper", "claude-opus"}
  BY DEF TONE_FALLBACKS
<1>3. FallbackChain(n) \in {<<>>, <<"claude-sonnet", "gpt-5.5">>, <<"claude-opus", "gpt-5.5">>}
  BY <1>2 DEF FallbackChain, TONE_FALLBACKS
<1>4. \A c \in {<<>>, <<"claude-sonnet", "gpt-5.5">>, <<"claude-opus", "gpt-5.5">>} :
        \A i \in DOMAIN c : i \in Nat /\ c[i] \in DOMAIN CANONICAL_MODELS
  <2>1. \A i \in DOMAIN <<"claude-sonnet", "gpt-5.5">> :
          i \in Nat /\ <<"claude-sonnet", "gpt-5.5">>[i] \in {"claude-sonnet", "gpt-5.5"}
    OBVIOUS
  <2>2. \A i \in DOMAIN <<"claude-opus", "gpt-5.5">> :
          i \in Nat /\ <<"claude-opus", "gpt-5.5">>[i] \in {"claude-opus", "gpt-5.5"}
    OBVIOUS
  <2> QED BY <1>1, <2>1, <2>2
<1>5. n \notin DOMAIN CANONICAL_MODELS => FallbackChain(n) = <<>>
  BY <1>1, <1>2 DEF FallbackChain
<1> QED BY <1>3, <1>4, <1>5

\* A name is rerouted to nothing but the first of its chain that is not out.
LEMMA RerouteIs ==
  ASSUME NEW open, NEW n
  PROVE  \/ Reroute(open, n) = n
         \/ n \in DOMAIN CANONICAL_MODELS /\ Reroute(open, n) \in DOMAIN CANONICAL_MODELS
            /\ Replaces(open, Reroute(open, n), n)
<1> DEFINE chain == FallbackChain(n)
           healthy == {i \in DOMAIN chain : chain[i] \notin open}
<1>1. Reroute(open, n) = IF n \in open /\ healthy # {} THEN chain[Min(healthy)] ELSE n
  BY DEF Reroute
<1>2. /\ \A i \in DOMAIN chain : i \in Nat /\ chain[i] \in DOMAIN CANONICAL_MODELS
      /\ n \notin DOMAIN CANONICAL_MODELS => chain = <<>>
  BY ChainsKnown
<1>3. CASE n \in open /\ healthy # {}
  <2> DEFINE k == Min(healthy)
  <2>1. healthy \in SUBSET Nat
    BY <1>2
  <2>2. k \in healthy /\ \A j \in healthy : k <= j
    <3> HIDE DEF healthy
    <3> QED BY <1>3, <2>1, LeastExists DEF Min
  <2>3. Reroute(open, n) = chain[k]
    BY <1>1, <1>3
  <2> HIDE DEF k
  <2>4. k \in DOMAIN chain /\ k \in Nat /\ chain[k] \notin open
    BY <1>2, <2>2
  <2>5. \A j \in 1..(k - 1) : chain[j] \in open
    <3> SUFFICES ASSUME NEW j \in 1..(k - 1), chain[j] \notin open PROVE FALSE
      OBVIOUS
    <3>1. j \in DOMAIN chain
      <4>1. chain \in {<<>>, <<"claude-sonnet", "gpt-5.5">>, <<"claude-opus", "gpt-5.5">>}
        BY DEF FallbackChain, TONE_FALLBACKS
      <4>2. \A c \in {<<>>, <<"claude-sonnet", "gpt-5.5">>, <<"claude-opus", "gpt-5.5">>} : \E l \in Nat : DOMAIN c = 1..l
        <5>1. DOMAIN <<>> = 1..0 /\ DOMAIN <<"claude-sonnet", "gpt-5.5">> = 1..2 /\ DOMAIN <<"claude-opus", "gpt-5.5">> = 1..2
          OBVIOUS
        <5> QED BY <5>1
      <4>3. PICK l \in Nat : DOMAIN chain = 1..l
        BY <4>1, <4>2
      <4> HIDE DEF chain
      <4> QED BY <2>4, <4>3
    <3>2. k <= j
      BY <2>2, <3>1
    <3> QED BY <2>4, <3>2
  <2>6. n \in DOMAIN CANONICAL_MODELS
    <3>1. chain # <<>>
      BY <2>4
    <3> QED BY <1>2, <3>1
  <2>7. chain[k] \in DOMAIN CANONICAL_MODELS
    BY <1>2, <2>4
  <2>8. Replaces(open, chain[k], n)
    BY <1>3, <2>4, <2>5 DEF Replaces
  <2> QED BY <2>3, <2>6, <2>7, <2>8
<1>4. CASE ~(n \in open /\ healthy # {})
  BY <1>1, <1>4
<1> QED BY <1>3, <1>4

\* The tone of the model that Choose finds.
LEMMA FoundTone ==
  ASSUME NEW route, NEW custom, NEW open, NEW name, Heard(custom, name), name \in AvailableModels(custom),
         NEW model, model = The(TurnModel(route, custom, open, name))
  PROVE  \/ ToneFor(custom, model) = Advertised(custom)[name]
         \/ \E alt \in DOMAIN CANONICAL_MODELS :
              Replaces(open, alt, The(Resolve(custom, name))) /\ ToneFor(custom, model) = Advertised(custom)[alt]
<1>1. \A m \in DOMAIN CANONICAL_MODELS : m \notin DOMAIN custom
  BY DEF Heard
<1>2. PICK m \in DOMAIN CANONICAL_MODELS : Resolve(custom, name) = {m}
  BY ResolvesToModel DEF Heard
<1>3. \A x : The({x}) = x
  BY DEF The
<1> DEFINE n == NameFor(route, custom, name)
<1>4. n = m \/ n = name
  BY <1>2, <1>3 DEF NameFor, ResolveM365Model
<1>5. \A x \in DOMAIN CANONICAL_MODELS : Resolve(custom, x) = {x}
  BY <1>1, ModelResolvesToItself
<1>6. Resolve(custom, n) = {m}
  BY <1>2, <1>4, <1>5
<1>7. TurnModel(route, custom, open, name) = Resolve(custom, Reroute(open, n))
  BY DEF TurnModel
<1> HIDE DEF n
<1>8. CASE Reroute(open, n) = n
  <2>1. model = m
    BY <1>3, <1>6, <1>7, <1>8
  <2>2. ToneFor(custom, m) = CANONICAL_MODELS[m]
    BY <1>1, ModelTone
  <2>3. Advertised(custom)[name] = CANONICAL_MODELS[m]
    BY <1>2, <1>3 DEF Advertised
  <2> QED BY <2>1, <2>2, <2>3
<1>9. CASE n \in DOMAIN CANONICAL_MODELS /\ Reroute(open, n) \in DOMAIN CANONICAL_MODELS
           /\ Replaces(open, Reroute(open, n), n)
  <2> DEFINE alt == Reroute(open, n)
  <2>1. n = m
    <3>1. {n} = {m}
      BY <1>5, <1>6, <1>9
    <3> QED BY <3>1
  <2>2. model = alt
    BY <1>3, <1>5, <1>7, <1>9
  <2>3. ToneFor(custom, alt) = CANONICAL_MODELS[alt] /\ Advertised(custom)[alt] = CANONICAL_MODELS[alt]
    <3>1. alt \in DOMAIN CANONICAL_MODELS /\ alt \notin DOMAIN custom
      BY <1>1, <1>9
    <3> HIDE DEF alt
    <3> QED BY <3>1, ModelTone
  <2>4. Replaces(open, alt, The(Resolve(custom, name)))
    BY <1>2, <1>3, <1>9, <2>1
  <2> HIDE DEF alt
  <2>5. alt \in DOMAIN CANONICAL_MODELS
    BY <1>9 DEF alt
  <2> QED BY <2>2, <2>3, <2>4, <2>5
<1> QED BY <1>8, <1>9, RerouteIs

\* The name goes through resolveM365Model on the Anthropic route, through
\* rerouteIfOpen and resolveModel in produceCompletion and through
\* getToneForModel in the model's session; whatever the custom aliases are, as
\* long as they hide no model, whatever the environment's fallback and whatever
\* tones are out, the turn has the tone that GET /v1/models says the name has, or
\* the one it says the first fallback has that can take the place of the model.
THEOREM TonesAreAdvertised == Spec => []ToneAdvertised
<1>1. Init => ToneAdvertised
  BY DEF Init, ToneAdvertised
<1>2. ToneAdvertised /\ [Next]_vars => ToneAdvertised'
  <2> SUFFICES ASSUME ToneAdvertised, [Next]_vars PROVE ToneAdvertised'
    OBVIOUS
  <2>1. ASSUME stage' # "chosen" PROVE ToneAdvertised'
    BY <2>1 DEF ToneAdvertised
  <2>2. CASE UNCHANGED vars
    BY <2>2 DEF ToneAdvertised, vars
  <2>3. CASE Choose /\ stage' = "chosen"
    <3>0. PICK setting \in Settings, ask \in Asks, out \in Outages :
            LET custom == CustomAliases(setting.files, setting.aliases)
                profiles == ResolveProfile(data.profile, setting.profile)
                name == Reroute(out, NameFor(data.route, custom, ask.name))
                found == TurnModel(data.route, custom, out, ask.name)
                prompt == SystemPrompt(ask.prompt, setting.prompt, setting.routes, PromptIndex(setting.corpora), setting.disk, name)
                images == ask.vision /\ data.route = "anthropic" /\ ImagesSent(custom, ask.name)
            IN  IF profiles = {} \/ DefinitionErrors(ask.tools) # {} \/ found = {} \/ prompt = Refused
                THEN Answered(BadRequest)
                ELSE To("chosen", [route |-> data.route, custom |-> custom, name |-> ask.name, open |-> out,
                                   model |-> The(found), prompt |-> prompt, images |-> images,
                                   visible |-> LET shown == SelectSeq(ask.tools, LAMBDA t : ToolAllowed(t.name, The(profiles)))
                                               IN  [i \in DOMAIN shown |-> shown[i].name]])
      BY <2>3, Zenon DEF Choose
    <3> DEFINE custom == CustomAliases(setting.files, setting.aliases)
               profiles == ResolveProfile(data.profile, setting.profile)
               found == TurnModel(data.route, custom, out, ask.name)
               prompt == SystemPrompt(ask.prompt, setting.prompt, setting.routes, PromptIndex(setting.corpora), setting.disk,
                                      Reroute(out, NameFor(data.route, custom, ask.name)))
               images == ask.vision /\ data.route = "anthropic" /\ ImagesSent(custom, ask.name)
               visible == LET shown == SelectSeq(ask.tools, LAMBDA t : ToolAllowed(t.name, The(profiles)))
                          IN  [i \in DOMAIN shown |-> shown[i].name]
               open == out
               name == ask.name
               model == The(found)
    <3>1. /\ model = The(TurnModel(data.route, custom, open, name))
          /\ data'.custom = custom /\ data'.open = open /\ data'.name = name /\ data'.model = model
      <4>1. \/ Answered(BadRequest)
            \/ To("chosen", [route |-> data.route, custom |-> custom, name |-> name, open |-> open,
                             model |-> model, prompt |-> prompt, images |-> images, visible |-> visible])
        BY <3>0, Zenon
      <4>2. model = The(TurnModel(data.route, custom, open, name))
        OBVIOUS
      <4> HIDE DEF custom, profiles, found, prompt, images, visible, open, name, model
      <4> QED BY <2>3, <4>1, <4>2 DEF To, Answered
    <3> HIDE DEF custom, profiles, found, prompt, images, visible, open, name, model
    <3>2. ASSUME Heard(custom, name), name \in AvailableModels(custom)
          PROVE  \/ ToneFor(custom, model) = Advertised(custom)[name]
                 \/ \E alt \in DOMAIN CANONICAL_MODELS :
                      Replaces(open, alt, The(Resolve(custom, name))) /\ ToneFor(custom, model) = Advertised(custom)[alt]
      BY <3>1, <3>2, FoundTone
    <3> QED BY <3>1, <3>2, Zenon DEF ToneAdvertised
  <2>4. CASE Choose /\ stage' # "chosen"
    BY <2>1, <2>4
  <2>5. CASE Arrive
    <3>1. stage' # "chosen"
      BY <2>5 DEF Arrive, To, Answered
    <3> QED BY <2>1, <3>1
  <2>6. CASE Format
    <3>1. stage' # "chosen"
      BY <2>6 DEF Format, Prompted, To
    <3> QED BY <2>1, <3>1
  <2>7. CASE Ship
    <3>1. stage' # "chosen"
      BY <2>7 DEF Ship, To
    <3> QED BY <2>1, <3>1
  <2>8. CASE AnswerCall
    <3>1. stage' # "chosen"
      BY <2>8 DEF AnswerCall, Parsed, To
    <3> QED BY <2>1, <3>1
  <2>9. CASE AnswerFreely
    <3>1. stage' # "chosen"
      BY <2>9 DEF AnswerFreely, Parsed, To
    <3> QED BY <2>1, <3>1
  <2>10. CASE Deliver
    <3>1. stage' # "chosen"
      BY <2>10 DEF Deliver, To, Answered
    <3> QED BY <2>1, <3>1
  <2>11. CASE Orient
    <3>1. stage' # "chosen"
      BY <2>11 DEF Orient, Parsed, To
    <3> QED BY <2>1, <3>1
  <2>12. CASE Fail
    <3>1. stage' # "chosen"
      BY <2>12 DEF Fail, To
    <3> QED BY <2>1, <3>1
  <2>13. CASE UpstreamAnswers
    <3>1. stage' # "chosen"
      BY <2>13 DEF UpstreamAnswers, To, Answered
    <3> QED BY <2>1, <3>1
  <2>14. CASE Chunk
    <3>1. stage' # "chosen"
      BY <2>14 DEF Chunk, To
    <3> QED BY <2>1, <3>1
  <2>15. CASE UpstreamEnds
    <3>1. stage' # "chosen"
      BY <2>15 DEF UpstreamEnds, To
    <3> QED BY <2>1, <3>1
  <2>16. CASE Done
    <3>1. stage' # "chosen"
      BY <2>16 DEF Done, To
    <3> QED BY <2>1, <3>1
  <2> QED BY <2>2, <2>3, <2>4, <2>5, <2>6, <2>7, <2>8, <2>9, <2>10, <2>11, <2>12, <2>13, <2>14, <2>15, <2>16 DEF Next
<1> QED BY <1>1, <1>2, PTL DEF Spec

-----------------------------------------------------------------------------
(* Repairs. *)

\* The arguments, some of them under names that the schema requires.
Renamings(tool, args) ==
  UNION {[D -> Range(args)] : D \in SUBSET (DOMAIN args \cup Range(tool.required))}

\* What is known of them after some of the missing properties were looked at: as many
\* as were given, the declared ones in place, each new one from a name that may mean it,
\* and for a property that was found no name is left that may mean it too.
HalfRepaired(tool, args, known) ==
  /\ IsFiniteSet(DOMAIN known) /\ Cardinality(DOMAIN known) = Cardinality(DOMAIN args)
  /\ DOMAIN args \cap Range(tool.props) \subseteq DOMAIN known
  /\ \A p \in DOMAIN args \cap DOMAIN known : known[p] = args[p]
  /\ \A p \in DOMAIN known \ DOMAIN args :
       /\ p \in Range(tool.required)
       /\ \E q \in DOMAIN args \ Range(tool.props) : AliasScore(q, p) > 0 /\ args[q] = known[p]
       /\ Candidates(tool, args, known, p) = {}
Repairs(tool, args) == {known \in Renamings(tool, args) : HalfRepaired(tool, args, known)}

LEMMA MissingIs ==
  ASSUME NEW tool, IsTool(tool), NEW args
  PROVE  /\ Missing(tool, args) \in Seq(Range(tool.required))
         /\ Range(Missing(tool, args)) = Range(tool.required) \ DOMAIN args
<1>1. tool.required \in Seq(Range(tool.required))
  BY DEF IsTool
<1> QED BY <1>1, OnlySound DEF Missing

LEMMA NothingRepaired ==
  ASSUME NEW tool, NEW args, IsArgs(args)
  PROVE  args \in Repairs(tool, args)
<1>1. args \in [DOMAIN args -> Range(args)] /\ IsFiniteSet(DOMAIN args)
  BY DEF IsArgs
<1>2. args \in Renamings(tool, args)
  BY <1>1 DEF Renamings
<1>3. HalfRepaired(tool, args, args)
  BY <1>1 DEF HalfRepaired
<1> QED BY <1>2, <1>3 DEF Repairs

\* A missing property takes one name or none.
LEMMA TakeRepairs ==
  ASSUME NEW tool, NEW args, NEW known \in Repairs(tool, args),
         NEW target \in Range(tool.required) \ DOMAIN args
  PROVE  Take(tool, args, known, target) \in Repairs(tool, args)
<1> DEFINE C == Candidates(tool, args, known, target)
           next == Take(tool, args, known, target)
<1>1. /\ known \in Renamings(tool, args)
      /\ IsFiniteSet(DOMAIN known) /\ Cardinality(DOMAIN known) = Cardinality(DOMAIN args)
      /\ DOMAIN args \cap Range(tool.props) \subseteq DOMAIN known
      /\ \A p \in DOMAIN args \cap DOMAIN known : known[p] = args[p]
      /\ \A p \in DOMAIN known \ DOMAIN args :
           /\ p \in Range(tool.required)
           /\ \E q \in DOMAIN args \ Range(tool.props) : AliasScore(q, p) > 0 /\ args[q] = known[p]
           /\ Candidates(tool, args, known, p) = {}
  BY DEF Repairs, HalfRepaired
<1>2. CASE Cardinality(C) # 1
  BY <1>2 DEF Take
<1>3. CASE Cardinality(C) = 1
  <2>1. IsFiniteSet(C)
    <3>1. C \subseteq DOMAIN known
      BY DEF Candidates
    <3> QED BY <1>1, <3>1, FS_Subset
  <2>2. PICK p : C = {p}
    BY <1>3, <2>1, FS_Singleton
  <2>3. p \in DOMAIN known \ Range(tool.props) /\ p \in DOMAIN args /\ AliasScore(p, target) > 0
    BY <2>2 DEF Candidates
  <2>4. next = Renamed(known, p, target)
    BY <1>3, <2>2 DEF Take
  <2>5. target \notin DOMAIN known /\ p # target
    BY <1>1, <2>2, <2>3
  <2>6. /\ DOMAIN next = (DOMAIN known \ {p}) \cup {target}
        /\ next[target] = args[p]
        /\ \A q \in DOMAIN known \ {p} : next[q] = known[q]
    BY <1>1, <2>3, <2>4, <2>5 DEF Renamed
  <2>7. next = [q \in DOMAIN next |-> next[q]]
    BY <2>4, <2>6 DEF Renamed
  <2> HIDE DEF next
  <2>8. next \in Renamings(tool, args)
    <3>1. PICK D \in SUBSET (DOMAIN args \cup Range(tool.required)) : known \in [D -> Range(args)]
      BY <1>1 DEF Renamings
    <3>2. DOMAIN next \in SUBSET (DOMAIN args \cup Range(tool.required))
      BY <2>6, <3>1
    <3>3. \A q \in DOMAIN next : next[q] \in Range(args)
      <4>1. args[p] \in Range(args)
        BY <2>3 DEF Range
      <4> QED BY <2>6, <3>1, <4>1
    <3>4. next \in [DOMAIN next -> Range(args)]
      BY <2>7, <3>3
    <3> QED BY <3>2, <3>4 DEF Renamings
  <2>9. IsFiniteSet(DOMAIN next) /\ Cardinality(DOMAIN next) = Cardinality(DOMAIN args)
    <3> DEFINE D == DOMAIN known
               E == D \ {p}
    <3>1. IsFiniteSet(E) /\ Cardinality(E) = Cardinality(D) - 1
      BY <1>1, <2>3, FS_RemoveElement
    <3>2. target \notin E
      BY <2>5
    <3> HIDE DEF E
    <3>3. IsFiniteSet(E \cup {target}) /\ Cardinality(E \cup {target}) = Cardinality(E) + 1
      BY <3>1, <3>2, FS_AddElement
    <3>4. Cardinality(D) \in Nat
      BY <1>1, FS_CardinalityType
    <3>5. DOMAIN next = E \cup {target}
      BY <2>6 DEF E
    <3> QED BY <1>1, <3>1, <3>3, <3>4, <3>5
  <2>10. \A q \in DOMAIN next \ DOMAIN args :
           /\ q \in Range(tool.required)
           /\ \E r \in DOMAIN args \ Range(tool.props) : AliasScore(r, q) > 0 /\ args[r] = next[q]
           /\ Candidates(tool, args, next, q) = {}
    <3> TAKE q \in DOMAIN next \ DOMAIN args
    <3>1. Candidates(tool, args, next, q) \subseteq Candidates(tool, args, known, q) \ {p}
      BY <2>5, <2>6 DEF Candidates
    <3>2. CASE q = target
      BY <2>2, <2>3, <2>6, <3>1, <3>2
    <3>3. CASE q # target
      <4>1. q \in DOMAIN known \ DOMAIN args /\ next[q] = known[q]
        BY <2>3, <2>6, <3>3
      <4> QED BY <1>1, <3>1, <4>1
    <3> QED BY <3>2, <3>3
  <2>11. DOMAIN args \cap Range(tool.props) \subseteq DOMAIN next
    BY <1>1, <2>3, <2>6
  <2>12. \A q \in DOMAIN args \cap DOMAIN next : next[q] = args[q]
    BY <1>1, <2>6
  <2>13. HalfRepaired(tool, args, next)
    BY <2>9, <2>10, <2>11, <2>12 DEF HalfRepaired
  <2> QED BY <2>8, <2>13 DEF Repairs, next
<1> QED BY <1>2, <1>3

\* What repairPropertyAliases returns.
LEMMA RepairsAre ==
  ASSUME NEW tool, IsTool(tool), NEW args, IsArgs(args)
  PROVE  RepairPropertyAliases(tool, args) \in Repairs(tool, args)
<1> DEFINE Step(i, x) == Take(tool, args, x, Missing(tool, args)[i])
           Runs(f) == f = [i \in 0..Len(Missing(tool, args)) |-> IF i = 0 THEN args ELSE Take(tool, args, f[i - 1], Missing(tool, args)[i])]
           F == CHOOSE f : Runs(f)
<1>0. Len(Missing(tool, args)) \in Nat /\ args \in Repairs(tool, args)
  BY MissingIs, NothingRepaired, LenProperties
<1>1. RepairPropertyAliases(tool, args) = F[Len(Missing(tool, args))]
  BY DEF RepairPropertyAliases
<1>2. \A i \in 1..Len(Missing(tool, args)), x \in Repairs(tool, args) : Step(i, x) \in Repairs(tool, args)
  <2>1. \A i \in 1..Len(Missing(tool, args)) : Missing(tool, args)[i] \in Range(tool.required) \ DOMAIN args
    <3> DEFINE m == Missing(tool, args)
    <3>1. m \in Seq(Range(tool.required)) /\ Range(m) = Range(tool.required) \ DOMAIN args
      BY MissingIs
    <3> HIDE DEF m
    <3>2. \A i \in 1..Len(m) : m[i] \in Range(m)
      BY <3>1 DEF Range
    <3> QED BY <3>1, <3>2 DEF m
  <2> QED BY <2>1, TakeRepairs
<1>3. PICK f \in [0..Len(Missing(tool, args)) -> Repairs(tool, args)] : f[0] = args /\ \A i \in 1..Len(Missing(tool, args)) : f[i] = Step(i, f[i - 1])
  <2> DEFINE G == [p \in (1..Len(Missing(tool, args))) \X Repairs(tool, args) |-> Step(p[1], p[2])]
  <2> HIDE DEF Step
  <2>1. \A i \in 1..Len(Missing(tool, args)), x \in Repairs(tool, args) : G[<<i, x>>] = Step(i, x)
    OBVIOUS
  <2> HIDE DEF G
  <2>2. \A i \in 1..Len(Missing(tool, args)), x \in Repairs(tool, args) : G[<<i, x>>] \in Repairs(tool, args)
    BY <1>2, <2>1
  <2>3. PICK f \in [0..Len(Missing(tool, args)) -> Repairs(tool, args)] : RunOf(f, Len(Missing(tool, args)), args, G)
    BY <1>0, <2>2, Iterates
  <2>4. \A i \in 1..Len(Missing(tool, args)) : i - 1 \in 0..Len(Missing(tool, args))
    BY <1>0
  <2>5. f[0] = args /\ \A i \in 1..Len(Missing(tool, args)) : f[i] = G[<<i, f[i - 1]>>]
    BY <2>3 DEF RunOf
  <2>6. \A i \in 1..Len(Missing(tool, args)) : f[i - 1] \in Repairs(tool, args)
    BY <2>3, <2>4, Zenon
  <2>7. \A i \in 1..Len(Missing(tool, args)) : f[i] = Step(i, f[i - 1])
    <3> TAKE i \in 1..Len(Missing(tool, args))
    <3>1. G[<<i, f[i - 1]>>] = Step(i, f[i - 1])
      BY <2>1, <2>6, Zenon
    <3> QED BY <2>5, <3>1, Zenon
  <2> QED BY <2>3, <2>5, <2>7, Zenon
<1>4. Runs(f)
  <2>1. \A i \in 0..Len(Missing(tool, args)) : f[i] = IF i = 0 THEN args ELSE Take(tool, args, f[i - 1], Missing(tool, args)[i])
    <3> HIDE DEF F
    <3> TAKE i \in 0..Len(Missing(tool, args))
    <3>1. CASE i = 0
      BY <3>1, <1>3
    <3>2. CASE i # 0
      <4>1. i \in 1..Len(Missing(tool, args))
        BY <1>0, <3>2
      <4> QED BY <4>1, <3>2, <1>3, Zenon
    <3> QED BY <3>1, <3>2
  <2> QED BY <2>1, <1>3, Zenon
<1>5. Runs(F)
  <2> HIDE DEF Runs
  <2> QED BY <1>4
<1>6. F[0] = args /\ F = [i \in 0..Len(Missing(tool, args)) |-> F[i]] /\ \A i \in 1..Len(Missing(tool, args)) : F[i] = Step(i, F[i - 1])
  <2> HIDE DEF F
  <2>1. \A i \in 0..Len(Missing(tool, args)) : F[i] = IF i = 0 THEN args ELSE Take(tool, args, F[i - 1], Missing(tool, args)[i])
    BY <1>5, Zenon
  <2>2. F = [i \in 0..Len(Missing(tool, args)) |-> F[i]]
    BY <1>5, <2>1, Zenon
  <2>3. \A i \in 1..Len(Missing(tool, args)) : i \in 0..Len(Missing(tool, args)) /\ i # 0
    BY <1>0
  <2>4. 0 \in 0..Len(Missing(tool, args))
    BY <1>0
  <2> QED BY <2>1, <2>2, <2>3, <2>4, Zenon
<1> HIDE DEF F, Runs
<1>7. F \in [0..Len(Missing(tool, args)) -> Repairs(tool, args)]
  <2> HIDE DEF Step
  <2>1. \A i \in 1..Len(Missing(tool, args)) : F[i - 1] \in Repairs(tool, args) => F[i] \in Repairs(tool, args)
    BY <1>2, <1>6
  <2> QED BY <1>0, <1>6, <2>1, RunStays, Zenon
<1>8. Len(Missing(tool, args)) \in 0..Len(Missing(tool, args))
  BY <1>0
<1> QED BY <1>1, <1>7, <1>8

\* A call that was parsed, and several.
IsCall(call) == call = [name |-> call.name, args |-> call.args] /\ IsArgs(call.args)
AreCalls(calls) == calls \in Seq(Range(calls)) /\ \A call \in Range(calls) : IsCall(call)
AreTools(tools) == \A tool \in Range(tools) : IsTool(tool)

LEMMA SameIsRenamed == ASSUME NEW tool, NEW call PROVE OnlyRenamed(tool, call, call)
BY DEF OnlyRenamed

LEMMA RepairedIsRenamed ==
  ASSUME NEW tool, IsTool(tool), NEW call, IsCall(call)
  PROVE  OnlyRenamed(tool, call, [call EXCEPT !.args = RepairPropertyAliases(tool, call.args)])
<1> DEFINE args == call.args
           repaired == RepairPropertyAliases(tool, args)
           after == [call EXCEPT !.args = repaired]
<1>1. repaired \in Repairs(tool, args)
  <2>1. IsArgs(args)
    BY DEF IsCall
  <2> QED BY <2>1, RepairsAre
<1> HIDE DEF repaired
<1>2. HalfRepaired(tool, args, repaired)
  BY <1>1 DEF Repairs
<1>3. after.name = call.name /\ after.args = repaired
  BY DEF IsCall
<1> HIDE DEF after, args
<1>4. OnlyRenamed(tool, call, after)
  BY <1>2, <1>3 DEF OnlyRenamed, HalfRepaired, args
<1> QED BY <1>4 DEF after, args, repaired

\* The registry lets a call pass that one of the tools validates, as it is or with
\* values under other names.
LEMMA RegistrySound ==
  ASSUME NEW tools, AreTools(tools), NEW call, IsCall(call), NEW checked \in ValidateAndRepair(tools, call)
  PROVE  \E tool \in Range(tools) :
           tool.name = checked.name /\ Validates(tool, checked.args) /\ OnlyRenamed(tool, call, checked)
<1> DEFINE declared == {i \in DOMAIN tools : tools[i].name = call.name}
           tool == tools[CHOOSE i \in declared : TRUE]
           repaired == RepairPropertyAliases(tool, call.args)
           after == [call EXCEPT !.args = repaired]
<1>1. declared # {} /\ (\/ checked = call /\ Validates(tool, call.args)
                        \/ checked = after /\ Validates(tool, repaired))
  BY DEF ValidateAndRepair
<1>2. tool \in Range(tools) /\ tool.name = call.name
  <2>1. (CHOOSE i \in declared : TRUE) \in declared
    BY <1>1
  <2> QED BY <2>1 DEF Range
<1>3. IsTool(tool)
  BY <1>2 DEF AreTools
<1> HIDE DEF tool, declared
<1>4. CASE checked = call /\ Validates(tool, call.args)
  BY <1>2, <1>4, SameIsRenamed
<1>5. CASE checked = after /\ Validates(tool, repaired)
  <2>1. OnlyRenamed(tool, call, after)
    BY <1>3, RepairedIsRenamed
  <2>2. after.name = call.name /\ after.args = repaired
    BY DEF IsCall
  <2> HIDE DEF after, repaired
  <2> QED BY <1>2, <1>5, <2>1, <2>2
<1> QED BY <1>1, <1>4, <1>5

LEMMA BashRepairIsCall ==
  ASSUME NEW call, IsCall(call)
  PROVE  IsCall(RepairBash(call))
<1> DEFINE args == [call.args EXCEPT !["command"] = RepairedCommand(@)]
<1>1. CASE RepairBash(call) = call
  BY <1>1
<1>2. CASE RepairBash(call) = [call EXCEPT !.args["command"] = RepairedCommand(@)]
  <2>1. RepairBash(call) = [name |-> call.name, args |-> args]
    <3>1. [call EXCEPT !.args["command"] = RepairedCommand(@)] = [call EXCEPT !.args = args]
      OBVIOUS
    <3> HIDE DEF args
    <3>2. call = [name |-> call.name, args |-> call.args]
      BY DEF IsCall
    <3>3. [call EXCEPT !.args = args] = [name |-> call.name, args |-> args]
      BY <3>2
    <3> QED BY <1>2, <3>1, <3>3, Zenon
  <2>2. DOMAIN args = DOMAIN call.args /\ args = [p \in DOMAIN args |-> args[p]]
    OBVIOUS
  <2> HIDE DEF args
  <2>3. args \in [DOMAIN args -> Range(args)]
    BY <2>2 DEF Range
  <2> QED BY <2>1, <2>2, <2>3 DEF IsCall, IsArgs
<1> QED BY <1>1, <1>2 DEF RepairBash

\* What produce gives to the client to run.
LEMMA ProducedSound ==
  ASSUME NEW tools, AreTools(tools), NEW parsed, AreCalls(parsed.calls), NEW full, NEW single,
         NEW result, result = Produced(parsed, full, tools, single), result.kind = "tools"
  PROVE  \A call \in Range(result.calls) :
           \E tool \in Range(tools), given \in Range(parsed.calls) :
             /\ tool.name = call.name /\ Validates(tool, call.args)
             /\ OnlyRenamed(tool, RepairBash(given), call)
<1> DEFINE real == Only(parsed.calls, {c \in Range(parsed.calls) : c.name # "reply"})
           kept == IF single THEN <<RepairBash(real[1])>> ELSE [i \in DOMAIN real |-> RepairBash(real[i])]
           checked == [i \in DOMAIN kept |-> ValidateAndRepair(tools, kept[i])]
           calls == [i \in DOMAIN checked |-> CHOOSE c \in checked[i] : TRUE]
<1>1. /\ real # <<>> /\ result = ToolCalls(calls)
      /\ \A i \in DOMAIN checked : checked[i] # {}
  BY DEF Produced, Text, Refusal
<1>2. real \in Seq(Range(parsed.calls)) /\ Range(real) \subseteq Range(parsed.calls)
  BY OnlySound DEF AreCalls
<1>3. result.calls = calls
  BY <1>1 DEF ToolCalls
<1> HIDE DEF real
<1>4. \A i \in DOMAIN kept : \E given \in Range(parsed.calls) : kept[i] = RepairBash(given)
  <2>1. \A i \in DOMAIN real : real[i] \in Range(parsed.calls)
    BY <1>2 DEF Range
  <2>2. 1 \in DOMAIN real
    BY <1>1, <1>2
  <2>3. CASE single
    <3>1. kept = <<RepairBash(real[1])>>
      BY <2>3
    <3> HIDE DEF kept
    <3> QED BY <2>1, <2>2, <3>1
  <2>4. CASE ~single
    BY <2>1, <2>4
  <2> QED BY <2>3, <2>4
<1>5. \A i \in DOMAIN calls : i \in DOMAIN kept /\ calls[i] \in ValidateAndRepair(tools, kept[i])
  <2> HIDE DEF kept
  <2> QED BY <1>1
<1> HIDE DEF kept, checked, calls
<1> TAKE call \in Range(result.calls)
<1>6. PICK i \in DOMAIN calls : call = calls[i]
  BY <1>3 DEF Range
<1>7. PICK given \in Range(parsed.calls) : kept[i] = RepairBash(given)
  BY <1>4, <1>5
<1>8. IsCall(RepairBash(given))
  BY <1>7, BashRepairIsCall DEF AreCalls
<1>9. call \in ValidateAndRepair(tools, RepairBash(given))
  BY <1>5, <1>6, <1>7
<1>10. PICK tool \in Range(tools) :
         tool.name = call.name /\ Validates(tool, call.args) /\ OnlyRenamed(tool, RepairBash(given), call)
  BY <1>8, <1>9, RegistrySound
<1> QED BY <1>7, <1>10

-----------------------------------------------------------------------------
(* Scans: loops that may skip some of the numbers they count down. *)

\* The k last values of such a loop, where N[i] is the number that comes after i.
ScanOf(f, k, n, base, N, G) ==
  f[n + 1] = base /\ \A i \in (n + 1 - k)..n : f[i] = G[<<i, f[N[i]]>>]

LEMMA Scans ==
  ASSUME NEW S, NEW n \in Nat, NEW base \in S, NEW N, \A i \in 1..n : N[i] \in (i + 1)..(n + 1),
         NEW G, \A i \in 1..n, x \in S : G[<<i, x>>] \in S
  PROVE  \E f \in [1..(n + 1) -> S] : ScanOf(f, n, n, base, N, G)
<1> DEFINE Late(k) == (n + 1 - k)..(n + 1)
           T == {k \in Nat : k <= n => \E f \in [Late(k) -> S] : ScanOf(f, k, n, base, N, G)}
<1>1. 0 \in T
  <2> DEFINE f == [i \in Late(0) |-> base]
  <2>1. f \in [Late(0) -> S] /\ ScanOf(f, 0, n, base, N, G)
    BY DEF ScanOf
  <2> QED BY <2>1
<1>2. ASSUME NEW k \in Nat, k \in T PROVE k + 1 \in T
  <2> SUFFICES ASSUME k + 1 <= n PROVE \E f \in [Late(k + 1) -> S] : ScanOf(f, k + 1, n, base, N, G)
    OBVIOUS
  <2>1. PICK f \in [Late(k) -> S] : ScanOf(f, k, n, base, N, G)
    <3> HIDE DEF Late
    <3> QED BY <1>2
  <2> DEFINE m == n - k
             new == G[<<m, f[N[m]]>>]
             g == [i \in Late(k + 1) |-> IF i = m THEN new ELSE f[i]]
  <2>2. m \in 1..n /\ N[m] \in Late(k) /\ n + 1 - (k + 1) = m /\ n + 1 - k = m + 1
    OBVIOUS
  <2>3. new \in S
    <3>1. f[N[m]] \in S
      BY <2>1, <2>2
    <3> QED BY <2>2, <3>1
  <2>4. \A i \in Late(k + 1) : i = m \/ i \in Late(k)
    BY <2>2
  <2>5. m \in Late(k + 1) /\ \A i \in Late(k) : i \in Late(k + 1) /\ i # m
    BY <2>2
  <2> HIDE DEF new, m
  <2>6. g \in [Late(k + 1) -> S]
    BY <2>1, <2>3, <2>4
  <2>7. g[m] = new /\ \A i \in Late(k) : g[i] = f[i]
    BY <2>5
  <2>8. n + 1 \in Late(k)
    OBVIOUS
  <2>9. ASSUME NEW i \in m..n PROVE g[i] = G[<<i, g[N[i]]>>]
    <3>1. i \in 1..n /\ N[i] \in Late(k)
      BY <2>2, <2>9
    <3>2. g[N[i]] = f[N[i]]
      BY <2>7, <3>1
    <3>3. CASE i = m
      BY <2>7, <3>2, <3>3 DEF new
    <3>4. CASE i # m
      <4>1. i \in Late(k) /\ i \in (n + 1 - k)..n
        BY <2>2, <2>9, <3>4
      <4>2. f[i] = G[<<i, f[N[i]]>>] /\ g[i] = f[i]
        BY <2>1, <2>7, <4>1 DEF ScanOf
      <4> HIDE DEF g
      <4> QED BY <3>2, <4>2
    <3> QED BY <3>3, <3>4
  <2> HIDE DEF g
  <2>10. g[n + 1] = base
    BY <2>1, <2>7, <2>8 DEF ScanOf
  <2>11. ScanOf(g, k + 1, n, base, N, G)
    BY <2>2, <2>9, <2>10 DEF ScanOf
  <2> HIDE DEF Late
  <2> QED BY <2>6, <2>11
<1>3. \A k \in Nat : k \in T
  <2> HIDE DEF T
  <2> QED BY <1>1, <1>2, Induction
<1>4. PICK f \in [Late(n) -> S] : ScanOf(f, n, n, base, N, G)
  <2> HIDE DEF Late
  <2> QED BY <1>3
<1>5. n + 1 - n = 1
  OBVIOUS
<1> QED BY <1>4, <1>5

LEMMA ScanStays ==
  ASSUME NEW S, NEW n \in Nat, NEW F, NEW N, \A i \in 1..n : N[i] \in (i + 1)..(n + 1),
         F[n + 1] \in S, \A i \in 1..n : F[N[i]] \in S => F[i] \in S
  PROVE  \A i \in 1..(n + 1) : F[i] \in S
<1> DEFINE T == {k \in Nat : \A i \in 1..(n + 1) : i >= n + 1 - k => F[i] \in S}
<1>1. 0 \in T
  OBVIOUS
<1>2. ASSUME NEW k \in Nat, k \in T PROVE k + 1 \in T
  <2> SUFFICES ASSUME NEW i \in 1..(n + 1), i >= n + 1 - (k + 1) PROVE F[i] \in S
    OBVIOUS
  <2>1. \A j \in 1..(n + 1) : j >= n + 1 - k => F[j] \in S
    BY <1>2
  <2>2. CASE i >= n + 1 - k
    BY <2>1, <2>2
  <2>3. CASE i < n + 1 - k
    <3>1. i \in 1..n /\ N[i] \in 1..(n + 1) /\ N[i] >= n + 1 - k
      BY <2>3
    <3> QED BY <2>1, <3>1
  <2> QED BY <2>2, <2>3
<1>3. \A k \in Nat : k \in T
  <2> HIDE DEF T
  <2> QED BY <1>1, <1>2, Induction
<1>4. n \in T
  BY <1>3
<1> QED BY <1>4

-----------------------------------------------------------------------------
(* Parsing. *)

LEMMA SmallestIs ==
  ASSUME NEW P \in SUBSET Nat, P # {}
  PROVE  SmallestOf(P) \in P /\ \A j \in P : SmallestOf(P) <= j
BY LeastExists DEF SmallestOf

LEMMA WithIsArgs ==
  ASSUME NEW args, IsArgs(args), NEW p, NEW v
  PROVE  IsArgs(With(args, p, v))
<1> DEFINE next == With(args, p, v)
<1>1. DOMAIN next = DOMAIN args \cup {p} /\ next = [q \in DOMAIN next |-> next[q]]
  BY DEF With
<1> HIDE DEF next
<1>2. IsFiniteSet(DOMAIN next)
  BY <1>1, FS_AddElement DEF IsArgs
<1>3. next \in [DOMAIN next -> Range(next)]
  BY <1>1 DEF Range
<1> QED BY <1>2, <1>3 DEF IsArgs, next

\* A parsed fence has finitely many arguments.
LEMMA FencedArgs ==
  ASSUME NEW E, NEW inner \in Seq(E), NEW spec, NEW args \in ParseFencedInner(spec, inner)
  PROVE  IsArgs(args)
<1> DEFINE IsHeader(line) == Kind(line) = "pair" /\ \E i \in DOMAIN spec.headers : spec.headers[i] = line[2]
           stops == {i \in DOMAIN inner : ~IsHeader(inner[i])} \cup {Len(inner) + 1}
           stop == IF spec.headers = <<>> THEN 1 ELSE SmallestOf(stops)
           blank == spec.headers # <<>> /\ stop <= Len(inner) /\ inner[stop] = Blank
           keys == {inner[i][2] : i \in 1..stop - 1}
           last(k) == CHOOSE i \in 1..stop - 1 : inner[i][2] = k /\ \A j \in i + 1..stop - 1 : inner[j][2] # k
           given == [k \in keys |-> <<inner[last(k)][3]>>]
           rest == From(inner, IF blank THEN stop + 1 ELSE stop)
<1>1. stop \in Nat
  <2> HIDE DEF IsHeader
  <2>1. stops \in SUBSET Nat /\ stops # {}
    <3>1. DOMAIN inner \subseteq Nat /\ Len(inner) + 1 \in Nat
      OBVIOUS
    <3> QED BY <3>1
  <2> HIDE DEF stops
  <2> QED BY <2>1, SmallestIs
<1>2. \/ args \in {With(With(given, spec.edit[2], e[2]), spec.edit[1], e[1]) : e \in ParseEdit(rest)}
      \/ args = With(given, spec.body, rest)
      \/ args = given
  BY DEF ParseFencedInner
<1> HIDE DEF stop, rest
<1>3. IsFiniteSet(keys)
  <2> DEFINE f == [i \in 1..stop - 1 |-> inner[i][2]]
  <2>1. f \in Surjection(1..stop - 1, keys)
    BY DEF Surjection
  <2>2. IsFiniteSet(1..stop - 1)
    BY <1>1, FS_Interval
  <2> QED BY <2>1, <2>2, FS_Surjection
<1> HIDE DEF keys
<1>4. IsArgs(given)
  <2>1. DOMAIN given = keys /\ given = [k \in keys |-> given[k]]
    <3> HIDE DEF last
    <3> QED OBVIOUS
  <2> HIDE DEF given
  <2> QED BY <1>3, <2>1 DEF IsArgs, Range
<1> HIDE DEF given
<1> QED BY <1>2, <1>4, WithIsArgs

LEMMA OrEmptyIs ==
  ASSUME NEW E, NEW lines \in Seq(E)
  PROVE  OrEmpty(lines) \in Seq(E \cup {Blank})
<1>1. <<Blank>> \in Seq(E \cup {Blank}) /\ lines \in Seq(E \cup {Blank})
  OBVIOUS
<1> QED BY <1>1 DEF OrEmpty, EmptyText

\* A line that opens a fence which is closed later, where it is closed, what is in it and
\* what that means; where the scan goes on, and the fences from a line on with a call.
OpensAt(lines, specs, i) == Kind(lines[i]) = "open" /\ lines[i][3] \in DOMAIN specs /\ Closings(lines, i) # {}
ClosesAt(lines, i) == SmallestOf(Closings(lines, i))
InsideAt(lines, i) == OrEmpty(SubSeq(lines, i + 1, ClosesAt(lines, i) - 1))
FoundAt(lines, specs, i) == ParseFencedInner(specs[lines[i][3]], InsideAt(lines, i))
CallAt(lines, specs, i) == [name |-> specs[lines[i][3]].name, args |-> CHOOSE args \in FoundAt(lines, specs, i) : TRUE]
AfterAt(lines, specs, i) == IF OpensAt(lines, specs, i) THEN ClosesAt(lines, i) + 1 ELSE i + 1
HitsFrom(lines, specs, i) == {j \in i..Len(lines) : OpensAt(lines, specs, j) /\ FoundAt(lines, specs, j) # {}}
CallsFrom(lines, specs, i) == {CallAt(lines, specs, j) : j \in HitsFrom(lines, specs, i)}

\* The calls that the scan has when it gets to a line.
ScanRun(F, lines, specs) ==
  /\ F[Len(lines) + 1].calls = <<>>
  /\ \A i \in 1..Len(lines) :
       F[i].calls = IF OpensAt(lines, specs, i) /\ FoundAt(lines, specs, i) # {}
                    THEN <<CallAt(lines, specs, i)>> \o F[AfterAt(lines, specs, i)].calls
                    ELSE F[AfterAt(lines, specs, i)].calls
  /\ \A i \in 1..Len(lines) + 1 : F[i].calls \in Seq(CallsFrom(lines, specs, 1))

LEMMA AfterIsLater ==
  ASSUME NEW E, NEW lines \in Seq(E), NEW specs, NEW i \in 1..Len(lines)
  PROVE  /\ OpensAt(lines, specs, i) => ClosesAt(lines, i) \in (i + 1)..Len(lines) /\ ClosesAt(lines, i) \in Closings(lines, i)
         /\ AfterAt(lines, specs, i) \in (i + 1)..(Len(lines) + 1)
<1>1. OpensAt(lines, specs, i) => ClosesAt(lines, i) \in (i + 1)..Len(lines) /\ ClosesAt(lines, i) \in Closings(lines, i)
  <2> SUFFICES ASSUME OpensAt(lines, specs, i)
               PROVE ClosesAt(lines, i) \in (i + 1)..Len(lines) /\ ClosesAt(lines, i) \in Closings(lines, i)
    OBVIOUS
  <2>1. Closings(lines, i) \in SUBSET Nat /\ Closings(lines, i) \subseteq (i + 1)..Len(lines) /\ Closings(lines, i) # {}
    BY DEF Closings, OpensAt
  <2> QED BY <2>1, SmallestIs DEF ClosesAt
<1>2. Len(lines) \in Nat
  OBVIOUS
<1> QED BY <1>1, <1>2 DEF AfterAt

LEMMA FencedRun ==
  ASSUME NEW E, NEW lines \in Seq(E), NEW specs
  PROVE  \E F : ParseFencedToolCalls(lines, specs) = F[1] /\ ScanRun(F, lines, specs)
<1> DEFINE n == Len(lines)
           IsOpen(i) == Kind(lines[i]) = "open" /\ lines[i][3] \in DOMAIN specs /\ Closings(lines, i) # {}
           c(i) == SmallestOf(Closings(lines, i))
           spec(i) == specs[lines[i][3]]
           found(i) == ParseFencedInner(spec(i), OrEmpty(SubSeq(lines, i + 1, c(i) - 1)))
           call(i) == [name |-> spec(i).name, args |-> CHOOSE args \in found(i) : TRUE]
           hits == {i \in 1..n : IsOpen(i) /\ found(i) # {}}
           Built == {call(i) : i \in hits}
           S == [calls : Seq(Built), left : Seq(E)]
           base == [calls |-> <<>>, left |-> <<>>]
           Step(i, x) ==
             IF ~IsOpen(i) THEN [x EXCEPT !.left = <<lines[i]>> \o @]
             ELSE IF found(i) = {} THEN [x EXCEPT !.left = SubSeq(lines, i, c(i)) \o @]
             ELSE [x EXCEPT !.calls = <<call(i)>> \o @]
           Body(f, i) ==
             IF ~IsOpen(i) THEN [f[i + 1] EXCEPT !.left = <<lines[i]>> \o @]
             ELSE IF found(i) = {} THEN [f[c(i) + 1] EXCEPT !.left = SubSeq(lines, i, c(i)) \o @]
             ELSE [f[c(i) + 1] EXCEPT !.calls = <<call(i)>> \o @]
           Runs(f) == f = [i \in 1..n + 1 |-> IF i > n THEN base ELSE Body(f, i)]
           F == CHOOSE f : Runs(f)
           N == [i \in 1..n |-> IF IsOpen(i) THEN c(i) + 1 ELSE i + 1]
<1>0. n \in Nat /\ \A i \in 1..n : lines[i] \in E
  BY ElementOfSeq
<1>1. ParseFencedToolCalls(lines, specs) = F[1]
  BY DEF ParseFencedToolCalls
<1>2. \A i \in 1..n : IsOpen(i) => c(i) \in i + 1..n
  <2> TAKE i \in 1..n
  <2> HAVE IsOpen(i)
  <2>1. Closings(lines, i) \in SUBSET Nat /\ Closings(lines, i) \subseteq i + 1..n /\ Closings(lines, i) # {}
    BY <1>0 DEF Closings
  <2> QED BY <2>1, SmallestIs
<1>3. \A i \in 1..n : N[i] \in (i + 1)..(n + 1)
  <2> HIDE DEF IsOpen, c
  <2> QED BY <1>0, <1>2
<1>5. base \in S
  OBVIOUS
<1>6. \A i \in 1..n, x \in S : Step(i, x) \in S
  <2> TAKE i \in 1..n, x \in S
  <2>1. x.calls \in Seq(Built) /\ x.left \in Seq(E) /\ x = [calls |-> x.calls, left |-> x.left]
    <3> HIDE DEF Built
    <3> QED OBVIOUS
  <2> DEFINE here == lines[i]
             part == SubSeq(lines, i, c(i))
             new == call(i)
  <2>2. here \in E
    BY <1>0
  <2>3. IsOpen(i) => part \in Seq(E)
    <3> HIDE DEF IsOpen, c
    <3>1. IsOpen(i) => i \in Nat \ {0} /\ c(i) \in Nat /\ c(i) <= Len(lines)
      BY <1>0, <1>2
    <3> QED BY <3>1, PartIs
  <2>4. IsOpen(i) /\ found(i) # {} => new \in Built
    <3> HIDE DEF IsOpen, call, found
    <3> QED OBVIOUS
  <2> HIDE DEF IsOpen, found, Built, here, part, new
  <2>5. [x EXCEPT !.left = <<here>> \o @] \in S
    <3>1. <<here>> \o x.left \in Seq(E)
      BY <2>1, <2>2
    <3> QED BY <2>1, <3>1
  <2>6. IsOpen(i) => [x EXCEPT !.left = part \o @] \in S
    <3>1. IsOpen(i) => part \o x.left \in Seq(E)
      BY <2>1, <2>3
    <3> QED BY <2>1, <3>1
  <2>7. IsOpen(i) /\ found(i) # {} => [x EXCEPT !.calls = <<new>> \o @] \in S
    <3>1. IsOpen(i) /\ found(i) # {} => <<new>> \o x.calls \in Seq(Built)
      BY <2>1, <2>4
    <3> QED BY <2>1, <3>1
  <2>8. Step(i, x) = IF ~IsOpen(i) THEN [x EXCEPT !.left = <<here>> \o @]
                     ELSE IF found(i) = {} THEN [x EXCEPT !.left = part \o @]
                     ELSE [x EXCEPT !.calls = <<new>> \o @]
    BY DEF here, part, new
  <2> HIDE DEF S, Step
  <2> QED BY <2>5, <2>6, <2>7, <2>8
<1>7. \A f : \A i \in 1..n : Body(f, i) = Step(i, f[N[i]])
  <2> TAKE f
  <2> TAKE i \in 1..n
  <2>1. IsOpen(i) => N[i] = c(i) + 1
    <3> HIDE DEF IsOpen, c
    <3> QED OBVIOUS
  <2>2. ~IsOpen(i) => N[i] = i + 1
    <3> HIDE DEF IsOpen, c
    <3> QED OBVIOUS
  <2> HIDE DEF N, IsOpen, found, call
  <2>3. CASE ~IsOpen(i)
    BY <2>2, <2>3
  <2>4. CASE IsOpen(i)
    <3> HIDE DEF c
    <3> QED BY <2>1, <2>4
  <2> QED BY <2>3, <2>4
<1> HIDE DEF S, Step, N
<1>8. \E f : Runs(f)
  <2> DEFINE G == [p \in (1..n) \X S |-> Step(p[1], p[2])]
  <2>1. \A i \in 1..n, x \in S : G[<<i, x>>] = Step(i, x)
    OBVIOUS
  <2> HIDE DEF G
  <2>2. \A i \in 1..n, x \in S : G[<<i, x>>] \in S
    BY <1>6, <2>1
  <2> HIDE DEF n, base
  <2>3. PICK f \in [1..(n + 1) -> S] : ScanOf(f, n, n, base, N, G)
    BY <1>0, <1>3, <1>5, <2>2, Scans
  <2>4. n + 1 - n = 1 /\ \A i \in 1..n : N[i] \in 1..(n + 1)
    BY <1>0, <1>3
  <2>5. f[n + 1] = base /\ \A i \in 1..n : f[i] = G[<<i, f[N[i]]>>]
    BY <2>3, <2>4 DEF ScanOf
  <2>6. \A i \in 1..n : f[i] = Step(i, f[N[i]])
    BY <2>1, <2>3, <2>4, <2>5
  <2>7. \A i \in 1..n : f[i] = Body(f, i)
    <3> HIDE DEF Body
    <3> QED BY <1>7, <2>6
  <2>8. \A i \in 1..(n + 1) : f[i] = IF i > n THEN base ELSE Body(f, i)
    <3> HIDE DEF Body
    <3>1. \A i \in 1..(n + 1) : IF i > n THEN i = n + 1 ELSE i \in 1..n
      BY <1>0
    <3> QED BY <2>5, <2>7, <3>1
  <2>9. Runs(f)
    <3> HIDE DEF Body
    <3> QED BY <2>3, <2>8
  <2> QED BY <2>9
<1>9. Runs(F)
  <2> HIDE DEF Runs
  <2> QED BY <1>8
<1>10. F[n + 1] = base /\ \A i \in 1..n : F[i] = Step(i, F[N[i]])
  <2> HIDE DEF F, Body, base
  <2>1. \A i \in 1..(n + 1) : F[i] = IF i > n THEN base ELSE Body(F, i)
    BY <1>9, Zenon
  <2>2. n + 1 \in 1..(n + 1) /\ n + 1 > n /\ \A i \in 1..n : i \in 1..(n + 1) /\ ~(i > n)
    BY <1>0
  <2>3. F[n + 1] = base
    BY <2>1, <2>2
  <2>4. \A i \in 1..n : F[i] = Body(F, i)
    BY <2>1, <2>2
  <2> QED BY <1>7, <2>3, <2>4
<1> HIDE DEF F, n, base, Body, Runs
<1>11. \A i \in 1..(n + 1) : F[i] \in S
  <2>1. \A i \in 1..n : F[N[i]] \in S => F[i] \in S
    BY <1>6, <1>10
  <2>2. F[n + 1] \in S
    BY <1>5, <1>10
  <2> QED BY <1>0, <1>3, <2>1, <2>2, ScanStays
<1>12. F[1] \in S
  BY <1>0, <1>11
<1>13. F[1].calls \in Seq(Built)
  <2> HIDE DEF Built
  <2> QED BY <1>12 DEF S
<1>14. \A i \in 1..(n + 1) : F[i].calls \in Seq(Built)
  <2> HIDE DEF Built
  <2> QED BY <1>11 DEF S
<1>15. \A i \in 1..n : F[i].calls = IF IsOpen(i) /\ found(i) # {} THEN <<call(i)>> \o F[N[i]].calls ELSE F[N[i]].calls
  <2> TAKE i \in 1..n
  <2> DEFINE x == F[N[i]]
  <2>1. x \in S
    <3>1. N[i] \in 1..(n + 1)
      BY <1>0, <1>3
    <3> QED BY <1>11, <3>1
  <2>2. F[i] = Step(i, x)
    BY <1>10
  <2> HIDE DEF x
  <2>3. Step(i, x).calls = IF IsOpen(i) /\ found(i) # {} THEN <<call(i)>> \o x.calls ELSE x.calls
    <3>1. x = [calls |-> x.calls, left |-> x.left]
      <4> HIDE DEF Built
      <4> QED BY <2>1 DEF S
    <3> HIDE DEF IsOpen, found, call, c
    <3> QED BY <3>1 DEF Step
  <2> QED BY <2>2, <2>3 DEF x
<1>16. \A i \in 1..n : N[i] = AfterAt(lines, specs, i)
  BY DEF N, AfterAt, OpensAt, ClosesAt
<1>17. Built = CallsFrom(lines, specs, 1)
  BY DEF Built, CallsFrom, HitsFrom, CallAt, FoundAt, InsideAt, OpensAt, ClosesAt, n
<1>18. F[n + 1].calls = <<>>
  BY <1>10 DEF base
<1> HIDE DEF IsOpen, found, call
<1>19. \A i \in 1..n : IsOpen(i) = OpensAt(lines, specs, i) /\ found(i) = FoundAt(lines, specs, i)
                      /\ call(i) = CallAt(lines, specs, i)
  BY DEF IsOpen, found, call, CallAt, FoundAt, InsideAt, OpensAt, ClosesAt
<1>20. ScanRun(F, lines, specs)
  <2>1. n = Len(lines)
    BY DEF n
  <2>2. \A i \in 1..Len(lines) :
          F[i].calls = IF OpensAt(lines, specs, i) /\ FoundAt(lines, specs, i) # {}
                       THEN <<CallAt(lines, specs, i)>> \o F[AfterAt(lines, specs, i)].calls
                       ELSE F[AfterAt(lines, specs, i)].calls
    BY <1>15, <1>16, <1>19, <2>1
  <2>3. \A i \in 1..Len(lines) + 1 : F[i].calls \in Seq(CallsFrom(lines, specs, 1))
    BY <1>14, <1>17, <2>1
  <2> QED BY <1>18, <2>1, <2>2, <2>3 DEF ScanRun
<1> QED BY <1>1, <1>20

\* The calls of the fences of an answer.
LEMMA FencedCalls ==
  ASSUME NEW E, NEW lines \in Seq(E), NEW specs
  PROVE  AreCalls(ParseFencedToolCalls(lines, specs).calls)
<1>1. PICK F : ParseFencedToolCalls(lines, specs) = F[1] /\ ScanRun(F, lines, specs)
  BY FencedRun
<1> DEFINE calls == F[1].calls
           Built == CallsFrom(lines, specs, 1)
<1>2. calls \in Seq(Built)
  <2>1. 1 \in 1..Len(lines) + 1
    OBVIOUS
  <2> QED BY <1>1, <2>1 DEF ScanRun
<1>3. \A made \in Built : IsCall(made)
  <2> SUFFICES ASSUME NEW i \in HitsFrom(lines, specs, 1) PROVE IsCall(CallAt(lines, specs, i))
    BY DEF CallsFrom
  <2>1. i \in 1..Len(lines) /\ OpensAt(lines, specs, i) /\ FoundAt(lines, specs, i) # {}
    BY DEF HitsFrom
  <2>2. i + 1 \in Nat \ {0} /\ ClosesAt(lines, i) - 1 \in Nat /\ ClosesAt(lines, i) - 1 <= Len(lines)
    BY <2>1, AfterIsLater
  <2>3. SubSeq(lines, i + 1, ClosesAt(lines, i) - 1) \in Seq(E)
    BY <2>2, PartIs
  <2>4. InsideAt(lines, i) \in Seq(E \cup {Blank})
    BY <2>3, OrEmptyIs DEF InsideAt
  <2>5. \A args \in FoundAt(lines, specs, i) : IsArgs(args)
    BY <2>4, FencedArgs DEF FoundAt
  <2>6. (CHOOSE args \in FoundAt(lines, specs, i) : TRUE) \in FoundAt(lines, specs, i)
    BY <2>1
  <2> QED BY <2>5, <2>6 DEF IsCall, CallAt
<1> HIDE DEF calls, Built
<1>4. calls \in Seq(Range(calls)) /\ Range(calls) \subseteq Built
  BY <1>2 DEF Range
<1>5. AreCalls(calls)
  BY <1>3, <1>4 DEF AreCalls
<1> QED BY <1>1, <1>5 DEF calls

\* The calls of an answer, fenced or stray.
LEMMA ParsedCalls ==
  ASSUME NEW lines, IsText(lines), NEW tools
  PROVE  AreCalls(ParseToolCalls(lines, tools).calls)
<1> DEFINE specs == SpecMap(tools)
           fenced == ParseFencedToolCalls(lines, specs)
           Json(key) == Only(lines, {l \in Range(lines) : Kind(l) = "json" /\ l[2] = key})
           stray == IF Json("tool") # <<>> THEN Json("tool") ELSE Json("name")
           Resolved(name) == IF name \in DOMAIN specs THEN specs[name].name ELSE name
           calls == [i \in DOMAIN stray |-> [name |-> Resolved(stray[i][3]), args |-> stray[i][4]]]
<1>1. lines \in Seq(Range(lines)) /\ \A l \in Range(lines) : Kind(l) = "json" => IsArgs(l[4])
  BY DEF IsText
<1>2. ParseToolCalls(lines, tools).calls \in {fenced.calls, <<>>, calls}
  <2> HIDE DEF fenced, calls
  <2>1. \/ ParseToolCalls(lines, tools).calls = fenced.calls
        \/ ParseToolCalls(lines, tools).calls = <<>>
        \/ ParseToolCalls(lines, tools).calls = calls
    BY DEF ParseToolCalls, fenced, calls
  <2> QED BY <2>1
<1>3. AreCalls(fenced.calls)
  BY <1>1, FencedCalls
<1>4. AreCalls(<<>>)
  BY DEF AreCalls, Range
<1>5. \A key : Json(key) \in Seq(Range(lines)) /\ \A l \in Range(Json(key)) : IsArgs(l[4])
  <2> TAKE key
  <2> DEFINE wanted == {l \in Range(lines) : Kind(l) = "json" /\ l[2] = key}
  <2>1. Only(lines, wanted) \in Seq(Range(lines)) /\ Range(Only(lines, wanted)) = Range(lines) \cap wanted
    <3> HIDE DEF wanted
    <3> QED BY <1>1, OnlySound
  <2> QED BY <1>1, <2>1
<1>6. stray \in Seq(Range(lines)) /\ \A l \in Range(stray) : IsArgs(l[4])
  <2> HIDE DEF Json
  <2> QED BY <1>5
<1> HIDE DEF stray, Resolved
<1>7. AreCalls(calls)
  <2>1. DOMAIN stray = 1..Len(stray) /\ Len(stray) \in Nat
    BY <1>6
  <2>2. \A i \in DOMAIN stray : IsCall(calls[i])
    BY <1>6 DEF IsCall, Range
  <2>3. calls \in [1..Len(stray) -> Range(calls)]
    BY <2>1 DEF Range
  <2>4. calls \in Seq(Range(calls))
    BY <2>1, <2>3
  <2>5. DOMAIN calls = DOMAIN stray
    OBVIOUS
  <2> HIDE DEF calls
  <2> QED BY <2>2, <2>4, <2>5 DEF AreCalls, Range
<1> HIDE DEF calls, fenced
<1> QED BY <1>2, <1>3, <1>4, <1>7

-----------------------------------------------------------------------------
(* Texts. *)

LEMMA TextOver ==
  ASSUME NEW E, NEW lines \in Seq(E), \A l \in E : Kind(l) = "json" => IsArgs(l[4])
  PROVE  IsText(lines)
<1>1. lines \in Seq(Range(lines)) /\ Range(lines) \subseteq E
  BY DEF Range
<1> QED BY <1>1 DEF IsText

LEMMA TextLine == ASSUME NEW l, Kind(l) # "json" PROVE IsText(<<l>>)
<1> DEFINE E == {l}
           s == <<l>>
<1>1. s \in Seq(E) /\ \A k \in E : Kind(k) = "json" => IsArgs(k[4])
  OBVIOUS
<1> HIDE DEF s, E
<1>2. IsText(s)
  BY <1>1, TextOver
<1> QED BY <1>2 DEF s

LEMMA TextConcat == ASSUME NEW s, IsText(s), NEW t, IsText(t) PROVE IsText(s \o t)
<1> DEFINE E == Range(s) \cup Range(t)
<1>1. s \in Seq(Range(s)) /\ t \in Seq(Range(t)) /\ \A l \in E : Kind(l) = "json" => IsArgs(l[4])
  BY DEF IsText
<1>2. Range(s) \subseteq E /\ Range(t) \subseteq E
  OBVIOUS
<1> HIDE DEF E
<1>3. s \o t \in Seq(E)
  BY <1>1, <1>2
<1> QED BY <1>1, <1>3, TextOver

LEMMA TextPart ==
  ASSUME NEW s, IsText(s), NEW a \in Nat \ {0}, NEW b \in Nat, b <= Len(s)
  PROVE  IsText(SubSeq(s, a, b))
<1> DEFINE E == Range(s)
<1>1. s \in Seq(E) /\ \A l \in E : Kind(l) = "json" => IsArgs(l[4])
  BY DEF IsText
<1> HIDE DEF E
<1>2. SubSeq(s, a, b) \in Seq(E)
  BY <1>1, PartIs
<1> QED BY <1>1, <1>2, TextOver

LEMMA TextTail == ASSUME NEW s, IsText(s), s # <<>> PROVE IsText(Tail(s))
<1> DEFINE E == Range(s)
<1>1. s \in Seq(E) /\ \A l \in E : Kind(l) = "json" => IsArgs(l[4])
  BY DEF IsText
<1> HIDE DEF E
<1>2. Tail(s) \in Seq(E)
  BY <1>1
<1> QED BY <1>1, <1>2, TextOver

LEMMA TextFlatten ==
  ASSUME NEW n \in Nat, NEW s, s = [i \in 1..n |-> s[i]], \A i \in 1..n : IsText(s[i])
  PROVE  IsText(FlattenSeq(s))
<1> DEFINE E == UNION {Range(s[i]) : i \in 1..n}
<1>1. \A i \in 1..n : s[i] \in Seq(Range(s[i])) /\ Range(s[i]) \subseteq E
  BY DEF IsText
<1>2. \A l \in E : Kind(l) = "json" => IsArgs(l[4])
  BY DEF IsText
<1> HIDE DEF E
<1>3. \A i \in 1..n : s[i] \in Seq(E)
  BY <1>1
<1>4. s \in Seq(Seq(E))
  BY <1>3
<1> QED BY <1>2, <1>4, FlattenSeqType, TextOver

\* What the model means as arguments.
AreArguments(args) == IsArgs(args) /\ \A p \in DOMAIN args : IsText(args[p]) /\ args[p] # <<>>

LEMMA EmptyIsText == IsText(EmptyText) /\ EmptyText # <<>>
<1>1. Kind(Blank) # "json"
  BY DEF Kind, Blank
<1>2. IsText(<<Blank>>)
  BY <1>1, TextLine
<1> QED BY <1>2 DEF EmptyText

LEMMA ValueIsText ==
  ASSUME NEW args, AreArguments(args), NEW p
  PROVE  IsText(Value(args, p)) /\ Value(args, p) # <<>>
<1>1. CASE p \notin DOMAIN args
  BY <1>1, EmptyIsText DEF Value
<1>2. CASE p \in DOMAIN args
  <2> DEFINE v == args[p]
             w == ScalarToString(v)
             E == Range(v) \cup {Plain(l[2]) : l \in Range(v)}
  <2>1. IsText(v) /\ v # <<>>
    BY <1>2 DEF AreArguments
  <2> HIDE DEF v
  <2>2. v \in Seq(Range(v)) /\ \A l \in Range(v) : Kind(l) = "json" => IsArgs(l[4])
    BY <2>1 DEF IsText
  <2>3. DOMAIN v = 1..Len(v) /\ Len(v) \in Nat /\ Len(v) > 0
    BY <2>1, <2>2
  <2>4. \A i \in 1..Len(v) : w[i] \in E
    BY <2>3 DEF ScalarToString, Range
  <2>5. w = [i \in 1..Len(v) |-> w[i]]
    BY <2>3 DEF ScalarToString
  <2>6. \A l \in E : Kind(l) = "json" => IsArgs(l[4])
    BY <2>2 DEF Plain, Kind
  <2> HIDE DEF w, E
  <2>7. w \in Seq(E) /\ Len(w) = Len(v)
    BY <2>3, <2>4, <2>5
  <2>8. IsText(w) /\ w # <<>>
    BY <2>3, <2>6, <2>7, TextOver
  <2> QED BY <1>2, <2>8 DEF Value, v, w
<1> QED BY <1>1, <1>2

LEMMA HeaderLinesAreText ==
  ASSUME NEW spec, spec.headers \in Seq(Range(spec.headers)), NEW args, AreArguments(args)
  PROVE  IsText(HeaderLines(spec, args))
<1> DEFINE given == Only(spec.headers, DOMAIN args)
           Header(i) == <<Pair(given[i], Head(Value(args, given[i])))>> \o Tail(Value(args, given[i]))
           lines == [i \in DOMAIN given |-> Header(i)]
<1>1. given \in Seq(Range(spec.headers))
  BY OnlySound
<1>2. DOMAIN given = 1..Len(given) /\ Len(given) \in Nat
  BY <1>1
<1> HIDE DEF given
<1>3. \A i \in DOMAIN given : IsText(Header(i))
  <2> TAKE i \in DOMAIN given
  <2>1. IsText(Tail(Value(args, given[i])))
    BY ValueIsText, TextTail
  <2>2. IsText(<<Pair(given[i], Head(Value(args, given[i])))>>)
    <3>1. Kind(Pair(given[i], Head(Value(args, given[i])))) # "json"
      BY DEF Kind, Pair
    <3> QED BY <3>1, TextLine
  <2> QED BY <2>1, <2>2, TextConcat
<1> HIDE DEF Header
<1>4. lines = [i \in 1..Len(given) |-> lines[i]] /\ \A i \in 1..Len(given) : IsText(lines[i])
  BY <1>2, <1>3
<1>5. HeaderLines(spec, args) = FlattenSeq(lines)
  BY DEF HeaderLines, given, Header
<1> HIDE DEF lines
<1> QED BY <1>2, <1>4, <1>5, TextFlatten

\* A call laid out in a fence is a text.
LEMMA RenderedIsText ==
  ASSUME NEW tool, IsTool(tool), NEW args, AreArguments(args), NEW ticks
  PROVE  IsText(WithTicks(RenderFencedCall(FenceSpec(tool), args), ticks))
<1> DEFINE spec == FenceSpec(tool)
           headers == HeaderLines(spec, args)
           edited == headers \o <<SearchMark>> \o Value(args, spec.edit[1])
                     \o <<Separator>> \o Value(args, spec.edit[2]) \o <<ReplaceMark>>
           bodied == headers \o (IF headers = <<>> THEN <<>> ELSE <<Blank>>) \o Value(args, spec.body)
           lines == IF spec.edit # <<>> THEN edited ELSE IF spec.body = "" THEN headers ELSE bodied
           filled == IF lines = <<>> THEN EmptyText ELSE lines
           call == <<Open(3, spec.name)>> \o filled \o <<Close(3)>>
<1>1. spec.headers \in Seq(Range(spec.headers))
  <2> DEFINE search == FirstIn(tool.props, SearchNames)
             replace == FirstIn(tool.props, ReplaceNames)
             body == FirstIn(tool.props, BodyNames)
             alone == IF body = "" /\ Len(tool.props) = 1 THEN tool.props[1] ELSE body
             edit == search # "" /\ replace # ""
             used == IF edit THEN {search, replace} ELSE {alone}
  <2>1. spec.headers = Only(tool.props, Range(tool.props) \ used)
    BY DEF FenceSpec
  <2> HIDE DEF used
  <2>2. spec.headers \in Seq(Range(tool.props))
    BY <2>1, OnlySound DEF IsTool
  <2> HIDE DEF spec
  <2> QED BY <2>2 DEF Range
<1> HIDE DEF spec
<1>2. IsText(headers)
  BY <1>1, HeaderLinesAreText
<1>3. \A p : IsText(Value(args, p))
  BY ValueIsText
<1>4. /\ IsText(<<SearchMark>>) /\ IsText(<<Separator>>) /\ IsText(<<ReplaceMark>>) /\ IsText(<<Blank>>)
      /\ \A k, name : IsText(<<Open(k, name)>>) /\ IsText(<<Close(k)>>)
  <2>1. /\ Kind(SearchMark) # "json" /\ Kind(Separator) # "json" /\ Kind(ReplaceMark) # "json" /\ Kind(Blank) # "json"
        /\ \A k, name : Kind(Open(k, name)) # "json" /\ Kind(Close(k)) # "json"
    BY DEF Kind, SearchMark, Separator, ReplaceMark, Blank, Open, Close
  <2> QED BY <2>1, TextLine
<1>5. IsText(<<>>)
  BY DEF IsText, Range
<1>6. IsText(edited)
  <2> HIDE DEF headers
  <2>1. IsText(headers \o <<SearchMark>>)
    BY <1>2, <1>4, TextConcat
  <2>2. IsText(headers \o <<SearchMark>> \o Value(args, spec.edit[1]))
    BY <2>1, <1>3, TextConcat
  <2>3. IsText(headers \o <<SearchMark>> \o Value(args, spec.edit[1]) \o <<Separator>>)
    BY <2>2, <1>4, TextConcat
  <2>4. IsText(headers \o <<SearchMark>> \o Value(args, spec.edit[1]) \o <<Separator>> \o Value(args, spec.edit[2]))
    BY <2>3, <1>3, TextConcat
  <2> QED BY <2>4, <1>4, TextConcat
<1>7. IsText(bodied)
  <2> HIDE DEF headers
  <2> DEFINE between == IF headers = <<>> THEN <<>> ELSE <<Blank>>
  <2>1. IsText(between)
    BY <1>4, <1>5
  <2> HIDE DEF between
  <2>2. IsText(headers \o between)
    BY <1>2, <2>1, TextConcat
  <2>3. IsText(headers \o between \o Value(args, spec.body))
    BY <1>3, <2>2, TextConcat
  <2> QED BY <2>3 DEF between
<1>8. RenderFencedCall(spec, args) = call
  BY DEF RenderFencedCall
<1> HIDE DEF headers, edited, bodied
<1>9. IsText(filled)
  BY <1>2, <1>6, <1>7, EmptyIsText
<1> HIDE DEF filled
<1>10. IsText(call)
  <2>1. IsText(<<Open(3, spec.name)>> \o filled)
    BY <1>4, <1>9, TextConcat
  <2> QED BY <2>1, <1>4, TextConcat
<1>11. Len(call) - 1 \in Nat /\ Len(call) - 1 <= Len(call)
  <2> DEFINE a == <<Open(3, spec.name)>> \o filled
             b == <<Close(3)>>
             E == Range(a) \cup Range(b)
  <2>1. IsText(a) /\ IsText(b)
    BY <1>4, <1>9, TextConcat
  <2>2. a \in Seq(Range(a)) /\ b \in Seq(Range(b)) /\ Len(b) = 1
    BY <2>1 DEF IsText
  <2>3. Range(a) \subseteq E /\ Range(b) \subseteq E
    OBVIOUS
  <2> HIDE DEF a, b, E
  <2>4. a \in Seq(E) /\ b \in Seq(E)
    BY <2>2, <2>3
  <2>5. Len(a \o b) = Len(a) + Len(b) /\ Len(a) \in Nat
    BY <2>4, ConcatProperties, LenProperties
  <2>6. Len(a \o b) - 1 \in Nat /\ Len(a \o b) - 1 <= Len(a \o b)
    BY <2>2, <2>5
  <2> QED BY <2>6 DEF a, b
<1> HIDE DEF call
<1>12. IsText(SubSeq(call, 2, Len(call) - 1))
  BY <1>10, <1>11, TextPart
<1>13. IsText(<<Open(ticks, call[1][3])>> \o SubSeq(call, 2, Len(call) - 1))
  BY <1>4, <1>12, TextConcat
<1>14. IsText(WithTicks(call, ticks))
  BY <1>4, <1>13, TextConcat DEF WithTicks
<1> QED BY <1>8, <1>14 DEF spec

LEMMA OrientationIsCall ==
  ASSUME NEW tools, NEW choice, NEW call \in OrientationCall(tools, choice)
  PROVE  IsCall(call)
<1>1. \A name, param, lines : \A c \in Call(name, param, lines) : IsCall(c)
  <2> TAKE name, param, lines
  <2> DEFINE args == [p \in {param} |-> lines]
  <2>1. IsFiniteSet(DOMAIN args) /\ args \in [DOMAIN args -> Range(args)]
    BY FS_Singleton DEF Range
  <2> HIDE DEF args
  <2>2. IsCall([name |-> name, args |-> args])
    BY <2>1 DEF IsCall, IsArgs
  <2> QED BY <2>2 DEF Call, args
<1>2. \A name : IsCall([name |-> name, args |-> <<>>])
  <2>1. IsFiniteSet(DOMAIN <<>>) /\ <<>> \in [DOMAIN <<>> -> Range(<<>>)]
    <3>1. DOMAIN <<>> = {}
      OBVIOUS
    <3> QED BY <3>1, FS_EmptySet
  <2> QED BY <2>1 DEF IsCall, IsArgs
<1>3. \/ \E name, param, lines : call \in Call(name, param, lines)
      \/ \E name : call = [name |-> name, args |-> <<>>]
  BY DEF OrientationCall
<1> QED BY <1>1, <1>2, <1>3

-----------------------------------------------------------------------------
(* What the client is given to run. *)

Repairable == stage = "parsed" => AreTools(data.tools) /\ AreCalls(data.parsed.calls)

LEMMA ParsedRepairable ==
  ASSUME NEW tools \in Catalogs, NEW lines, NEW meant, NEW parsed, AreCalls(parsed.calls),
         Parsed(tools, lines, meant, parsed)
  PROVE  Repairable' /\ CallsRepaired'
<1>1. AreTools(tools)
  BY ExchangeAssumption DEF AreTools
<1>2. stage' = "parsed" /\ data'.tools = tools /\ data'.parsed = parsed
  BY DEF Parsed, To
<1>3. Repairable'
  BY <1>1, <1>2 DEF Repairable
<1>4. CallsRepaired'
  BY <1>2 DEF CallsRepaired
<1> QED BY <1>3, <1>4

\* Only M365's answers and the orientation become calls; whatever the answer is, fenced
\* or stray, the client is given a call that one of its tools validates, with the values
\* of the one that was parsed: repairPropertyAliases moves values from names the schema
\* does not have to names it misses, loses none and touches no declared one.
THEOREM CallsAreRepaired == Spec => []CallsRepaired
<1>1. Init => Repairable /\ CallsRepaired
  BY DEF Init, Repairable, CallsRepaired
<1>2. Repairable /\ CallsRepaired /\ [Next]_vars => Repairable' /\ CallsRepaired'
  <2> SUFFICES ASSUME Repairable, CallsRepaired, [Next]_vars PROVE Repairable' /\ CallsRepaired'
    OBVIOUS
  <2>1. CASE AnswerCall
    <3>1. PICK tools \in Catalogs, preface \in Prefaces, ticks \in 3..4 : \E tool \in Range(tools) :
            \E args \in Arguments[tool.name] :
              LET lines == preface \o WithTicks(RenderFencedCall(FenceSpec(tool), args), ticks)
              IN  Parsed(tools, lines, <<[tool |-> tool, args |-> args, ticks |-> ticks]>>, ParseToolCalls(lines, tools))
      BY <2>1 DEF AnswerCall
    <3>2. PICK tool \in Range(tools) : \E args \in Arguments[tool.name] :
              LET lines == preface \o WithTicks(RenderFencedCall(FenceSpec(tool), args), ticks)
              IN  Parsed(tools, lines, <<[tool |-> tool, args |-> args, ticks |-> ticks]>>, ParseToolCalls(lines, tools))
      BY <3>1
    <3>3. PICK args \in Arguments[tool.name] :
              LET lines == preface \o WithTicks(RenderFencedCall(FenceSpec(tool), args), ticks)
              IN  Parsed(tools, lines, <<[tool |-> tool, args |-> args, ticks |-> ticks]>>, ParseToolCalls(lines, tools))
      BY <3>2
    <3> DEFINE rendered == WithTicks(RenderFencedCall(FenceSpec(tool), args), ticks)
               lines == preface \o rendered
    <3>4. IsTool(tool) /\ AreArguments(args) /\ IsText(preface)
      BY ExchangeAssumption DEF AreArguments
    <3>5. IsText(rendered)
      BY <3>4, RenderedIsText
    <3> HIDE DEF rendered
    <3>6. IsText(lines)
      BY <3>4, <3>5, TextConcat
    <3>7. Parsed(tools, lines, <<[tool |-> tool, args |-> args, ticks |-> ticks]>>, ParseToolCalls(lines, tools))
      BY <3>3 DEF rendered
    <3> HIDE DEF lines
    <3>8. AreCalls(ParseToolCalls(lines, tools).calls)
      BY <3>6, ParsedCalls
    <3> QED BY <3>7, <3>8, ParsedRepairable
  <2>2. CASE AnswerFreely
    <3>1. PICK tools \in Catalogs, lines \in Answers : Parsed(tools, lines, <<>>, ParseToolCalls(lines, tools))
      BY <2>2 DEF AnswerFreely
    <3>2. IsText(lines)
      BY ExchangeAssumption
    <3>3. AreCalls(ParseToolCalls(lines, tools).calls)
      BY <3>2, ParsedCalls
    <3> QED BY <3>1, <3>3, ParsedRepairable
  <2>3. CASE Orient
    <3>1. PICK tools \in Catalogs, choice \in ToolChoices : \E call \in OrientationCall(tools, MapToolChoice(choice)) :
            Parsed(tools, EmptyText, <<>>, [calls |-> <<call>>, text |-> <<>>])
      BY <2>3 DEF Orient
    <3>2. PICK call \in OrientationCall(tools, MapToolChoice(choice)) :
            Parsed(tools, EmptyText, <<>>, [calls |-> <<call>>, text |-> <<>>])
      BY <3>1
    <3>3. IsCall(call)
      BY OrientationIsCall
    <3> DEFINE parsed == [calls |-> <<call>>, text |-> <<>>]
    <3>4. Range(parsed.calls) = {call} /\ parsed.calls \in Seq({call})
      BY DEF Range
    <3>5. AreCalls(parsed.calls)
      BY <3>3, <3>4 DEF AreCalls
    <3> HIDE DEF parsed
    <3>6. Parsed(tools, EmptyText, <<>>, parsed)
      BY <3>2 DEF parsed
    <3> QED BY <3>5, <3>6, ParsedRepairable
  <2>4. CASE Deliver
    <3> DEFINE result == Produced(data.parsed, data.full, data.tools, data.single)
    <3>1. AreTools(data.tools) /\ AreCalls(data.parsed.calls)
      BY <2>4 DEF Deliver, Repairable
    <3>2. \/ stage' = "delivered" /\ data' = [tools |-> data.tools, parsed |-> data.parsed, result |-> result]
          \/ stage' = "over"
      BY <2>4 DEF Deliver, To, Answered
    <3> HIDE DEF result
    <3>3. CASE stage' = "over"
      BY <3>3 DEF Repairable, CallsRepaired
    <3>4. CASE stage' = "delivered" /\ data' = [tools |-> data.tools, parsed |-> data.parsed, result |-> result]
      <4>1. data'.tools = data.tools /\ data'.parsed = data.parsed /\ data'.result = result
        BY <3>4
      <4>2. result.kind = "tools" =>
              \A call \in Range(result.calls) :
                \E tool \in Range(data.tools), given \in Range(data.parsed.calls) :
                  /\ tool.name = call.name /\ Validates(tool, call.args)
                  /\ OnlyRenamed(tool, RepairBash(given), call)
        BY <3>1, ProducedSound DEF result
      <4>3. CallsRepaired'
        BY <4>1, <4>2 DEF CallsRepaired
      <4>4. Repairable'
        BY <3>4 DEF Repairable
      <4> QED BY <4>3, <4>4
    <3> QED BY <3>2, <3>3, <3>4
  <2>5. ASSUME stage' \notin {"parsed", "delivered"} PROVE Repairable' /\ CallsRepaired'
    BY <2>5 DEF Repairable, CallsRepaired
  <2>6. CASE Arrive
    BY <2>5, <2>6 DEF Arrive, To, Answered
  <2>7. CASE Choose
    BY <2>5, <2>7 DEF Choose, To, Answered
  <2>8. CASE Format
    BY <2>5, <2>8 DEF Format, Prompted, To
  <2>9. CASE Ship \/ Done
    BY <2>5, <2>9 DEF Ship, Done, To
  <2>10. CASE Fail
    BY <2>5, <2>10 DEF Fail, To
  <2>11. CASE UpstreamAnswers \/ Chunk \/ UpstreamEnds
    BY <2>5, <2>11 DEF UpstreamAnswers, Chunk, UpstreamEnds, To, Answered
  <2>12. CASE UNCHANGED vars
    BY <2>12 DEF vars, Repairable, CallsRepaired
  <2> QED BY <2>1, <2>2, <2>3, <2>4, <2>6, <2>7, <2>8, <2>9, <2>10, <2>11, <2>12 DEF Next
<1> QED BY <1>1, <1>2, PTL DEF Spec

-----------------------------------------------------------------------------
(* What is gathered from the elements of a sequence, one after the other.   *)

Gathered(s, F) == FlattenSeq([i \in DOMAIN s |-> F[s[i]]])

LEMMA GatheredType ==
  ASSUME NEW E, NEW S, NEW s \in Seq(E), NEW F \in [E -> Seq(S)]
  PROVE  Gathered(s, F) \in Seq(S) /\ (s = <<>> => Gathered(s, F) = <<>>)
<1> DEFINE t == [i \in DOMAIN s |-> F[s[i]]]
<1>1. DOMAIN s = 1..Len(s) /\ Len(s) \in Nat /\ \A i \in 1..Len(s) : s[i] \in E
  BY ElementOfSeq
<1>2. t \in Seq(Seq(S)) /\ Len(t) = Len(s)
  BY <1>1
<1> HIDE DEF t
<1>3. FlattenSeq(t) \in Seq(S) /\ (Len(t) = 0 => FlattenSeq(t) = <<>>)
  BY <1>2, FlattenSeqType
<1> QED BY <1>2, <1>3 DEF Gathered, t

LEMMA GatheredAppend ==
  ASSUME NEW E, NEW S, NEW s \in Seq(E), NEW e \in E, NEW F \in [E -> Seq(S)]
  PROVE  Gathered(Append(s, e), F) = Gathered(s, F) \o F[e]
<1> DEFINE u == Append(s, e)
           t == [i \in DOMAIN s |-> F[s[i]]]
           w == [i \in DOMAIN u |-> F[u[i]]]
<1>1. DOMAIN s = 1..Len(s) /\ Len(s) \in Nat /\ \A i \in 1..Len(s) : s[i] \in E
  BY ElementOfSeq
<1>2. t \in Seq(Seq(S)) /\ Len(t) = Len(s)
  BY <1>1
<1>3. F[e] \in Seq(S)
  OBVIOUS
<1>4. /\ u \in Seq(E) /\ Len(u) = Len(s) + 1 /\ u[Len(s) + 1] = e /\ DOMAIN u = 1..(Len(s) + 1)
      /\ \A i \in 1..Len(s) : u[i] = s[i]
  BY <1>1, AppendProperties
<1>5. w = Append(t, F[e])
  <2> HIDE DEF u
  <2>1. \A i \in 1..(Len(s) + 1) : w[i] = IF i = Len(s) + 1 THEN F[e] ELSE t[i]
    <3> TAKE i \in 1..(Len(s) + 1)
    <3>1. CASE i = Len(s) + 1
      BY <1>4, <3>1
    <3>2. CASE i # Len(s) + 1
      <4>1. i \in 1..Len(s)
        BY <1>1, <3>2
      <4> QED BY <1>1, <1>4, <3>2, <4>1
    <3> QED BY <3>1, <3>2
  <2>2. w = [i \in 1..(Len(s) + 1) |-> w[i]]
    BY <1>4
  <2> HIDE DEF w, t
  <2>3. \A i \in 1..(Len(s) + 1) : Append(t, F[e])[i] = IF i = Len(s) + 1 THEN F[e] ELSE t[i]
    BY <1>1, <1>2, <1>3, AppendProperties
  <2>4. Append(t, F[e]) = [i \in 1..(Len(s) + 1) |-> Append(t, F[e])[i]]
    BY <1>1, <1>2, <1>3, AppendProperties
  <2> QED BY <2>1, <2>2, <2>3, <2>4
<1>6. FlattenSeq(Append(t, F[e])) = FlattenSeq(t) \o F[e]
  <2> HIDE DEF t
  <2> QED BY <1>2, <1>3, FlattenAppend
<1> QED BY <1>5, <1>6 DEF Gathered

LEMMA GatheredSame ==
  ASSUME NEW s, NEW F, NEW G, \A i \in DOMAIN s : F[s[i]] = G[s[i]]
  PROVE  Gathered(s, F) = Gathered(s, G)
<1>1. [i \in DOMAIN s |-> F[s[i]]] = [i \in DOMAIN s |-> G[s[i]]]
  OBVIOUS
<1> QED BY <1>1 DEF Gathered

\* The arguments that pieces of calls carry for a slot, those in the deltas of a block,
\* and the text of the other blocks.
ArgsFor(pieces, slot) ==
  FlattenSeq([i \in DOMAIN pieces |-> IF pieces[i].slot = slot THEN pieces[i].args ELSE <<>>])
OutsideOf(events, blocks) ==
  FlattenSeq([i \in DOMAIN events |-> IF events[i].block \in blocks THEN <<>> ELSE events[i].text])

LEMMA ArgsForAppend ==
  ASSUME NEW P, \A p \in P : p.args \in Seq(Letters), NEW pieces \in Seq(P), NEW p \in P, NEW slot
  PROVE  /\ ArgsFor(pieces, slot) \in Seq(Letters)
         /\ ArgsFor(Append(pieces, p), slot) = ArgsFor(pieces, slot) \o (IF p.slot = slot THEN p.args ELSE <<>>)
<1> DEFINE F == [x \in P |-> IF x.slot = slot THEN x.args ELSE <<>>]
<1>1. F \in [P -> Seq(Letters)] /\ F[p] = IF p.slot = slot THEN p.args ELSE <<>>
  OBVIOUS
<1>2. \A s \in Seq(P) : ArgsFor(s, slot) = Gathered(s, F)
  <2> TAKE s \in Seq(P)
  <2>1. \A i \in DOMAIN s : s[i] \in P
    BY ElementOfSeq
  <2>2. [i \in DOMAIN s |-> IF s[i].slot = slot THEN s[i].args ELSE <<>>] = [i \in DOMAIN s |-> F[s[i]]]
    BY <2>1
  <2> QED BY <2>2 DEF ArgsFor, Gathered
<1>3. Append(pieces, p) \in Seq(P)
  OBVIOUS
<1> HIDE DEF F
<1>0. F \in [P -> Seq(Letters)]
  BY <1>1
<1>4. Gathered(pieces, F) \in Seq(Letters)
  BY <1>0, GatheredType
<1>5. Gathered(Append(pieces, p), F) = Gathered(pieces, F) \o F[p]
  BY <1>0, GatheredAppend
<1>6. ArgsFor(pieces, slot) = Gathered(pieces, F) /\ ArgsFor(Append(pieces, p), slot) = Gathered(Append(pieces, p), F)
  BY <1>2, <1>3
<1> QED BY <1>1, <1>4, <1>5, <1>6

LEMMA ArgsOfAppend ==
  ASSUME NEW es \in Seq(EventType), NEW e \in EventType, NEW b
  PROVE  /\ ArgsOf(es, b) \in Seq(Letters)
         /\ ArgsOf(Append(es, e), b) = ArgsOf(es, b) \o (IF e.event = "delta" /\ e.block = b THEN e.text ELSE <<>>)
<1> DEFINE F == [x \in EventType |-> IF x.event = "delta" /\ x.block = b THEN x.text ELSE <<>>]
<1>1. F \in [EventType -> Seq(Letters)] /\ F[e] = IF e.event = "delta" /\ e.block = b THEN e.text ELSE <<>>
  BY DEF EventType
<1>2. \A s \in Seq(EventType) : ArgsOf(s, b) = Gathered(s, F)
  <2> TAKE s \in Seq(EventType)
  <2>1. \A i \in DOMAIN s : s[i] \in EventType
    BY ElementOfSeq
  <2>2. [i \in DOMAIN s |-> IF s[i].event = "delta" /\ s[i].block = b THEN s[i].text ELSE <<>>]
        = [i \in DOMAIN s |-> F[s[i]]]
    BY <2>1
  <2> QED BY <2>2 DEF ArgsOf, Gathered
<1>3. Append(es, e) \in Seq(EventType)
  OBVIOUS
<1> HIDE DEF F
<1>0. F \in [EventType -> Seq(Letters)]
  BY <1>1
<1>4. Gathered(es, F) \in Seq(Letters)
  BY <1>0, GatheredType
<1>5. Gathered(Append(es, e), F) = Gathered(es, F) \o F[e]
  BY <1>0, GatheredAppend
<1>6. ArgsOf(es, b) = Gathered(es, F) /\ ArgsOf(Append(es, e), b) = Gathered(Append(es, e), F)
  BY <1>2, <1>3
<1> QED BY <1>1, <1>4, <1>5, <1>6

LEMMA OutsideAppend ==
  ASSUME NEW es \in Seq(EventType), NEW e \in EventType, NEW B
  PROVE  /\ OutsideOf(es, B) \in Seq(Letters)
         /\ OutsideOf(Append(es, e), B) = OutsideOf(es, B) \o (IF e.block \in B THEN <<>> ELSE e.text)
<1> DEFINE F == [x \in EventType |-> IF x.block \in B THEN <<>> ELSE x.text]
<1>1. F \in [EventType -> Seq(Letters)] /\ F[e] = IF e.block \in B THEN <<>> ELSE e.text
  BY DEF EventType
<1>2. \A s \in Seq(EventType) : OutsideOf(s, B) = Gathered(s, F)
  <2> TAKE s \in Seq(EventType)
  <2>1. \A i \in DOMAIN s : s[i] \in EventType
    BY ElementOfSeq
  <2>2. [i \in DOMAIN s |-> IF s[i].block \in B THEN <<>> ELSE s[i].text] = [i \in DOMAIN s |-> F[s[i]]]
    BY <2>1
  <2> QED BY <2>2 DEF OutsideOf, Gathered
<1>3. Append(es, e) \in Seq(EventType)
  OBVIOUS
<1> HIDE DEF F
<1>0. F \in [EventType -> Seq(Letters)]
  BY <1>1
<1>4. Gathered(es, F) \in Seq(Letters)
  BY <1>0, GatheredType
<1>5. Gathered(Append(es, e), F) = Gathered(es, F) \o F[e]
  BY <1>0, GatheredAppend
<1>6. OutsideOf(es, B) = Gathered(es, F) /\ OutsideOf(Append(es, e), B) = Gathered(Append(es, e), F)
  BY <1>2, <1>3
<1> QED BY <1>1, <1>4, <1>5, <1>6

\* A block that has no event yet may be counted in.
LEMMA OutsideGrows ==
  ASSUME NEW es, NEW next, NEW opens, Sound(es, next, opens), NEW B
  PROVE  OutsideOf(es, B \cup {next}) = OutsideOf(es, B)
<1>1. es \in Seq(EventType) /\ next \in Nat /\ Len(es) \in Nat /\ DOMAIN es = 1..Len(es)
  BY DEF Sound
<1>2. ASSUME NEW i \in 1..Len(es) PROVE es[i].block # next
  <2>1. NestedAt(es, i) /\ es[i].block \in Nat
    <3>1. NestedAt(es, i)
      BY DEF Sound
    <3>2. es[i] \in EventType
      BY <1>1, ElementOfSeq
    <3> QED BY <3>1, <3>2 DEF EventType
  <2>2. Starts(es, es[i].block)
    <3>1. CASE es[i].event = "start"
      BY <3>1 DEF Starts
    <3>2. CASE es[i].event # "start"
      <4>1. \A j \in 1..(i - 1) : j \in 1..Len(es)
        BY <1>1
      <4> QED BY <2>1, <3>2, <4>1 DEF NestedAt, Starts
    <3> QED BY <3>1, <3>2
  <2>3. es[i].block < next
    BY <2>1, <2>2 DEF Sound
  <2> QED BY <1>1, <2>3
<1>3. [i \in DOMAIN es |-> IF es[i].block \in B \cup {next} THEN <<>> ELSE es[i].text]
      = [i \in DOMAIN es |-> IF es[i].block \in B THEN <<>> ELSE es[i].text]
  BY <1>1, <1>2
<1> QED BY <1>3 DEF OutsideOf

-----------------------------------------------------------------------------
(* The stream of an upstream.  Its state is the events sent, the next index, *)
(* the open text block and, for each slot of a call, the index of its block  *)
(* and the arguments that are not sent yet; the slots in closed had their    *)
(* stop.                                                                     *)

OpensOf(open, index, closed) == ({index[s] : s \in DOMAIN index \ closed} \cup {open}) \ {NoBlock}
BlocksOf(index) == {index[s] : s \in DOMAIN index} \ {NoBlock}

\* The arguments of a slot, sent and not sent, and the text.
GotOf(es, index, rest, s) == IF index[s] = NoBlock THEN rest[s] ELSE ArgsOf(es, index[s]) \o rest[s]
SaidOf(es, index) == OutsideOf(es, BlocksOf(index))

\* Nothing was sent with an index that is still to be handed out.
FreshFrom(es, next) == \A b \in Nat : b >= next => ArgsOf(es, b) = <<>>

StreamSound(es, next, open, index, rest, closed) ==
  /\ index \in [DOMAIN index -> Nat \cup {NoBlock}] /\ rest \in [DOMAIN index -> Seq(Letters)]
  /\ closed \subseteq DOMAIN index /\ \A s \in closed : index[s] # NoBlock
  /\ open \in Nat \cup {NoBlock}
  /\ open # NoBlock => es # <<>> /\ Last(es).block = open /\ \A s \in DOMAIN index : index[s] # open
  /\ \A s \in DOMAIN index : index[s] < next
  /\ \A s, t \in DOMAIN index : index[s] = index[t] /\ index[s] # NoBlock => s = t
  /\ Sound(es, next, OpensOf(open, index, closed)) /\ FreshFrom(es, next)

\* A step after which the client has, or will get, the same.
Keeps(es, index, rest, fs, index2, rest2) ==
  /\ DOMAIN index2 = DOMAIN index
  /\ \A s \in DOMAIN index : GotOf(fs, index2, rest2, s) = GotOf(es, index, rest, s)
  /\ SaidOf(fs, index2) = SaidOf(es, index)

\* A mark: a start and a stop carry nothing.
LEMMA MarkKeeps ==
  ASSUME NEW es \in Seq(EventType), NEW e \in EventType, e.text = <<>>, NEW index, NEW rest
  PROVE  /\ \A c : ArgsOf(Append(es, e), c) = ArgsOf(es, c)
         /\ Keeps(es, index, rest, Append(es, e), index, rest)
<1> DEFINE fs == Append(es, e)
<1>1. \A c : ArgsOf(fs, c) = ArgsOf(es, c)
  <2> TAKE c
  <2>1. ArgsOf(es, c) \in Seq(Letters) /\ ArgsOf(fs, c) = ArgsOf(es, c) \o <<>>
    BY ArgsOfAppend
  <2> QED BY <2>1, ConcatEmptySeq
<1>2. SaidOf(fs, index) = SaidOf(es, index)
  <2>1. /\ OutsideOf(es, BlocksOf(index)) \in Seq(Letters)
        /\ OutsideOf(fs, BlocksOf(index)) = OutsideOf(es, BlocksOf(index)) \o <<>>
    BY OutsideAppend
  <2> QED BY <2>1, ConcatEmptySeq DEF SaidOf
<1>3. \A s \in DOMAIN index : GotOf(fs, index, rest, s) = GotOf(es, index, rest, s)
  BY <1>1 DEF GotOf
<1> HIDE DEF fs
<1>4. Keeps(es, index, rest, fs, index, rest)
  BY <1>2, <1>3 DEF Keeps
<1> QED BY <1>1, <1>4 DEF fs

LEMMA Marks ==
  ASSUME NEW b \in Nat
  PROVE  /\ Start(b) \in EventType /\ Start(b).block = b /\ Start(b).text = <<>>
         /\ Stop(b) \in EventType /\ Stop(b).block = b /\ Stop(b).text = <<>>
BY DEF Start, Stop, EventType

\* The block of a call is opened.
LEMMA CallStarts ==
  ASSUME NEW es, NEW next, NEW index, NEW rest, NEW closed,
         StreamSound(es, next, NoBlock, index, rest, closed), NEW s \in DOMAIN index \ closed, index[s] = NoBlock
  PROVE  LET fs == Append(es, Start(next))
             to == [index EXCEPT ![s] = next]
         IN  StreamSound(fs, next + 1, NoBlock, to, rest, closed) /\ Keeps(es, index, rest, fs, to, rest)
<1> DEFINE fs == Append(es, Start(next))
           to == [index EXCEPT ![s] = next]
           D == DOMAIN index
<1>1. /\ es \in Seq(EventType) /\ next \in Nat /\ Sound(es, next, OpensOf(NoBlock, index, closed))
      /\ FreshFrom(es, next)
  BY DEF StreamSound, Sound
<1>2. /\ index \in [D -> Nat \cup {NoBlock}] /\ rest \in [D -> Seq(Letters)] /\ NoBlock = -1
      /\ \A t \in D : index[t] < next
  BY DEF StreamSound, NoBlock
<1>3. Start(next) \in EventType /\ Start(next).block = next /\ Start(next).text = <<>>
  BY <1>1, Marks
<1>4. /\ to \in [D -> Nat \cup {NoBlock}] /\ DOMAIN to = D /\ to[s] = next
      /\ \A t \in D : t # s => to[t] = index[t]
  BY <1>1, <1>2
<1> HIDE DEF to
<1>5. OpensOf(NoBlock, to, closed) = OpensOf(NoBlock, index, closed) \cup {next}
  BY <1>1, <1>2, <1>4 DEF OpensOf
<1>6. Sound(fs, next + 1, OpensOf(NoBlock, to, closed))
  <2>1. Sound(fs, next + 1, OpensOf(NoBlock, index, closed) \cup {next})
    BY <1>1, AddStart
  <2> QED BY <1>5, <2>1
<1>7. \A b : ArgsOf(fs, b) = ArgsOf(es, b)
  BY <1>1, <1>3, MarkKeeps
<1>8. FreshFrom(fs, next + 1)
  BY <1>1, <1>7 DEF FreshFrom
<1>9. StreamSound(fs, next + 1, NoBlock, to, rest, closed)
  <2>1. \A t \in closed : to[t] # NoBlock
    BY <1>4 DEF StreamSound
  <2>2. \A t \in D : to[t] < next + 1
    <3> TAKE t \in D
    <3>1. index[t] \in Int /\ index[t] < next
      BY <1>2
    <3> QED BY <1>1, <1>4, <3>1
  <2>3. ASSUME NEW t \in D, NEW u \in D, to[t] = to[u], to[t] # NoBlock PROVE t = u
    <3>1. \A x \in D : index[x] # next
      BY <1>1, <1>2
    <3>2. t = s <=> u = s
      BY <1>4, <2>3, <3>1
    <3>3. t # s => index[t] = index[u] /\ index[t] # NoBlock
      BY <1>4, <2>3, <3>2
    <3> QED BY <3>2, <3>3 DEF StreamSound
  <2>4. closed \subseteq D
    BY DEF StreamSound
  <2> HIDE DEF fs
  <2> QED BY <1>2, <1>4, <1>6, <1>8, <2>1, <2>2, <2>3, <2>4 DEF StreamSound
<1>10. \A t \in D : GotOf(fs, to, rest, t) = GotOf(es, index, rest, t)
  <2> TAKE t \in D
  <2>1. CASE t = s
    <3>1. ArgsOf(fs, next) = <<>> /\ rest[s] \in Seq(Letters)
      BY <1>1, <1>2, <1>7 DEF FreshFrom
    <3>2. <<>> \o rest[s] = rest[s]
      BY <3>1, ConcatEmptySeq
    <3> QED BY <1>1, <1>2, <1>4, <2>1, <3>1, <3>2 DEF GotOf
  <2>2. CASE t # s
    BY <1>4, <1>7, <2>2 DEF GotOf
  <2> QED BY <2>1, <2>2
<1>11. SaidOf(fs, to) = SaidOf(es, index)
  <2>1. BlocksOf(to) = BlocksOf(index) \cup {next}
    BY <1>1, <1>2, <1>4 DEF BlocksOf
  <2>2. OutsideOf(es, BlocksOf(index) \cup {next}) = OutsideOf(es, BlocksOf(index))
    BY <1>1, OutsideGrows
  <2>3. /\ OutsideOf(es, BlocksOf(to)) \in Seq(Letters)
        /\ OutsideOf(fs, BlocksOf(to)) = OutsideOf(es, BlocksOf(to)) \o <<>>
    BY <1>1, <1>3, OutsideAppend
  <2> QED BY <2>1, <2>2, <2>3, ConcatEmptySeq DEF SaidOf
<1> QED BY <1>4, <1>9, <1>10, <1>11 DEF Keeps, fs, to

\* What is left of the arguments of a call that has its block is sent.
LEMMA CallTells ==
  ASSUME NEW es, NEW next, NEW index, NEW rest, NEW closed,
         StreamSound(es, next, NoBlock, index, rest, closed), NEW s \in DOMAIN index \ closed, index[s] # NoBlock
  PROVE  LET fs == es \o ArgsDelta(index[s], rest[s])
             less == [rest EXCEPT ![s] = <<>>]
         IN  StreamSound(fs, next, NoBlock, index, less, closed) /\ Keeps(es, index, rest, fs, index, less)
<1> DEFINE b == index[s]
           t == rest[s]
           fs == es \o ArgsDelta(b, t)
           gs == Append(es, Delta(b, t))
           less == [rest EXCEPT ![s] = <<>>]
           D == DOMAIN index
<1>1. /\ es \in Seq(EventType) /\ next \in Nat /\ Sound(es, next, OpensOf(NoBlock, index, closed))
      /\ FreshFrom(es, next)
  BY DEF StreamSound, Sound
<1>2. /\ index \in [D -> Nat \cup {NoBlock}] /\ rest \in [D -> Seq(Letters)] /\ NoBlock = -1
      /\ b \in Nat /\ b < next /\ t \in Seq(Letters)
  BY DEF StreamSound, NoBlock
<1>3. /\ less \in [D -> Seq(Letters)] /\ less[s] = <<>> /\ \A u \in D : u # s => less[u] = rest[u]
  BY <1>2
<1>4. b \in BlocksOf(index) /\ b \in OpensOf(NoBlock, index, closed)
  BY DEF BlocksOf, OpensOf
<1>5. \A u \in D : u # s => index[u] # b
  BY DEF StreamSound
<1> HIDE DEF less
<1>6. CASE t = <<>>
  <2>1. fs = es
    <3>1. es \o <<>> = es
      BY <1>1, ConcatEmptySeq
    <3> QED BY <1>6, <3>1 DEF ArgsDelta
  <2>2. less = rest
    BY <1>2, <1>6 DEF less
  <2> HIDE DEF fs
  <2>3. Keeps(es, index, rest, es, index, rest)
    BY DEF Keeps
  <2>4. StreamSound(fs, next, NoBlock, index, less, closed) /\ Keeps(es, index, rest, fs, index, less)
    BY <2>1, <2>2, <2>3
  <2> QED BY <2>4 DEF fs, less
<1>7. CASE t # <<>>
  <2>1. Delta(b, t) \in EventType /\ Delta(b, t).event = "delta" /\ Delta(b, t).block = b /\ Delta(b, t).text = t
    BY <1>2 DEF Delta, EventType
  <2>2. fs = gs
    <3> DEFINE e == Delta(b, t)
    <3>1. ArgsDelta(b, t) = <<e>>
      BY <1>7 DEF ArgsDelta
    <3> HIDE DEF e
    <3>2. es \o <<e>> = Append(es, e)
      BY <1>1, <2>1, AppendIsConcat
    <3> QED BY <3>1, <3>2 DEF e
  <2>3. Sound(gs, next, OpensOf(NoBlock, index, closed))
    BY <1>1, <1>2, <1>4, AddDelta
  <2>4. \A c : /\ ArgsOf(es, c) \in Seq(Letters)
               /\ ArgsOf(gs, c) = IF c = b THEN ArgsOf(es, b) \o t ELSE ArgsOf(es, c)
    <3> TAKE c
    <3>1. /\ ArgsOf(es, c) \in Seq(Letters)
          /\ ArgsOf(gs, c) = ArgsOf(es, c) \o (IF b = c THEN t ELSE <<>>)
      BY <1>1, <2>1, ArgsOfAppend
    <3>2. ArgsOf(es, c) \o <<>> = ArgsOf(es, c)
      BY <3>1, ConcatEmptySeq
    <3> QED BY <3>1, <3>2
  <2> HIDE DEF gs, fs
  <2>5. FreshFrom(gs, next)
    BY <1>1, <1>2, <2>4 DEF FreshFrom
  <2>6. StreamSound(gs, next, NoBlock, index, less, closed)
    BY <1>3, <2>3, <2>5 DEF StreamSound
  <2>7. \A u \in D : GotOf(gs, index, less, u) = GotOf(es, index, rest, u)
    <3> TAKE u \in D
    <3>1. CASE u = s
      <4>1. GotOf(gs, index, less, s) = (ArgsOf(es, b) \o t) \o <<>>
        BY <1>2, <1>3, <2>4 DEF GotOf
      <4>2. ArgsOf(es, b) \o t \in Seq(Letters)
        BY <1>2, <2>4, ConcatProperties
      <4>3. (ArgsOf(es, b) \o t) \o <<>> = ArgsOf(es, b) \o t
        BY <4>2, ConcatEmptySeq
      <4>4. GotOf(es, index, rest, s) = ArgsOf(es, b) \o t
        BY DEF GotOf
      <4> QED BY <3>1, <4>1, <4>3, <4>4
    <3>2. CASE u # s
      BY <1>3, <1>5, <2>4, <3>2 DEF GotOf
    <3> QED BY <3>1, <3>2
  <2>8. SaidOf(gs, index) = SaidOf(es, index)
    <3>1. /\ OutsideOf(es, BlocksOf(index)) \in Seq(Letters)
          /\ OutsideOf(gs, BlocksOf(index)) = OutsideOf(es, BlocksOf(index)) \o <<>>
      BY <1>1, <1>4, <2>1, OutsideAppend DEF gs
    <3> QED BY <3>1, ConcatEmptySeq DEF SaidOf
  <2>9. StreamSound(fs, next, NoBlock, index, less, closed) /\ Keeps(es, index, rest, fs, index, less)
    BY <2>2, <2>6, <2>7, <2>8 DEF Keeps
  <2> QED BY <2>9 DEF fs, less
<1> QED BY <1>6, <1>7

\* The block of a call is closed.
LEMMA CallStops ==
  ASSUME NEW es, NEW next, NEW index, NEW rest, NEW closed,
         StreamSound(es, next, NoBlock, index, rest, closed), NEW s \in DOMAIN index \ closed, index[s] # NoBlock
  PROVE  LET fs == Append(es, Stop(index[s]))
         IN  StreamSound(fs, next, NoBlock, index, rest, closed \cup {s}) /\ Keeps(es, index, rest, fs, index, rest)
<1> DEFINE b == index[s]
           fs == Append(es, Stop(b))
           D == DOMAIN index
<1>1. /\ es \in Seq(EventType) /\ next \in Nat /\ Sound(es, next, OpensOf(NoBlock, index, closed))
      /\ FreshFrom(es, next)
  BY DEF StreamSound, Sound
<1>2. index \in [D -> Nat \cup {NoBlock}] /\ b \in Nat
  BY DEF StreamSound
<1>3. b \in OpensOf(NoBlock, index, closed)
  BY DEF OpensOf
<1>4. OpensOf(NoBlock, index, closed \cup {s}) = OpensOf(NoBlock, index, closed) \ {b}
  <2>1. \A u \in D : u # s => index[u] # b
    BY DEF StreamSound
  <2> QED BY <2>1 DEF OpensOf
<1>5. Sound(fs, next, OpensOf(NoBlock, index, closed \cup {s}))
  <2>1. Sound(fs, next, OpensOf(NoBlock, index, closed) \ {b})
    BY <1>1, <1>3, AddStop
  <2> QED BY <1>4, <2>1
<1>6. (\A c : ArgsOf(fs, c) = ArgsOf(es, c)) /\ Keeps(es, index, rest, fs, index, rest)
  BY <1>1, <1>2, Marks, MarkKeeps
<1> HIDE DEF fs
<1>7. FreshFrom(fs, next)
  BY <1>1, <1>6 DEF FreshFrom
<1>8. StreamSound(fs, next, NoBlock, index, rest, closed \cup {s})
  BY <1>5, <1>7 DEF StreamSound
<1> QED BY <1>6, <1>8 DEF fs

\* The text block is closed, if there is one.
LEMMA TextCloses ==
  ASSUME NEW v \in ViewType, NEW index, NEW rest, NEW closed,
         StreamSound(v.events, v.next, v.open, index, rest, closed)
  PROVE  LET w == CloseOpenBlocks(v)
         IN  /\ w \in ViewType /\ w.next = v.next /\ w.open = NoBlock
             /\ StreamSound(w.events, w.next, NoBlock, index, rest, closed)
             /\ Keeps(v.events, index, rest, w.events, index, rest)
<1> DEFINE w == CloseOpenBlocks(v)
           es == v.events
           fs == Append(es, Stop(v.open))
<1>1. /\ es \in Seq(EventType) /\ v.next \in Nat /\ Sound(es, v.next, OpensOf(v.open, index, closed))
      /\ FreshFrom(es, v.next) /\ v.open \in Nat \cup {NoBlock}
  BY DEF StreamSound, Sound
<1>2. CASE v.open = NoBlock
  <2>1. w = v
    BY <1>2 DEF CloseOpenBlocks
  <2>2. Keeps(es, index, rest, es, index, rest)
    BY DEF Keeps
  <2> QED BY <1>2, <2>1, <2>2
<1>3. CASE v.open # NoBlock
  <2>1. v.open \in OpensOf(v.open, index, closed) /\ v.open \in Nat
    BY <1>1, <1>3 DEF OpensOf
  <2>2. OpensOf(NoBlock, index, closed) = OpensOf(v.open, index, closed) \ {v.open}
    <3>1. \A s \in DOMAIN index : index[s] # v.open
      BY <1>3 DEF StreamSound
    <3> QED BY <3>1 DEF OpensOf
  <2>3. Sound(fs, v.next, OpensOf(NoBlock, index, closed)) /\ fs \in Seq(EventType)
    <3>1. Sound(fs, v.next, OpensOf(NoBlock, index, closed))
      BY <1>1, <2>1, <2>2, AddStop
    <3> QED BY <3>1 DEF Sound
  <2>4. (\A c : ArgsOf(fs, c) = ArgsOf(es, c)) /\ Keeps(es, index, rest, fs, index, rest)
    BY <1>1, <2>1, Marks, MarkKeeps
  <2>5. w = [v EXCEPT !.events = fs, !.open = NoBlock]
    BY <1>3 DEF CloseOpenBlocks
  <2> HIDE DEF fs
  <2>6. w \in ViewType /\ w.events = fs /\ w.next = v.next /\ w.open = NoBlock
    BY <2>3, <2>5 DEF ViewType
  <2>7. FreshFrom(fs, v.next)
    BY <1>1, <2>4 DEF FreshFrom
  <2>8. StreamSound(fs, v.next, NoBlock, index, rest, closed)
    BY <2>3, <2>7 DEF StreamSound
  <2> QED BY <2>4, <2>6, <2>8
<1> QED BY <1>2, <1>3

\* A sequence with its last element taken off and another one put on.
LEMMA LastOff ==
  ASSUME NEW E, NEW s \in Seq(E), s # <<>>
  PROVE  /\ Front(s) \in Seq(E) /\ Last(s) \in E /\ s = Append(Front(s), Last(s))
         /\ Last(s) = s[Len(s)] /\ Len(s) \in Nat \ {0}
<1> DEFINE n == Len(s)
           f == Front(s)
           l == Last(s)
           g == Append(f, l)
<1>1. l \in E /\ l = s[n] /\ n \in Nat \ {0}
  BY DEF Last
<1>2. f \in Seq(E) /\ Len(f) = n - 1 /\ \A i \in 1..(n - 1) : f[i] = s[i]
  <2>1. f = [i \in 1..(n - 1) |-> s[i]]
    BY DEF Front
  <2>2. n - 1 \in Nat /\ \A i \in 1..(n - 1) : s[i] \in E
    BY <1>1, ElementOfSeq
  <2> QED BY <2>1, <2>2
<1> HIDE DEF f, l
<1>3. g \in Seq(E) /\ Len(g) = (n - 1) + 1 /\ g[(n - 1) + 1] = l /\ \A i \in 1..(n - 1) : g[i] = f[i]
  BY <1>1, <1>2, AppendProperties
<1>4. (n - 1) + 1 = n /\ \A i \in 1..n : i \in 1..(n - 1) \/ i = n
  BY <1>1
<1> HIDE DEF g
<1>5. \A i \in 1..n : g[i] = s[i]
  BY <1>1, <1>2, <1>3, <1>4
<1>6. g = s
  BY <1>3, <1>4, <1>5, SeqEqual
<1> QED BY <1>1, <1>2, <1>6 DEF f, l, g

LEMMA AppendLast ==
  ASSUME NEW E, NEW s \in Seq(E), NEW e \in E
  PROVE  Append(s, e) # <<>> /\ Last(Append(s, e)) = e
<1> DEFINE u == Append(s, e)
<1>1. u # <<>> /\ Len(u) = Len(s) + 1 /\ u[Len(s) + 1] = e
  BY AppendProperties
<1> HIDE DEF u
<1>2. Last(u) = e
  BY <1>1 DEF Last
<1> QED BY <1>1, <1>2 DEF u

\* A text block is opened, if there is none.
LEMMA TextOpens ==
  ASSUME NEW v \in ViewType, NEW index, NEW rest, NEW closed,
         StreamSound(v.events, v.next, v.open, index, rest, closed)
  PROVE  LET w == OpenTextBlock(v)
         IN  /\ w \in ViewType /\ w.open # NoBlock
             /\ StreamSound(w.events, w.next, w.open, index, rest, closed)
             /\ Keeps(v.events, index, rest, w.events, index, rest)
<1> DEFINE w == OpenTextBlock(v)
           es == v.events
           next == v.next
           fs == Append(es, Start(next))
           D == DOMAIN index
<1>1. /\ es \in Seq(EventType) /\ next \in Nat /\ Sound(es, next, OpensOf(v.open, index, closed))
      /\ FreshFrom(es, next) /\ v.open \in Nat \cup {NoBlock} /\ next # NoBlock
  BY DEF StreamSound, Sound, NoBlock
<1>2. CASE v.open # NoBlock
  <2>1. w = v
    BY <1>2 DEF OpenTextBlock
  <2>2. Keeps(es, index, rest, es, index, rest)
    BY DEF Keeps
  <2> QED BY <1>2, <2>1, <2>2
<1>3. CASE v.open = NoBlock
  <2>1. Start(next) \in EventType /\ Start(next).block = next /\ Start(next).text = <<>>
    BY <1>1, Marks
  <2>2. \A s \in D : index[s] # next
    BY <1>1 DEF StreamSound, NoBlock
  <2>3. OpensOf(next, index, closed) = OpensOf(NoBlock, index, closed) \cup {next}
    BY <1>1 DEF OpensOf
  <2>4. Sound(fs, next + 1, OpensOf(next, index, closed)) /\ fs \in Seq(EventType)
    <3>1. Sound(fs, next + 1, OpensOf(NoBlock, index, closed) \cup {next})
      BY <1>1, <1>3, AddStart
    <3> QED BY <2>3, <3>1 DEF Sound
  <2>5. (\A c : ArgsOf(fs, c) = ArgsOf(es, c)) /\ Keeps(es, index, rest, fs, index, rest)
    BY <1>1, <2>1, MarkKeeps
  <2>7. fs # <<>> /\ Last(fs).block = next
    BY <1>1, <2>1, AppendLast
  <2>8. w = [events |-> fs, next |-> next + 1, open |-> next]
    BY <1>3 DEF OpenTextBlock
  <2> HIDE DEF fs
  <2>9. w \in ViewType /\ w.events = fs /\ w.next = next + 1 /\ w.open = next
    BY <1>1, <2>4, <2>8 DEF ViewType
  <2>10. FreshFrom(fs, next + 1)
    BY <1>1, <2>5 DEF FreshFrom
  <2>11. \A s \in D : index[s] < next + 1
    <3> TAKE s \in D
    <3>1. index[s] \in Int /\ index[s] < next
      BY DEF StreamSound, NoBlock
    <3> QED BY <1>1, <3>1
  <2>12. StreamSound(fs, next + 1, next, index, rest, closed)
    BY <1>1, <2>2, <2>4, <2>7, <2>10, <2>11 DEF StreamSound
  <2> QED BY <1>1, <2>5, <2>9, <2>12
<1> QED BY <1>2, <1>3

\* A delta that is not a call's, as another event or as more of the last one.
LEMMA DeltaGrows ==
  ASSUME NEW f \in Seq(EventType), NEW o \in Nat, NEW l \in Seq(Letters), NEW t \in Seq(Letters)
  PROVE  LET es == Append(f, Delta(o, l))
             fs == Append(f, Delta(o, l \o t))
         IN  /\ \A c : c # o => ArgsOf(fs, c) = ArgsOf(es, c)
             /\ \A B : o \notin B => OutsideOf(fs, B) = OutsideOf(es, B) \o t
             /\ \A next, opens : Sound(es, next, opens) => Sound(fs, next, opens)
<1> DEFINE d == Delta(o, l)
           e == Delta(o, l \o t)
           es == Append(f, d)
           fs == Append(f, e)
           n == Len(f)
<1>1. l \o t \in Seq(Letters) /\ n \in Nat
  BY ConcatProperties
<1>2. /\ d \in EventType /\ d.event = "delta" /\ d.block = o /\ d.text = l
      /\ e \in EventType /\ e.event = "delta" /\ e.block = o /\ e.text = l \o t
  BY <1>1 DEF Delta, EventType
<1> HIDE DEF d, e
<1>3. ASSUME NEW c, c # o PROVE ArgsOf(fs, c) = ArgsOf(es, c)
  <2>1. ArgsOf(f, c) \in Seq(Letters) /\ ArgsOf(fs, c) = ArgsOf(f, c) \o <<>>
    BY <1>2, <1>3, ArgsOfAppend
  <2>2. ArgsOf(es, c) = ArgsOf(f, c) \o <<>>
    BY <1>2, <1>3, ArgsOfAppend
  <2> QED BY <2>1, <2>2
<1>4. ASSUME NEW B, o \notin B PROVE OutsideOf(fs, B) = OutsideOf(es, B) \o t
  <2> DEFINE r == OutsideOf(f, B)
  <2>0. OutsideOf(f, B) \in Seq(Letters) /\ OutsideOf(fs, B) = OutsideOf(f, B) \o e.text
    BY <1>2, <1>4, OutsideAppend
  <2>1. r \in Seq(Letters) /\ OutsideOf(fs, B) = r \o (l \o t)
    BY <1>2, <2>0
  <2>2. OutsideOf(es, B) = r \o l
    BY <1>2, <1>4, OutsideAppend
  <2> HIDE DEF r
  <2>3. (r \o l) \o t = r \o (l \o t)
    BY <2>1, ConcatAssociative, SMTT(30)
  <2> QED BY <2>1, <2>2, <2>3
<1>5. Len(fs) = n + 1 /\ fs[n + 1] = e /\ (\A i \in 1..n : fs[i] = f[i]) /\ fs \in Seq(EventType)
  BY <1>2, AppendProperties
<1>6. Len(es) = n + 1 /\ es[n + 1] = d /\ (\A i \in 1..n : es[i] = f[i]) /\ es \in Seq(EventType)
  BY <1>2, AppendProperties
<1> HIDE DEF es, fs
<1>7. ASSUME NEW i \in 1..Len(es) PROVE fs[i].event = es[i].event /\ fs[i].block = es[i].block
  <2>1. i \in 1..n \/ i = n + 1
    BY <1>1, <1>6
  <2> QED BY <1>2, <1>5, <1>6, <2>1
<1>8. ASSUME NEW next, NEW opens, Sound(es, next, opens) PROVE Sound(fs, next, opens)
  BY <1>5, <1>6, <1>7, <1>8, SameShape
<1> QED BY <1>3, <1>4, <1>8 DEF es, fs, d, e

\* Text is sent: it is read after the text so far, and no call has it.
LEMMA TextSent ==
  ASSUME NEW v \in ViewType, NEW index, NEW rest, NEW closed, NEW t \in Seq(Letters),
         StreamSound(v.events, v.next, v.open, index, rest, closed)
  PROVE  LET w == WithText(v, t)
         IN  /\ w \in ViewType /\ StreamSound(w.events, w.next, w.open, index, rest, closed)
             /\ \A s \in DOMAIN index : GotOf(w.events, index, rest, s) = GotOf(v.events, index, rest, s)
             /\ SaidOf(w.events, index) = SaidOf(v.events, index) \o t
<1>1. CASE t = <<>>
  <2>1. v.events \in Seq(EventType)
    BY DEF ViewType
  <2>2. SaidOf(v.events, index) \in Seq(Letters)
    <3>1. Start(0) \in EventType
      BY Marks
    <3> QED BY <2>1, <3>1, OutsideAppend DEF SaidOf
  <2>3. SaidOf(v.events, index) \o <<>> = SaidOf(v.events, index)
    BY <2>2, ConcatEmptySeq
  <2> QED BY <1>1, <2>3 DEF WithText
<1>2. CASE t # <<>>
  <2> DEFINE x == OpenTextBlock(v)
             es == x.events
             o == x.open
             last == Last(es)
             fs == IF last.event = "delta" THEN Append(Front(es), Delta(o, last.text \o t)) ELSE Append(es, Delta(o, t))
             B == BlocksOf(index)
             D == DOMAIN index
  <2>1. /\ x \in ViewType /\ o # NoBlock
        /\ StreamSound(es, x.next, o, index, rest, closed)
        /\ Keeps(v.events, index, rest, es, index, rest)
    BY TextOpens
  <2>2. WithText(v, t) = [x EXCEPT !.events = fs]
    BY <1>2 DEF WithText, TextDelta
  <2> HIDE DEF x
  <2>3. /\ es \in Seq(EventType) /\ x.next \in Nat /\ o \in Nat /\ es # <<>> /\ last.block = o
        /\ Sound(es, x.next, OpensOf(o, index, closed)) /\ FreshFrom(es, x.next)
        /\ o \in OpensOf(o, index, closed)
    BY <2>1 DEF StreamSound, Sound, OpensOf
  <2>4. o \notin B /\ \A s \in D : index[s] # o
    BY <2>1 DEF StreamSound, BlocksOf
  <2>5. o < x.next
    BY <2>3 DEF Sound
  <2>6. /\ \A c : c # o => ArgsOf(fs, c) = ArgsOf(es, c)
        /\ OutsideOf(fs, B) = OutsideOf(es, B) \o t
        /\ Sound(fs, x.next, OpensOf(o, index, closed))
        /\ fs # <<>> /\ Last(fs).block = o
    <3>1. CASE last.event = "delta"
      <4> DEFINE l == last.text
                 g == Front(es)
      <4>1. g \in Seq(EventType) /\ last \in EventType /\ es = Append(g, last)
        BY <2>3, LastOff
      <4>2. last = Delta(o, l) /\ l \in Seq(Letters)
        BY <2>3, <3>1, <4>1 DEF Delta, EventType
      <4>3. fs = Append(g, Delta(o, l \o t)) /\ es = Append(g, Delta(o, l))
        BY <3>1, <4>1, <4>2
      <4>4. Delta(o, l \o t) \in EventType /\ Delta(o, l \o t).block = o
        <5>1. l \o t \in Seq(Letters)
          BY <4>2, ConcatProperties
        <5> QED BY <2>3, <5>1 DEF Delta, EventType
      <4> HIDE DEF l, g, fs, es, B, o
      <4>5. /\ \A c : c # o => ArgsOf(fs, c) = ArgsOf(es, c)
            /\ OutsideOf(fs, B) = OutsideOf(es, B) \o t
            /\ Sound(fs, x.next, OpensOf(o, index, closed))
        BY <2>3, <2>4, <4>1, <4>2, <4>3, DeltaGrows
      <4>6. fs # <<>> /\ Last(fs) = Delta(o, l \o t)
        BY <4>1, <4>3, <4>4, AppendLast
      <4> QED BY <4>4, <4>5, <4>6
    <3>2. CASE last.event # "delta"
      <4> DEFINE e == Delta(o, t)
      <4>1. fs = Append(es, e)
        BY <3>2
      <4>2. e \in EventType /\ e.event = "delta" /\ e.block = o /\ e.text = t
        BY <2>3 DEF Delta, EventType
      <4>3. Sound(Append(es, e), x.next, OpensOf(o, index, closed))
        BY <2>3, AddDelta
      <4> HIDE DEF fs, e
      <4>4. ASSUME NEW c, c # o PROVE ArgsOf(fs, c) = ArgsOf(es, c)
        <5>1. ArgsOf(es, c) \in Seq(Letters) /\ ArgsOf(fs, c) = ArgsOf(es, c) \o <<>>
          BY <2>3, <4>1, <4>2, <4>4, ArgsOfAppend
        <5> QED BY <5>1, ConcatEmptySeq
      <4>5. OutsideOf(fs, B) = OutsideOf(es, B) \o t
        BY <2>3, <2>4, <4>1, <4>2, OutsideAppend
      <4>6. fs # <<>> /\ Last(fs) = e
        BY <2>3, <4>1, <4>2, AppendLast
      <4> QED BY <4>1, <4>2, <4>3, <4>4, <4>5, <4>6
    <3> QED BY <3>1, <3>2
  <2> HIDE DEF fs
  <2>7. FreshFrom(fs, x.next)
    BY <2>3, <2>5, <2>6 DEF FreshFrom
  <2>8. StreamSound(fs, x.next, o, index, rest, closed) /\ fs \in Seq(EventType)
    <3>1. fs \in Seq(EventType)
      BY <2>6 DEF Sound
    <3> QED BY <2>1, <2>6, <2>7, <3>1 DEF StreamSound
  <2>9. \A s \in D : GotOf(fs, index, rest, s) = GotOf(v.events, index, rest, s)
    <3>1. \A s \in D : GotOf(fs, index, rest, s) = GotOf(es, index, rest, s)
      BY <2>4, <2>6 DEF GotOf
    <3> QED BY <2>1, <3>1 DEF Keeps
  <2>10. SaidOf(fs, index) = SaidOf(v.events, index) \o t
    BY <2>1, <2>6 DEF Keeps, SaidOf
  <2> DEFINE w == WithText(v, t)
  <2>11. w \in ViewType /\ w.events = fs /\ w.next = x.next /\ w.open = o
    BY <2>1, <2>2, <2>8 DEF ViewType
  <2> HIDE DEF w
  <2>12. /\ w \in ViewType /\ StreamSound(w.events, w.next, w.open, index, rest, closed)
         /\ \A s \in D : GotOf(w.events, index, rest, s) = GotOf(v.events, index, rest, s)
         /\ SaidOf(w.events, index) = SaidOf(v.events, index) \o t
    BY <2>8, <2>9, <2>10, <2>11
  <2> QED BY <2>12 DEF w
<1> QED BY <1>1, <1>2

\* More arguments come for a slot, or the first.
SlotTakes(es, next, open, index, rest, s, args, to, more) ==
  /\ DOMAIN to = DOMAIN index \cup {s} /\ StreamSound(es, next, open, to, more, {})
  /\ \A t \in DOMAIN index \ {s} : GotOf(es, to, more, t) = GotOf(es, index, rest, t)
  /\ GotOf(es, to, more, s) = (IF s \in DOMAIN index THEN GotOf(es, index, rest, s) ELSE <<>>) \o args
  /\ SaidOf(es, to) = SaidOf(es, index)

LEMMA SlotKnown ==
  ASSUME NEW es, NEW next, NEW open, NEW index, NEW rest, NEW s, NEW args \in Seq(Letters),
         StreamSound(es, next, open, index, rest, {}),
         NEW at, at = IF s \in DOMAIN index THEN index[s] ELSE NoBlock,
         NEW left, left = (IF s \in DOMAIN index THEN rest[s] ELSE <<>>) \o args
  PROVE  SlotTakes(es, next, open, index, rest, s, args, With(index, s, at), With(rest, s, left))
<1> DEFINE D == DOMAIN index
           known == s \in D
           to == With(index, s, at)
           more == With(rest, s, left)
<1>1. /\ index \in [D -> Nat \cup {NoBlock}] /\ rest \in [D -> Seq(Letters)] /\ NoBlock = -1
      /\ es \in Seq(EventType) /\ next \in Nat
  BY DEF StreamSound, Sound, NoBlock
<1>2. at \in Nat \cup {NoBlock} /\ (known => at = index[s]) /\ (~known => at = NoBlock)
  BY <1>1
<1>3. left \in Seq(Letters)
  BY <1>1, ConcatProperties
<1>4. /\ DOMAIN to = D \cup {s} /\ to \in [D \cup {s} -> Nat \cup {NoBlock}] /\ to[s] = at
      /\ \A t \in D : to[t] = index[t]
  BY <1>1, <1>2 DEF With
<1>5. /\ DOMAIN more = D \cup {s} /\ more \in [D \cup {s} -> Seq(Letters)] /\ more[s] = left
      /\ \A t \in D \ {s} : more[t] = rest[t]
  BY <1>1, <1>3 DEF With
<1> HIDE DEF to, more
<1>6. OpensOf(open, to, {}) = OpensOf(open, index, {}) /\ BlocksOf(to) = BlocksOf(index)
  <2>1. {to[t] : t \in D \cup {s}} \ {NoBlock} = {index[t] : t \in D} \ {NoBlock}
    BY <1>2, <1>4
  <2> QED BY <1>4, <2>1 DEF OpensOf, BlocksOf
<1>7. StreamSound(es, next, open, to, more, {})
  <2>1. \A t \in D \cup {s} : to[t] # NoBlock => t \in D
    BY <1>2, <1>4
  <2>2. open # NoBlock => \A t \in D \cup {s} : to[t] # open
    BY <1>4, <2>1 DEF StreamSound
  <2>3. \A t \in D \cup {s} : to[t] < next
    <3>1. NoBlock < next
      BY <1>1
    <3> QED BY <1>4, <2>1, <3>1 DEF StreamSound
  <2>4. \A t, u \in D \cup {s} : to[t] = to[u] /\ to[t] # NoBlock => t = u
    BY <1>4, <2>1 DEF StreamSound
  <2> QED BY <1>4, <1>5, <1>6, <2>2, <2>3, <2>4 DEF StreamSound
<1>8. \A t \in D \ {s} : GotOf(es, to, more, t) = GotOf(es, index, rest, t)
  BY <1>4, <1>5 DEF GotOf
<1>9. GotOf(es, to, more, s) = (IF known THEN GotOf(es, index, rest, s) ELSE <<>>) \o args
  <2>1. CASE ~known
    <3>1. GotOf(es, to, more, s) = left
      BY <1>2, <1>4, <1>5, <2>1 DEF GotOf
    <3> QED BY <2>1, <3>1
  <2>2. CASE known /\ index[s] = NoBlock
    <3>1. GotOf(es, to, more, s) = left /\ GotOf(es, index, rest, s) = rest[s]
      BY <1>2, <1>4, <1>5, <2>2 DEF GotOf
    <3> QED BY <2>2, <3>1
  <2>3. CASE known /\ index[s] # NoBlock
    <3> DEFINE a == ArgsOf(es, index[s])
               r == rest[s]
    <3>1. GotOf(es, to, more, s) = a \o (r \o args) /\ GotOf(es, index, rest, s) = a \o r
      BY <1>2, <1>4, <1>5, <2>3 DEF GotOf
    <3>2. a \in Seq(Letters) /\ r \in Seq(Letters)
      <4>1. Start(0) \in EventType
        BY DEF Start, EventType
      <4> QED BY <1>1, <2>3, <4>1, ArgsOfAppend
    <3> HIDE DEF a, r
    <3>3. (a \o r) \o args = a \o (r \o args)
      BY <3>2, ConcatAssociative, SMTT(30)
    <3> QED BY <2>3, <3>1, <3>3
  <2> QED BY <2>1, <2>2, <2>3
<1>10. SaidOf(es, to) = SaidOf(es, index)
  BY <1>6 DEF SaidOf
<1>11. SlotTakes(es, next, open, index, rest, s, args, to, more)
  BY <1>4, <1>7, <1>8, <1>9, <1>10 DEF SlotTakes
<1> QED BY <1>11 DEF to, more

\* The pieces that chunks are made of, the blocks of their slots, and what is known of a
\* stream when some of them and some text have come.
AllPieces == UNION {Range(c.calls) : c \in Chunks}
BlockType == [index : Nat \cup {NoBlock}, name : {Unnamed} \cup {p.name : p \in AllPieces}, args : Seq(Letters)]
StreamType == [view : ViewType, blocks : UNION {[D -> BlockType] : D \in SUBSET Slots},
               stop : {"", "tool_use", "max_tokens", "end_turn"}]
IndexOf(blocks) == [s \in DOMAIN blocks |-> blocks[s].index]
RestOf(blocks) == [s \in DOMAIN blocks |-> blocks[s].args]
SlotsOf(pieces) == {p.slot : p \in Range(pieces)}

ViewStreams(v, blocks) == StreamSound(v.events, v.next, v.open, IndexOf(blocks), RestOf(blocks), {})
Has(v, blocks, s) == GotOf(v.events, IndexOf(blocks), RestOf(blocks), s)
Says(v, blocks) == SaidOf(v.events, IndexOf(blocks))

Streamed(u, pieces, text) ==
  /\ u \in StreamType /\ DOMAIN u.blocks = SlotsOf(pieces) /\ IsFiniteSet(DOMAIN u.blocks)
  /\ ViewStreams(u.view, u.blocks)
  /\ \A s \in DOMAIN u.blocks : Has(u.view, u.blocks, s) = ArgsFor(pieces, s)
  /\ \A s : s \notin DOMAIN u.blocks => ArgsFor(pieces, s) = <<>>
  /\ Says(u.view, u.blocks) = text

LEMMA WithOf ==
  ASSUME NEW blocks, NEW k, NEW block
  PROVE  /\ IndexOf(With(blocks, k, block)) = With(IndexOf(blocks), k, block.index)
         /\ RestOf(With(blocks, k, block)) = With(RestOf(blocks), k, block.args)
<1>1. /\ IndexOf(With(blocks, k, block))
           = [s \in DOMAIN blocks \cup {k} |-> IF s = k THEN block.index ELSE blocks[s].index]
      /\ RestOf(With(blocks, k, block))
           = [s \in DOMAIN blocks \cup {k} |-> IF s = k THEN block.args ELSE blocks[s].args]
  BY DEF IndexOf, RestOf, With
<1>2. /\ With(IndexOf(blocks), k, block.index)
           = [s \in DOMAIN blocks \cup {k} |-> IF s = k THEN block.index ELSE blocks[s].index]
      /\ With(RestOf(blocks), k, block.args)
           = [s \in DOMAIN blocks \cup {k} |-> IF s = k THEN block.args ELSE blocks[s].args]
  BY DEF IndexOf, RestOf, With
<1> QED BY <1>1, <1>2

LEMMA WithTwice ==
  ASSUME NEW f, NEW k, NEW v, NEW w
  PROVE  [With(f, k, v) EXCEPT ![k] = w] = With(f, k, w)
BY DEF With

\* One piece of a call.
LEMMA PieceStreams ==
  ASSUME ExchangeAssumption, SlotsAssumption,
         NEW u, NEW pieces \in Seq(AllPieces), NEW text, Streamed(u, pieces, text), NEW piece \in AllPieces
  PROVE  Streamed(CallPiece(u, piece), Append(pieces, piece), text)
<1> DEFINE slot == piece.slot
           D == DOMAIN u.blocks
           known == IF slot \in D THEN u.blocks[slot] ELSE NoSlot
           block == [known EXCEPT !.name = IF piece.name = Unnamed THEN @ ELSE piece.name, !.args = @ \o piece.args]
           view == CloseOpenBlocks(u.view)
           started == [block EXCEPT !.index = view.next, !.args = <<>>]
           starts == block.index = NoBlock /\ block.name # Unnamed
           index == IndexOf(u.blocks)
           rest == RestOf(u.blocks)
           more == Append(pieces, piece)
<1>1. piece.slot \in Slots /\ piece.args \in Seq(Letters)
  BY DEF ExchangeAssumption, IsChunk, AllPieces
<1>2. /\ u \in StreamType /\ u.view \in ViewType /\ u.blocks \in [D -> BlockType] /\ D \subseteq Slots
      /\ ViewStreams(u.view, u.blocks)
  BY DEF Streamed, StreamType
<1>3. known \in BlockType /\ known.index = (IF slot \in D THEN index[slot] ELSE NoBlock)
      /\ known.args = IF slot \in D THEN rest[slot] ELSE <<>>
  <2>1. NoSlot \in BlockType /\ NoSlot.index = NoBlock /\ NoSlot.args = <<>>
    BY DEF NoSlot, BlockType
  <2>2. slot \in D => u.blocks[slot] \in BlockType /\ index[slot] = u.blocks[slot].index /\ rest[slot] = u.blocks[slot].args
    BY <1>2 DEF IndexOf, RestOf
  <2> QED BY <2>1, <2>2
<1> HIDE DEF known
<1>4. /\ block \in BlockType /\ block.index = (IF slot \in D THEN index[slot] ELSE NoBlock)
      /\ block.args = (IF slot \in D THEN rest[slot] ELSE <<>>) \o piece.args
  <2>1. known.args \o piece.args \in Seq(Letters)
    BY <1>1, <1>3, ConcatProperties DEF BlockType
  <2>2. piece.name \in {Unnamed} \cup {p.name : p \in AllPieces}
    OBVIOUS
  <2>3. block \in BlockType /\ block.index = known.index /\ block.args = known.args \o piece.args
    BY <1>3, <2>1, <2>2 DEF BlockType
  <2> QED BY <1>3, <2>3
<1> HIDE DEF block
\* Either way the view and the blocks that result have what they had, and the piece.
<1> DEFINE Takes(v, blocks) ==
             /\ v \in ViewType /\ blocks \in [D \cup {slot} -> BlockType] /\ ViewStreams(v, blocks)
             /\ \A s \in D \ {slot} : Has(v, blocks, s) = Has(u.view, u.blocks, s)
             /\ Has(v, blocks, slot) = (IF slot \in D THEN Has(u.view, u.blocks, slot) ELSE <<>>) \o piece.args
             /\ Says(v, blocks) = Says(u.view, u.blocks)
           to == With(index, slot, block.index)
           left == With(rest, slot, block.args)
<1>5. DOMAIN index = D /\ DOMAIN rest = D
  BY DEF IndexOf, RestOf
<1>6. ASSUME NEW v \in ViewType, StreamSound(v.events, v.next, v.open, index, rest, {})
      PROVE  /\ DOMAIN to = D \cup {slot} /\ StreamSound(v.events, v.next, v.open, to, left, {})
             /\ \A s \in D \ {slot} : GotOf(v.events, to, left, s) = GotOf(v.events, index, rest, s)
             /\ GotOf(v.events, to, left, slot)
                  = (IF slot \in D THEN GotOf(v.events, index, rest, slot) ELSE <<>>) \o piece.args
             /\ SaidOf(v.events, to) = SaidOf(v.events, index)
  <2> HIDE DEF index, rest, slot, D
  <2>1. /\ block.index = (IF slot \in DOMAIN index THEN index[slot] ELSE NoBlock)
        /\ block.args = (IF slot \in DOMAIN index THEN rest[slot] ELSE <<>>) \o piece.args
    BY <1>4, <1>5
  <2>2. piece.args \in Seq(Letters)
    BY <1>1
  <2>3. /\ DOMAIN to = DOMAIN index \cup {slot} /\ StreamSound(v.events, v.next, v.open, to, left, {})
        /\ \A s \in DOMAIN index \ {slot} : GotOf(v.events, to, left, s) = GotOf(v.events, index, rest, s)
        /\ GotOf(v.events, to, left, slot)
             = (IF slot \in DOMAIN index THEN GotOf(v.events, index, rest, slot) ELSE <<>>) \o piece.args
        /\ SaidOf(v.events, to) = SaidOf(v.events, index)
    <3>1. SlotTakes(v.events, v.next, v.open, index, rest, slot, piece.args, to, left)
      BY <1>6, <2>1, <2>2, SlotKnown
    <3> HIDE DEF to, left
    <3> QED BY <3>1 DEF SlotTakes
  <2> QED BY <1>5, <2>3
<1>7. ASSUME ~starts PROVE \E v, b : CallPiece(u, piece) = [u EXCEPT !.view = v, !.blocks = b] /\ Takes(v, b)
  <2> DEFINE blocks == With(u.blocks, slot, block)
  <2>1. CallPiece(u, piece) = [u EXCEPT !.blocks = With(u.blocks, slot, block)]
    BY <1>7 DEF CallPiece, block, known
  <2>2. blocks \in [D \cup {slot} -> BlockType]
    BY <1>2, <1>4 DEF With
  <2>3. IndexOf(blocks) = to /\ RestOf(blocks) = left
    BY WithOf
  <2> HIDE DEF blocks, to, left
  <2>4. StreamSound(u.view.events, u.view.next, u.view.open, index, rest, {})
    BY <1>2 DEF ViewStreams
  <2>5. Takes(u.view, blocks)
    <3> HIDE DEF index, rest
    <3>1. /\ StreamSound(u.view.events, u.view.next, u.view.open, to, left, {})
          /\ \A s \in D \ {slot} : GotOf(u.view.events, to, left, s) = GotOf(u.view.events, index, rest, s)
          /\ GotOf(u.view.events, to, left, slot)
               = (IF slot \in D THEN GotOf(u.view.events, index, rest, slot) ELSE <<>>) \o piece.args
          /\ SaidOf(u.view.events, to) = SaidOf(u.view.events, index)
      BY <1>2, <1>6, <2>4
    <3> QED BY <1>2, <2>2, <2>3, <3>1 DEF ViewStreams, Has, Says, index, rest
  <2>6. [u EXCEPT !.blocks = With(u.blocks, slot, block)] = [u EXCEPT !.view = u.view, !.blocks = blocks]
    BY <1>2 DEF StreamType, blocks
  <2> HIDE DEF Takes
  <2> QED BY <2>1, <2>5, <2>6
<1>8. ASSUME starts PROVE \E v, b : CallPiece(u, piece) = [u EXCEPT !.view = v, !.blocks = b] /\ Takes(v, b)
  <2> DEFINE next == view.next
             blocks == With(u.blocks, slot, started)
             es == view.events
             fs == Append(es, Start(next))
             gs == fs \o ArgsDelta(next, block.args)
             w == [view EXCEPT !.events = gs, !.next = next + 1]
             to2 == [to EXCEPT ![slot] = next]
             left2 == [left EXCEPT ![slot] = <<>>]
  <2>1. /\ view \in ViewType /\ view.next = u.view.next /\ view.open = NoBlock
        /\ StreamSound(es, next, NoBlock, index, rest, {})
        /\ Keeps(u.view.events, index, rest, es, index, rest)
    <3> HIDE DEF index, rest
    <3>1. StreamSound(u.view.events, u.view.next, u.view.open, index, rest, {})
      BY <1>2 DEF ViewStreams, index, rest
    <3> QED BY <1>2, <3>1, TextCloses
  <2> HIDE DEF view
  <2>2. /\ DOMAIN to = D \cup {slot} /\ StreamSound(es, next, NoBlock, to, left, {})
        /\ \A s \in D \ {slot} : GotOf(es, to, left, s) = GotOf(es, index, rest, s)
        /\ GotOf(es, to, left, slot) = (IF slot \in D THEN GotOf(es, index, rest, slot) ELSE <<>>) \o piece.args
        /\ SaidOf(es, to) = SaidOf(es, index)
    <3> HIDE DEF to, left, index, rest
    <3> QED BY <1>6, <2>1
  <2>3. to[slot] = NoBlock /\ left[slot] = block.args
    BY <1>5, <1>8 DEF With
  <2>4. to2 = With(index, slot, next) /\ left2 = With(rest, slot, <<>>)
    BY WithTwice
  <2> HIDE DEF to, left, index, rest
  <2>5. StreamSound(fs, next + 1, NoBlock, to2, left, {}) /\ Keeps(es, to, left, fs, to2, left)
    <3>1. slot \in DOMAIN to \ {}
      BY <2>2
    <3> HIDE DEF slot, D, es, next, left2
    <3> QED BY <2>2, <2>3, <3>1, CallStarts
  <2>6. next \in Nat /\ next # NoBlock /\ to2[slot] = next /\ DOMAIN to2 = D \cup {slot} /\ es \in Seq(EventType)
    BY <2>1, <2>2 DEF ViewType, NoBlock
  <2> HIDE DEF to2
  <2>7. StreamSound(gs, next + 1, NoBlock, to2, left2, {}) /\ Keeps(fs, to2, left, gs, to2, left2)
    <3>1. gs = fs \o ArgsDelta(to2[slot], left[slot])
      BY <2>3, <2>6
    <3>2. slot \in DOMAIN to2 \ {} /\ to2[slot] # NoBlock
      BY <2>6
    <3> HIDE DEF gs, fs
    <3> QED BY <2>5, <3>1, <3>2, CallTells
  <2>8. /\ started \in BlockType /\ started.index = next /\ started.args = <<>>
    <3>1. block \in BlockType
      BY <1>4
    <3>2. started = [block EXCEPT !.index = next, !.args = <<>>]
      OBVIOUS
    <3> HIDE DEF started, next
    <3>3. next \in Nat \cup {NoBlock} /\ <<>> \in Seq(Letters)
      BY <2>6
    <3> QED BY <3>1, <3>2, <3>3 DEF BlockType
  <2> HIDE DEF started
  <2>9. blocks \in [D \cup {slot} -> BlockType]
    BY <1>2, <2>8 DEF With
  <2>10. IndexOf(blocks) = to2 /\ RestOf(blocks) = left2
    <3>1. IndexOf(blocks) = With(index, slot, started.index) /\ RestOf(blocks) = With(rest, slot, started.args)
      BY WithOf DEF index, rest
    <3> HIDE DEF blocks, left2
    <3> QED BY <2>4, <2>8, <3>1
  <2>11. gs \in Seq(EventType) /\ gs = es \o (<<Start(next)>> \o ArgsDelta(next, block.args))
    <3> DEFINE e == Start(next)
               a == ArgsDelta(next, block.args)
    <3>1. gs \in Seq(EventType)
      BY <2>7 DEF StreamSound, Sound
    <3>2. e \in EventType
      BY <2>6, Marks
    <3>3. a \in Seq(EventType)
      <4>1. block.args \in Seq(Letters)
        BY <1>4 DEF BlockType
      <4>2. Delta(next, block.args) \in EventType
        BY <2>6, <4>1 DEF Delta, EventType
      <4> QED BY <4>2 DEF ArgsDelta
    <3> HIDE DEF e, a
    <3>4. fs = es \o <<e>> /\ <<e>> \in Seq(EventType)
      BY <2>6, <3>2, AppendIsConcat DEF e
    <3>5. (es \o <<e>>) \o a = es \o (<<e>> \o a)
      <4>1. es \in Seq(EventType) /\ <<e>> \in Seq(EventType) /\ a \in Seq(EventType)
        BY <2>6, <3>3, <3>4
      <4> HIDE DEF es
      <4> QED BY <4>1, ConcatAssociative, SMTT(30)
    <3>6. gs = fs \o a
      BY DEF a
    <3> HIDE DEF gs, fs
    <3>7. gs = es \o (<<e>> \o a)
      BY <3>4, <3>5, <3>6
    <3> QED BY <3>1, <3>7 DEF e, a
  <2>12. CallPiece(u, piece) = [u EXCEPT !.view = w, !.blocks = blocks]
    <3>1. CallPiece(u, piece) = [u EXCEPT !.blocks = With(u.blocks, slot, started),
            !.view = Send(view, <<Start(view.next)>> \o ArgsDelta(view.next, block.args), view.next + 1)]
      BY <1>8 DEF CallPiece, block, known, view, started
    <3>2. Send(view, <<Start(view.next)>> \o ArgsDelta(view.next, block.args), view.next + 1) = w
      BY <2>11 DEF Send
    <3> HIDE DEF w
    <3> QED BY <1>2, <3>1, <3>2 DEF StreamType
  <2>13. w \in ViewType /\ w.events = gs /\ w.next = next + 1 /\ w.open = NoBlock
    <3>1. view \in ViewType /\ view.open = NoBlock /\ next + 1 \in Nat /\ gs \in Seq(EventType)
      BY <2>1, <2>6, <2>11
    <3> HIDE DEF gs, next
    <3> QED BY <3>1 DEF ViewType
  <2> HIDE DEF w, gs, fs, blocks, left2
  <2>14. ViewStreams(w, blocks)
    BY <2>7, <2>10, <2>13 DEF ViewStreams
  <2>15. \A s \in D \cup {slot} : GotOf(gs, to2, left2, s) = GotOf(es, to, left, s)
    BY <2>2, <2>5, <2>6, <2>7 DEF Keeps
  <2>16. \A s \in D : GotOf(es, index, rest, s) = Has(u.view, u.blocks, s)
    BY <1>5, <2>1 DEF Keeps, Has, index, rest
  <2>17. \A s \in D \cup {slot} : Has(w, blocks, s) = GotOf(es, to, left, s)
    BY <2>10, <2>13, <2>15 DEF Has
  <2>18. Says(w, blocks) = Says(u.view, u.blocks)
    <3>1. SaidOf(gs, to2) = SaidOf(es, to) /\ SaidOf(es, index) = SaidOf(u.view.events, index)
      BY <2>1, <2>5, <2>7 DEF Keeps
    <3> QED BY <2>2, <2>10, <2>13, <3>1 DEF Says, index
  <2>19. Takes(w, blocks)
    BY <2>2, <2>9, <2>13, <2>14, <2>16, <2>17, <2>18
  <2> HIDE DEF Takes
  <2> QED BY <2>12, <2>19
<1>9. PICK v, b : CallPiece(u, piece) = [u EXCEPT !.view = v, !.blocks = b] /\ Takes(v, b)
  BY <1>7, <1>8
<1>10. \A s : /\ ArgsFor(pieces, s) \in Seq(Letters)
               /\ ArgsFor(more, s) = ArgsFor(pieces, s) \o (IF piece.slot = s THEN piece.args ELSE <<>>)
  <2>1. \A p \in AllPieces : p.args \in Seq(Letters)
    BY DEF ExchangeAssumption, IsChunk, AllPieces
  <2> QED BY <2>1, ArgsForAppend
<1>11. \A s : s # slot => ArgsFor(more, s) = ArgsFor(pieces, s)
  BY <1>10, ConcatEmptySeq
<1>12. SlotsOf(more) = SlotsOf(pieces) \cup {slot}
  <2>1. Range(more) = Range(pieces) \cup {piece}
    BY AppendIs
  <2> QED BY <2>1 DEF SlotsOf
<1> HIDE DEF more
<1> DEFINE u2 == CallPiece(u, piece)
<1>13. u2 \in StreamType /\ u2.view = v /\ u2.blocks = b
  <2>1. b \in UNION {[S -> BlockType] : S \in SUBSET Slots}
    <3>1. D \cup {slot} \in SUBSET Slots /\ b \in [D \cup {slot} -> BlockType]
      BY <1>1, <1>2, <1>9
    <3> QED BY <3>1
  <2> QED BY <1>2, <1>9, <2>1 DEF StreamType
<1> HIDE DEF u2
<1>14. DOMAIN b = D \cup {slot} /\ D = SlotsOf(pieces) /\ IsFiniteSet(D \cup {slot})
  <2>1. D = SlotsOf(pieces) /\ IsFiniteSet(D)
    BY DEF Streamed
  <2> QED BY <1>9, <2>1, FS_AddElement
<1>15. \A s \in D \cup {slot} : Has(v, b, s) = ArgsFor(more, s)
  <2>1. \A s \in D : Has(u.view, u.blocks, s) = ArgsFor(pieces, s)
    BY DEF Streamed
  <2>2. slot \notin D => ArgsFor(pieces, slot) = <<>>
    BY DEF Streamed
  <2>3. Has(v, b, slot) = ArgsFor(more, slot)
    BY <1>9, <1>10, <2>1, <2>2
  <2> QED BY <1>9, <1>11, <2>1, <2>3
<1>16. \A s : s \notin D \cup {slot} => ArgsFor(more, s) = <<>>
  BY <1>11 DEF Streamed
<1>17. Says(v, b) = text
  BY <1>9 DEF Streamed
<1>18. ViewStreams(v, b)
  BY <1>9
<1> HIDE DEF Takes, D
<1>19. Streamed(u2, more, text)
  BY <1>12, <1>13, <1>14, <1>15, <1>16, <1>17, <1>18 DEF Streamed
<1> QED BY <1>19 DEF u2, more

SomeStreams(text) == {u \in StreamType : \E pieces \in Seq(AllPieces) : Streamed(u, pieces, text)}

\* The values that CallPieces goes through.
PieceRun(f, u, calls) ==
  f[0] = u /\ \A i \in 1..Len(calls) : f[i] = CallPiece(f[i - 1], calls[i])

LEMMA PieceRuns ==
  ASSUME ExchangeAssumption, SlotsAssumption,
         NEW calls \in Seq(AllPieces), NEW text, NEW u \in SomeStreams(text)
  PROVE  \E f \in [0..Len(calls) -> SomeStreams(text)] :
           CallPieces(u, calls) = f[Len(calls)] /\ PieceRun(f, u, calls)
<1> DEFINE Step(i, x) == CallPiece(x, calls[i])
           Runs(f) == f = [i \in 0..Len(calls) |-> IF i = 0 THEN u ELSE CallPiece(f[i - 1], calls[i])]
           F == CHOOSE f : Runs(f)
<1>0. Len(calls) \in Nat /\ u \in SomeStreams(text)
  OBVIOUS
<1>1. CallPieces(u, calls) = F[Len(calls)]
  BY DEF CallPieces
<1>2. \A i \in 1..Len(calls), x \in SomeStreams(text) : Step(i, x) \in SomeStreams(text)
  <2> TAKE i \in 1..Len(calls), x \in SomeStreams(text)
  <2>1. calls[i] \in AllPieces
    BY ElementOfSeq
  <2>2. PICK pieces \in Seq(AllPieces) : Streamed(x, pieces, text)
    BY DEF SomeStreams
  <2> DEFINE y == CallPiece(x, calls[i])
  <2>3. Streamed(y, Append(pieces, calls[i]), text) /\ Append(pieces, calls[i]) \in Seq(AllPieces)
    BY <2>1, <2>2, PieceStreams
  <2>4. y \in StreamType
    BY <2>3 DEF Streamed
  <2> HIDE DEF y
  <2>5. y \in SomeStreams(text)
    BY <2>3, <2>4 DEF SomeStreams
  <2> QED BY <2>5 DEF y
<1>3. PICK f \in [0..Len(calls) -> SomeStreams(text)] : f[0] = u /\ \A i \in 1..Len(calls) : f[i] = Step(i, f[i - 1])
  <2> DEFINE G == [p \in (1..Len(calls)) \X SomeStreams(text) |-> Step(p[1], p[2])]
  <2> HIDE DEF Step
  <2>1. \A i \in 1..Len(calls), x \in SomeStreams(text) : G[<<i, x>>] = Step(i, x)
    OBVIOUS
  <2> HIDE DEF G
  <2>2. \A i \in 1..Len(calls), x \in SomeStreams(text) : G[<<i, x>>] \in SomeStreams(text)
    BY <1>2, <2>1
  <2>3. PICK f \in [0..Len(calls) -> SomeStreams(text)] : RunOf(f, Len(calls), u, G)
    BY <1>0, <2>2, Iterates
  <2>4. \A i \in 1..Len(calls) : i - 1 \in 0..Len(calls)
    BY <1>0
  <2>5. f[0] = u /\ \A i \in 1..Len(calls) : f[i] = G[<<i, f[i - 1]>>]
    BY <2>3 DEF RunOf
  <2>6. \A i \in 1..Len(calls) : f[i - 1] \in SomeStreams(text)
    BY <2>3, <2>4, Zenon
  <2>7. \A i \in 1..Len(calls) : f[i] = Step(i, f[i - 1])
    <3> TAKE i \in 1..Len(calls)
    <3>1. G[<<i, f[i - 1]>>] = Step(i, f[i - 1])
      BY <2>1, <2>6, Zenon
    <3> QED BY <2>5, <3>1, Zenon
  <2> QED BY <2>3, <2>5, <2>7, Zenon
<1>4. Runs(f)
  <2>1. \A i \in 0..Len(calls) : f[i] = IF i = 0 THEN u ELSE CallPiece(f[i - 1], calls[i])
    <3> HIDE DEF F
    <3> TAKE i \in 0..Len(calls)
    <3>1. CASE i = 0
      BY <3>1, <1>3
    <3>2. CASE i # 0
      <4>1. i \in 1..Len(calls)
        BY <1>0, <3>2
      <4> QED BY <4>1, <3>2, <1>3, Zenon
    <3> QED BY <3>1, <3>2
  <2> QED BY <2>1, <1>3, Zenon
<1>5. Runs(F)
  <2> HIDE DEF Runs
  <2> QED BY <1>4
<1>6. F[0] = u /\ F = [i \in 0..Len(calls) |-> F[i]] /\ \A i \in 1..Len(calls) : F[i] = Step(i, F[i - 1])
  <2> HIDE DEF F
  <2>1. \A i \in 0..Len(calls) : F[i] = IF i = 0 THEN u ELSE CallPiece(F[i - 1], calls[i])
    BY <1>5, Zenon
  <2>2. F = [i \in 0..Len(calls) |-> F[i]]
    BY <1>5, <2>1, Zenon
  <2>3. \A i \in 1..Len(calls) : i \in 0..Len(calls) /\ i # 0
    BY <1>0
  <2>4. 0 \in 0..Len(calls)
    BY <1>0
  <2> QED BY <2>1, <2>2, <2>3, <2>4, Zenon
<1> HIDE DEF F, Runs
<1>7. F \in [0..Len(calls) -> SomeStreams(text)]
  <2> HIDE DEF Step
  <2>1. \A i \in 1..Len(calls) : F[i - 1] \in SomeStreams(text) => F[i] \in SomeStreams(text)
    BY <1>2, <1>6
  <2> QED BY <1>0, <1>6, <2>1, RunStays, Zenon
<1> QED BY <1>1, <1>6, <1>7 DEF PieceRun

\* All pieces of a chunk.
LEMMA PiecesStream ==
  ASSUME ExchangeAssumption, SlotsAssumption,
         NEW pieces \in Seq(AllPieces), NEW text, NEW u, Streamed(u, pieces, text), NEW calls \in Seq(AllPieces)
  PROVE  Streamed(CallPieces(u, calls), pieces \o calls, text)
<1>1. u \in SomeStreams(text)
  BY DEF SomeStreams, Streamed
<1>2. PICK f \in [0..Len(calls) -> SomeStreams(text)] : CallPieces(u, calls) = f[Len(calls)] /\ PieceRun(f, u, calls)
  BY <1>1, PieceRuns
<1>3. f[0] = u /\ \A i \in 1..Len(calls) : f[i] = CallPiece(f[i - 1], calls[i])
  BY <1>2 DEF PieceRun
<1> DEFINE Upto(k) == pieces \o SubSeq(calls, 1, k)
           T == {k \in Nat : k <= Len(calls) => Streamed(f[k], Upto(k), text)}
<1>4. 0 \in T
  <2>1. SubSeq(calls, 1, 0) = <<>> /\ pieces \o <<>> = pieces
    BY ConcatEmptySeq
  <2> QED BY <1>3, <2>1
<1>5. ASSUME NEW k \in Nat, k \in T PROVE k + 1 \in T
  <2> SUFFICES ASSUME k + 1 <= Len(calls) PROVE Streamed(f[k + 1], Upto(k + 1), text)
    OBVIOUS
  <2>1. k + 1 \in 1..Len(calls) /\ (k + 1) - 1 = k /\ k <= Len(calls)
    OBVIOUS
  <2>2. calls[k + 1] \in AllPieces
    BY <2>1, ElementOfSeq
  <2>3. Streamed(f[k], Upto(k), text)
    BY <1>5, <2>1
  <2>4. Upto(k) \in Seq(AllPieces) /\ Upto(k + 1) = Append(Upto(k), calls[k + 1])
    <3> DEFINE a == SubSeq(calls, 1, k)
               c == calls[k + 1]
    <3>1. a \in Seq(AllPieces) /\ Len(a) = k
      BY <2>1
    <3>2. SubSeq(calls, 1, k + 1) = Append(a, c)
      <4> DEFINE b == SubSeq(calls, 1, k + 1)
                 d == Append(a, c)
      <4>1. b \in Seq(AllPieces) /\ Len(b) = k + 1 /\ \A i \in 1..(k + 1) : b[i] = calls[i]
        BY <2>1
      <4>2. \A i \in 1..k : a[i] = calls[i]
        BY <2>1
      <4>6. c \in AllPieces
        BY <2>2
      <4> HIDE DEF a, c, b
      <4>3. d \in Seq(AllPieces) /\ Len(d) = k + 1 /\ d[k + 1] = c /\ \A i \in 1..k : d[i] = a[i]
        BY <3>1, <4>6, AppendProperties
      <4> HIDE DEF d
      <4>4. \A i \in 1..(k + 1) : b[i] = d[i]
        <5> TAKE i \in 1..(k + 1)
        <5>1. i \in 1..k \/ i = k + 1
          OBVIOUS
        <5> QED BY <4>1, <4>2, <4>3, <5>1 DEF c
      <4>5. b = d
        BY <4>1, <4>3, <4>4, SeqEqual
      <4> QED BY <4>5 DEF b, d
    <3>3. c \in AllPieces
      BY <2>2
    <3> HIDE DEF a, c
    <3>4. pieces \o Append(a, c) = Append(pieces \o a, c)
      <4>1. Append(a, c) = a \o <<c>> /\ <<c>> \in Seq(AllPieces)
        BY <3>1, <3>3, AppendIsConcat
      <4>2. pieces \o a \in Seq(AllPieces)
        BY <3>1, ConcatProperties
      <4>3. Append(pieces \o a, c) = (pieces \o a) \o <<c>>
        BY <3>3, <4>2, AppendIsConcat
      <4>4. (pieces \o a) \o <<c>> = pieces \o (a \o <<c>>)
        BY <3>1, <4>1, ConcatAssociative, SMTT(30)
      <4> QED BY <4>1, <4>3, <4>4
    <3>5. pieces \o a \in Seq(AllPieces)
      BY <3>1, ConcatProperties
    <3> QED BY <3>2, <3>4, <3>5 DEF a, c
  <2> HIDE DEF Upto
  <2>5. Streamed(CallPiece(f[k], calls[k + 1]), Append(Upto(k), calls[k + 1]), text)
    BY <2>2, <2>3, <2>4, PieceStreams
  <2>6. f[k + 1] = CallPiece(f[k], calls[k + 1])
    BY <1>3, <2>1
  <2> QED BY <2>4, <2>5, <2>6
<1>6. \A k \in Nat : k \in T
  <2> HIDE DEF T
  <2> QED BY <1>4, <1>5, Induction
<1>7. Len(calls) \in Nat /\ SubSeq(calls, 1, Len(calls)) = calls
  <2> DEFINE b == SubSeq(calls, 1, Len(calls))
  <2>1. b \in Seq(AllPieces) /\ Len(b) = Len(calls) /\ \A i \in 1..Len(calls) : b[i] = calls[i]
    OBVIOUS
  <2> HIDE DEF b
  <2>2. b = calls
    BY <2>1, SeqEqual
  <2> QED BY <2>2 DEF b
<1>8. Streamed(f[Len(calls)], Upto(Len(calls)), text)
  BY <1>6, <1>7
<1> QED BY <1>2, <1>7, <1>8

\* A chunk: its text, and then its pieces.
LEMMA ChunkStreams ==
  ASSUME ExchangeAssumption, SlotsAssumption,
         NEW pieces \in Seq(AllPieces), NEW text, NEW u, Streamed(u, pieces, text), NEW chunk \in Chunks
  PROVE  /\ chunk.calls \in Seq(AllPieces) /\ chunk.text \in Seq(Letters)
         /\ Streamed(HandleChunk(u, chunk), pieces \o chunk.calls, text \o chunk.text)
<1>1. chunk.text \in Seq(Letters) /\ chunk.calls \in Seq(Range(chunk.calls))
  BY DEF ExchangeAssumption, IsChunk
<1>2. chunk.calls \in Seq(AllPieces)
  <2> DEFINE c == chunk.calls
  <2>1. Len(c) \in Nat /\ c \in [1..Len(c) -> Range(c)]
    BY <1>1
  <2>2. Range(c) \subseteq AllPieces
    BY DEF AllPieces
  <2>3. c \in [1..Len(c) -> AllPieces]
    BY <2>1, <2>2
  <2> QED BY <2>1, <2>3
<1> DEFINE x == [u EXCEPT !.view = WithText(u.view, chunk.text)]
           w == WithText(u.view, chunk.text)
           index == IndexOf(u.blocks)
           rest == RestOf(u.blocks)
<1>3. u \in StreamType /\ u.view \in ViewType /\ ViewStreams(u.view, u.blocks) /\ Says(u.view, u.blocks) = text
  BY DEF Streamed, StreamType
<1>4. /\ w \in ViewType /\ StreamSound(w.events, w.next, w.open, index, rest, {})
      /\ \A s \in DOMAIN index : GotOf(w.events, index, rest, s) = GotOf(u.view.events, index, rest, s)
      /\ SaidOf(w.events, index) = SaidOf(u.view.events, index) \o chunk.text
  <2> HIDE DEF index, rest
  <2>1. StreamSound(u.view.events, u.view.next, u.view.open, index, rest, {})
    BY <1>3 DEF ViewStreams, index, rest
  <2> QED BY <1>1, <1>3, <2>1, TextSent
<1>5. x = [u EXCEPT !.view = w]
  OBVIOUS
<1> HIDE DEF x, w
<1>6. x \in StreamType /\ x.view = w /\ x.blocks = u.blocks
  BY <1>3, <1>4, <1>5 DEF StreamType
<1>7. Streamed(x, pieces, text \o chunk.text)
  <2>1. ViewStreams(w, u.blocks)
    BY <1>4 DEF ViewStreams
  <2>2. \A s \in DOMAIN u.blocks : Has(w, u.blocks, s) = ArgsFor(pieces, s)
    <3>1. DOMAIN index = DOMAIN u.blocks
      BY DEF IndexOf
    <3> QED BY <1>4, <3>1 DEF Has, Streamed
  <2>3. Says(w, u.blocks) = text \o chunk.text
    BY <1>3, <1>4 DEF Says
  <2> QED BY <1>6, <2>1, <2>2, <2>3 DEF Streamed
<1> DEFINE called == CallPieces(x, chunk.calls)
           all == pieces \o chunk.calls
           said == text \o chunk.text
<1> HIDE DEF all, said
<1>8. Streamed(called, all, said)
  BY <1>2, <1>7, PiecesStream DEF all, said
<1>9. HandleChunk(u, chunk) = IF chunk.finish = "" THEN called ELSE [called EXCEPT !.stop = StopReason(chunk.finish)]
  BY DEF HandleChunk, x, w
<1> HIDE DEF called
<1>10. Streamed([called EXCEPT !.stop = StopReason(chunk.finish)], all, said)
  <2> DEFINE y == [called EXCEPT !.stop = StopReason(chunk.finish)]
  <2>1. StopReason(chunk.finish) \in {"tool_use", "max_tokens", "end_turn"}
    BY DEF StopReason
  <2>2. called \in StreamType
    BY <1>8 DEF Streamed
  <2>3. y \in StreamType /\ y.view = called.view /\ y.blocks = called.blocks
    BY <2>1, <2>2 DEF StreamType
  <2> HIDE DEF y
  <2>4. Streamed(y, all, said)
    BY <1>8, <2>3 DEF Streamed
  <2> QED BY <2>4 DEF y
<1>11. Streamed(HandleChunk(u, chunk), all, said)
  BY <1>8, <1>9, <1>10
<1> QED BY <1>1, <1>2, <1>11 DEF all, said

\* The end of a stream: what is left of each call, in the order of the slots.
Ordered(S, s) ==
  /\ s \in [1..Cardinality(S) -> S]
  /\ \A i, j \in 1..Cardinality(S) : i < j => s[i] < s[j]
HasOrder(S) == \E s : Ordered(S, s)

LEMMA OrderExists ==
  ASSUME NEW S \in SUBSET Nat, IsFiniteSet(S)
  PROVE  HasOrder(S)
<1> DEFINE T == {n \in Nat : \A R \in SUBSET Nat : IsFiniteSet(R) /\ Cardinality(R) = n => HasOrder(R)}
<1>1. 0 \in T
  <2> SUFFICES ASSUME NEW R \in SUBSET Nat, IsFiniteSet(R), Cardinality(R) = 0 PROVE HasOrder(R)
    OBVIOUS
  <2> DEFINE s == [i \in 1..0 |-> 0]
  <2>1. s \in [1..0 -> R] /\ \A i, j \in 1..0 : i < j => s[i] < s[j]
    OBVIOUS
  <2> QED BY <2>1 DEF HasOrder, Ordered
<1>2. ASSUME NEW n \in Nat, n \in T PROVE n + 1 \in T
  <2> SUFFICES ASSUME NEW R \in SUBSET Nat, IsFiniteSet(R), Cardinality(R) = n + 1 PROVE HasOrder(R)
    OBVIOUS
  <2>1. R # {}
    BY FS_EmptySet
  <2>2. PICK m \in R : \A x \in R : m <= x
    BY <2>1, LeastExists
  <2> DEFINE Q == R \ {m}
  <2>3. Q \in SUBSET Nat /\ IsFiniteSet(Q) /\ Cardinality(Q) = n
    <3>1. IsFiniteSet(Q) /\ Cardinality(Q) = Cardinality(R) - 1
      BY FS_RemoveElement
    <3>2. (n + 1) - 1 = n
      OBVIOUS
    <3> HIDE DEF Q
    <3>3. Cardinality(Q) = n
      BY <3>1, <3>2
    <3> QED BY <3>1, <3>3 DEF Q
  <2>4. HasOrder(Q)
    BY <1>2, <2>3
  <2>5. PICK r : Ordered(Q, r)
    BY <2>4 DEF HasOrder
  <2>6. r \in [1..n -> Q] /\ \A i, j \in 1..n : i < j => r[i] < r[j]
    BY <2>3, <2>5 DEF Ordered
  <2>7. \A i \in 1..n : r[i] \in R /\ m < r[i] /\ r[i] \in Nat
    <3> TAKE i \in 1..n
    <3>1. r[i] \in R /\ r[i] # m
      <4> HIDE DEF Q
      <4>1. r[i] \in Q
        BY <2>6
      <4> QED BY <4>1 DEF Q
    <3>2. m \in Nat /\ r[i] \in Nat /\ m <= r[i]
      BY <2>2, <3>1
    <3> QED BY <3>1, <3>2
  <2> HIDE DEF Q
  <2> DEFINE s == [i \in 1..(n + 1) |-> IF i = 1 THEN m ELSE r[i - 1]]
  <2>8. ASSUME NEW i \in 1..(n + 1), i # 1 PROVE i - 1 \in 1..n /\ s[i] = r[i - 1]
    BY <2>8
  <2>9. s \in [1..(n + 1) -> R]
    BY <2>7, <2>8
  <2>10. ASSUME NEW i \in 1..(n + 1), NEW j \in 1..(n + 1), i < j PROVE s[i] < s[j]
    <3>1. j # 1 /\ j - 1 \in 1..n /\ s[j] = r[j - 1]
      BY <2>8, <2>10
    <3>2. CASE i = 1
      BY <2>7, <3>1, <3>2
    <3>3. CASE i # 1
      <4>1. i - 1 \in 1..n /\ s[i] = r[i - 1] /\ i - 1 < j - 1
        BY <2>8, <2>10, <3>3
      <4> HIDE DEF s
      <4> QED BY <2>6, <3>1, <4>1
    <3> QED BY <3>2, <3>3
  <2> HIDE DEF s
  <2>11. Ordered(R, s)
    BY <2>9, <2>10 DEF Ordered
  <2> QED BY <2>11 DEF HasOrder
<1>3. \A n \in Nat : n \in T
  <2> HIDE DEF T
  <2> QED BY <1>1, <1>2, Induction
<1>4. Cardinality(S) \in Nat
  BY FS_CardinalityType
<1> QED BY <1>3, <1>4

LEMMA InOrderIs ==
  ASSUME NEW S \in SUBSET Nat, IsFiniteSet(S)
  PROVE  LET s == InOrder(S)
         IN  /\ s \in Seq(S) /\ Len(s) = Cardinality(S) /\ Len(s) \in Nat
             /\ \A i, j \in 1..Len(s) : s[i] = s[j] => i = j
             /\ {s[i] : i \in 1..Len(s)} = S
<1> DEFINE n == Cardinality(S)
           s == InOrder(S)
<1>1. n \in Nat
  BY FS_CardinalityType
<1>2. PICK r : Ordered(S, r)
  BY OrderExists DEF HasOrder
<1>3. Ordered(S, s)
  <2>1. r \in [1..n -> S] /\ \A i, j \in 1..n : i < j => r[i] < r[j]
    BY <1>2 DEF Ordered
  <2>2. s \in [1..n -> S] /\ \A i, j \in 1..n : i < j => s[i] < s[j]
    BY <2>1 DEF InOrder
  <2> HIDE DEF s
  <2> QED BY <2>2 DEF Ordered
<1> HIDE DEF s
<1>4. s \in [1..n -> S] /\ \A i, j \in 1..n : i < j => s[i] < s[j]
  BY <1>3 DEF Ordered
<1>5. s \in Seq(S) /\ Len(s) = n /\ DOMAIN s = 1..n
  BY <1>1, <1>4
<1>6. \A i, j \in 1..n : s[i] = s[j] => i = j
  <2> SUFFICES ASSUME NEW i \in 1..n, NEW j \in 1..n, s[i] = s[j], i # j PROVE FALSE
    OBVIOUS
  <2>1. i < j \/ j < i
    OBVIOUS
  <2>2. s[i] \in Nat /\ s[j] \in Nat
    BY <1>4
  <2>3. s[i] < s[j] \/ s[j] < s[i]
    BY <1>4, <2>1
  <2> QED BY <2>2, <2>3
<1>7. s \in Injection(1..n, S)
  BY <1>4, <1>5, <1>6 DEF Injection, IsInjective
<1>8. s \in Surjection(1..n, S)
  <2>1. n \in Int /\ 1 \in Int
    BY <1>1
  <2> HIDE DEF n
  <2>2. Cardinality(1..n) = IF 1 > n THEN 0 ELSE n - 1 + 1
    BY <2>1, FS_Interval
  <2>3. Cardinality(1..n) = n
    BY <1>1, <2>2
  <2>4. Cardinality(1..n) = Cardinality(S)
    BY <2>3 DEF n
  <2> QED BY <1>7, <2>4, FS_Injection
<1>9. {s[i] : i \in 1..n} = S
  BY <1>4, <1>8 DEF Surjection
<1> QED BY <1>1, <1>5, <1>6, <1>9 DEF s

LEMMA CloseOpenBlocksType ==
  ASSUME NEW v \in ViewType PROVE CloseOpenBlocks(v) \in ViewType
<1>1. CASE v.open = NoBlock
  BY <1>1 DEF CloseOpenBlocks
<1>2. CASE v.open # NoBlock
  <2> DEFINE es == Append(v.events, Stop(v.open))
  <2>1. v.events \in Seq(EventType) /\ v.open \in Nat
    BY <1>2 DEF ViewType
  <2>2. es \in Seq(EventType)
    BY <2>1, Marks, AppendProperties
  <2>3. CloseOpenBlocks(v) = [v EXCEPT !.events = es, !.open = NoBlock]
    BY <1>2 DEF CloseOpenBlocks
  <2> HIDE DEF es
  <2> QED BY <2>2, <2>3 DEF ViewType
<1> QED BY <1>1, <1>2

\* What closing a call sends, as three steps.
LEMMA CloseCallIs ==
  ASSUME NEW block \in BlockType, NEW v \in ViewType
  PROVE  LET fresh == block.index = NoBlock
             index == IF fresh THEN v.next ELSE block.index
             begun == IF fresh THEN Append(v.events, Start(index)) ELSE v.events
             told == begun \o ArgsDelta(index, block.args)
             es == Append(told, Stop(index))
         IN  /\ CloseCall(block, v) = [v EXCEPT !.events = es, !.next = IF fresh THEN index + 1 ELSE v.next]
             /\ es \in Seq(EventType) /\ CloseCall(block, v) \in ViewType
<1> DEFINE fresh == block.index = NoBlock
           index == IF fresh THEN v.next ELSE block.index
           next == IF fresh THEN index + 1 ELSE v.next
           first == IF fresh THEN <<Start(index)>> ELSE <<>>
           a == ArgsDelta(index, block.args)
           begun == IF fresh THEN Append(v.events, Start(index)) ELSE v.events
           told == begun \o a
           e == Stop(index)
           es == v.events
<1>1. es \in Seq(EventType) /\ v.next \in Nat /\ index \in Nat /\ block.args \in Seq(Letters) /\ next \in Nat
  BY DEF ViewType, BlockType
<1>2. CloseCall(block, v) = [v EXCEPT !.events = es \o (first \o a \o <<e>>), !.next = next]
  BY DEF CloseCall, Send
<1> HIDE DEF index, next, es
<1>3. e \in EventType /\ Start(index) \in EventType
  BY <1>1, Marks
<1>4. a \in Seq(EventType)
  <2>1. Delta(index, block.args) \in EventType
    BY <1>1 DEF Delta, EventType
  <2> QED BY <2>1 DEF ArgsDelta
<1> HIDE DEF a, e
<1>5. first \in Seq(EventType) /\ begun \in Seq(EventType) /\ begun = es \o first
  <2>1. CASE fresh
    BY <1>1, <1>3, <2>1, AppendIsConcat, AppendProperties DEF es
  <2>2. CASE ~fresh
    BY <1>1, <2>2, ConcatEmptySeq DEF es
  <2> QED BY <2>1, <2>2
<1> HIDE DEF first, begun
<1>6. told \in Seq(EventType) /\ <<e>> \in Seq(EventType) /\ first \o a \in Seq(EventType)
  BY <1>3, <1>4, <1>5, ConcatProperties
<1>7. told = es \o (first \o a)
  <2>1. (es \o first) \o a = es \o (first \o a)
    BY <1>1, <1>4, <1>5, ConcatAssociative, SMTT(30)
  <2> QED BY <1>5, <2>1
<1> HIDE DEF told
<1>8. Append(told, e) = es \o (first \o a \o <<e>>) /\ Append(told, e) \in Seq(EventType)
  <2> DEFINE b == first \o a
             d == <<e>>
  <2>1. told = es \o b /\ b \in Seq(EventType) /\ d \in Seq(EventType)
    BY <1>6, <1>7
  <2>2. Append(told, e) = told \o d /\ Append(told, e) \in Seq(EventType)
    BY <1>3, <1>6, AppendIsConcat, AppendProperties
  <2> HIDE DEF b, d
  <2>3. (es \o b) \o d = es \o (b \o d)
    BY <1>1, <2>1, ConcatAssociative, SMTT(30)
  <2>4. Append(told, e) = es \o (b \o d)
    BY <2>1, <2>2, <2>3
  <2> QED BY <2>2, <2>4 DEF b, d
<1> DEFINE fs == Append(told, e)
<1>9. CloseCall(block, v) = [v EXCEPT !.events = fs, !.next = next]
  BY <1>2, <1>8
<1> HIDE DEF fs
<1>10. fs \in Seq(EventType)
  BY <1>8 DEF fs
<1>11. CloseCall(block, v) \in ViewType
  BY <1>1, <1>9, <1>10 DEF ViewType
<1> QED BY <1>9, <1>10, <1>11 DEF fs, told, begun, a, e, next, index, es

LEMMA CloseCallType ==
  ASSUME NEW block \in BlockType, NEW v \in ViewType
  PROVE  CloseCall(block, v) \in ViewType
BY CloseCallIs

LEMMA BlocksType ==
  ASSUME NEW u \in StreamType
  PROVE  /\ u.view \in ViewType /\ u.blocks \in [DOMAIN u.blocks -> BlockType] /\ DOMAIN u.blocks \in SUBSET Slots
         /\ \A s \in DOMAIN u.blocks : u.blocks[s] \in BlockType
<1>1. PICK D \in SUBSET Slots : u.blocks \in [D -> BlockType]
  BY DEF StreamType
<1> QED BY <1>1 DEF StreamType

\* The values that Finish goes through.
FinishRun(f, u) ==
  f[0] = CloseOpenBlocks(u.view) /\ \A i \in 1..Len(InOrder(DOMAIN u.blocks)) : f[i] = CloseCall(u.blocks[InOrder(DOMAIN u.blocks)[i]], f[i - 1])

LEMMA FinishRuns ==
  ASSUME NEW u \in StreamType, InOrder(DOMAIN u.blocks) \in Seq(DOMAIN u.blocks)
  PROVE  \E f \in [0..Len(InOrder(DOMAIN u.blocks)) -> ViewType] :
           Finish(u) = f[Len(InOrder(DOMAIN u.blocks))] /\ FinishRun(f, u)
<1> DEFINE Step(i, x) == CloseCall(u.blocks[InOrder(DOMAIN u.blocks)[i]], x)
           Runs(f) == f = [i \in 0..Len(InOrder(DOMAIN u.blocks)) |-> IF i = 0 THEN CloseOpenBlocks(u.view) ELSE CloseCall(u.blocks[InOrder(DOMAIN u.blocks)[i]], f[i - 1])]
           F == CHOOSE f : Runs(f)
<1>0. Len(InOrder(DOMAIN u.blocks)) \in Nat /\ CloseOpenBlocks(u.view) \in ViewType
  <2>1. u.view \in ViewType
    BY DEF StreamType
  <2> QED BY <2>1, CloseOpenBlocksType
<1>1. Finish(u) = F[Len(InOrder(DOMAIN u.blocks))]
  BY DEF Finish
<1>2. \A i \in 1..Len(InOrder(DOMAIN u.blocks)), x \in ViewType : Step(i, x) \in ViewType
  <2> DEFINE slots == InOrder(DOMAIN u.blocks)
  <2> TAKE i \in 1..Len(slots), x \in ViewType
  <2>1. slots[i] \in DOMAIN u.blocks
    BY ElementOfSeq
  <2>2. u.blocks[slots[i]] \in BlockType
    BY <2>1, BlocksType
  <2> HIDE DEF slots
  <2>3. CloseCall(u.blocks[slots[i]], x) \in ViewType
    BY <2>2, CloseCallType
  <2> QED BY <2>3 DEF slots
<1>3. PICK f \in [0..Len(InOrder(DOMAIN u.blocks)) -> ViewType] : f[0] = CloseOpenBlocks(u.view) /\ \A i \in 1..Len(InOrder(DOMAIN u.blocks)) : f[i] = Step(i, f[i - 1])
  <2> DEFINE G == [p \in (1..Len(InOrder(DOMAIN u.blocks))) \X ViewType |-> Step(p[1], p[2])]
  <2> HIDE DEF Step
  <2>1. \A i \in 1..Len(InOrder(DOMAIN u.blocks)), x \in ViewType : G[<<i, x>>] = Step(i, x)
    OBVIOUS
  <2> HIDE DEF G
  <2>2. \A i \in 1..Len(InOrder(DOMAIN u.blocks)), x \in ViewType : G[<<i, x>>] \in ViewType
    BY <1>2, <2>1
  <2>3. PICK f \in [0..Len(InOrder(DOMAIN u.blocks)) -> ViewType] : RunOf(f, Len(InOrder(DOMAIN u.blocks)), CloseOpenBlocks(u.view), G)
    BY <1>0, <2>2, Iterates
  <2>4. \A i \in 1..Len(InOrder(DOMAIN u.blocks)) : i - 1 \in 0..Len(InOrder(DOMAIN u.blocks))
    BY <1>0
  <2>5. f[0] = CloseOpenBlocks(u.view) /\ \A i \in 1..Len(InOrder(DOMAIN u.blocks)) : f[i] = G[<<i, f[i - 1]>>]
    BY <2>3 DEF RunOf
  <2>6. \A i \in 1..Len(InOrder(DOMAIN u.blocks)) : f[i - 1] \in ViewType
    BY <2>3, <2>4, Zenon
  <2>7. \A i \in 1..Len(InOrder(DOMAIN u.blocks)) : f[i] = Step(i, f[i - 1])
    <3> TAKE i \in 1..Len(InOrder(DOMAIN u.blocks))
    <3>1. G[<<i, f[i - 1]>>] = Step(i, f[i - 1])
      BY <2>1, <2>6, Zenon
    <3> QED BY <2>5, <3>1, Zenon
  <2> QED BY <2>3, <2>5, <2>7, Zenon
<1>4. Runs(f)
  <2>1. \A i \in 0..Len(InOrder(DOMAIN u.blocks)) : f[i] = IF i = 0 THEN CloseOpenBlocks(u.view) ELSE CloseCall(u.blocks[InOrder(DOMAIN u.blocks)[i]], f[i - 1])
    <3> HIDE DEF F
    <3> TAKE i \in 0..Len(InOrder(DOMAIN u.blocks))
    <3>1. CASE i = 0
      BY <3>1, <1>3
    <3>2. CASE i # 0
      <4>1. i \in 1..Len(InOrder(DOMAIN u.blocks))
        BY <1>0, <3>2
      <4> QED BY <4>1, <3>2, <1>3, Zenon
    <3> QED BY <3>1, <3>2
  <2> QED BY <2>1, <1>3, Zenon
<1>5. Runs(F)
  <2> HIDE DEF Runs
  <2> QED BY <1>4
<1>6. F[0] = CloseOpenBlocks(u.view) /\ F = [i \in 0..Len(InOrder(DOMAIN u.blocks)) |-> F[i]] /\ \A i \in 1..Len(InOrder(DOMAIN u.blocks)) : F[i] = Step(i, F[i - 1])
  <2> HIDE DEF F
  <2>1. \A i \in 0..Len(InOrder(DOMAIN u.blocks)) : F[i] = IF i = 0 THEN CloseOpenBlocks(u.view) ELSE CloseCall(u.blocks[InOrder(DOMAIN u.blocks)[i]], F[i - 1])
    BY <1>5, Zenon
  <2>2. F = [i \in 0..Len(InOrder(DOMAIN u.blocks)) |-> F[i]]
    BY <1>5, <2>1, Zenon
  <2>3. \A i \in 1..Len(InOrder(DOMAIN u.blocks)) : i \in 0..Len(InOrder(DOMAIN u.blocks)) /\ i # 0
    BY <1>0
  <2>4. 0 \in 0..Len(InOrder(DOMAIN u.blocks))
    BY <1>0
  <2> QED BY <2>1, <2>2, <2>3, <2>4, Zenon
<1> HIDE DEF F, Runs
<1>7. F \in [0..Len(InOrder(DOMAIN u.blocks)) -> ViewType]
  <2> HIDE DEF Step
  <2>1. \A i \in 1..Len(InOrder(DOMAIN u.blocks)) : F[i - 1] \in ViewType => F[i] \in ViewType
    BY <1>2, <1>6
  <2> DEFINE n == Len(InOrder(DOMAIN u.blocks))
  <2>2. n \in Nat /\ F[0] \in ViewType /\ F = [i \in 0..n |-> F[i]] /\ \A i \in 1..n : F[i - 1] \in ViewType => F[i] \in ViewType
    BY <1>0, <1>6, <2>1
  <2> HIDE DEF n
  <2>3. F \in [0..n -> ViewType]
    BY <2>2, RunStays, Zenon
  <2> QED BY <2>3 DEF n
<1> QED BY <1>1, <1>6, <1>7 DEF FinishRun

\* What is known of a stream of which the calls in closed were closed: their arguments
\* were sent, and of the others it is as u has it.
ClosesTo(v, u, closed, index, rest) ==
  /\ StreamSound(v.events, v.next, NoBlock, index, rest, closed)
  /\ Keeps(u.view.events, IndexOf(u.blocks), RestOf(u.blocks), v.events, index, rest)
  /\ \A s \in closed : rest[s] = <<>>
  /\ \A s \in DOMAIN u.blocks \ closed : index[s] = u.blocks[s].index /\ rest[s] = u.blocks[s].args
ClosedTo(v, u, closed) ==
  v \in ViewType /\ v.open = NoBlock /\ \E index, rest : ClosesTo(v, u, closed, index, rest)

\* A call that has its block gets the rest of its arguments and its stop.
LEMMA CallEnds ==
  ASSUME NEW es, NEW next, NEW index, NEW rest, NEW closed,
         StreamSound(es, next, NoBlock, index, rest, closed), NEW s \in DOMAIN index \ closed, index[s] # NoBlock
  PROVE  LET fs == Append(es \o ArgsDelta(index[s], rest[s]), Stop(index[s]))
             less == [rest EXCEPT ![s] = <<>>]
         IN  StreamSound(fs, next, NoBlock, index, less, closed \cup {s}) /\ Keeps(es, index, rest, fs, index, less)
<1> DEFINE gs == es \o ArgsDelta(index[s], rest[s])
           less == [rest EXCEPT ![s] = <<>>]
           fs == Append(gs, Stop(index[s]))
<1>1. StreamSound(gs, next, NoBlock, index, less, closed) /\ Keeps(es, index, rest, gs, index, less)
  BY CallTells
<1> HIDE DEF gs, less
<1>2. StreamSound(fs, next, NoBlock, index, less, closed \cup {s}) /\ Keeps(gs, index, less, fs, index, less)
  BY <1>1, CallStops
<1> HIDE DEF fs
<1>3. Keeps(es, index, rest, fs, index, less)
  BY <1>1, <1>2 DEF Keeps
<1> QED BY <1>2, <1>3 DEF gs, less, fs

LEMMA CallCloses ==
  ASSUME NEW u \in StreamType, NEW v, NEW closed, ClosedTo(v, u, closed), NEW s \in DOMAIN u.blocks \ closed
  PROVE  ClosedTo(CloseCall(u.blocks[s], v), u, closed \cup {s})
<1> DEFINE block == u.blocks[s]
           D == DOMAIN u.blocks
           w == CloseCall(block, v)
           es == v.events
           fresh == block.index = NoBlock
           at == IF fresh THEN v.next ELSE block.index
           begun == IF fresh THEN Append(es, Start(at)) ELSE es
           next == IF fresh THEN at + 1 ELSE v.next
           fs == Append(begun \o ArgsDelta(at, block.args), Stop(at))
<1>1. v \in ViewType /\ v.open = NoBlock /\ block \in BlockType
  BY BlocksType DEF ClosedTo
<1>2. PICK index, rest : ClosesTo(v, u, closed, index, rest)
  BY DEF ClosedTo
<1>3. /\ StreamSound(es, v.next, NoBlock, index, rest, closed)
      /\ Keeps(u.view.events, IndexOf(u.blocks), RestOf(u.blocks), es, index, rest)
      /\ (\A t \in closed : rest[t] = <<>>) /\ index[s] = block.index /\ rest[s] = block.args
      /\ \A t \in D \ closed : index[t] = u.blocks[t].index /\ rest[t] = u.blocks[t].args
  BY <1>2 DEF ClosesTo
<1>4. DOMAIN index = D
  BY <1>3 DEF Keeps, IndexOf
<1>5. w = [v EXCEPT !.events = fs, !.next = next] /\ w \in ViewType
  BY <1>1, CloseCallIs
<1> HIDE DEF w
<1>6. fs \in Seq(EventType) /\ v.next \in Nat
  BY <1>1, CloseCallIs DEF ViewType
<1> DEFINE to == IF fresh THEN [index EXCEPT ![s] = v.next] ELSE index
           less == [rest EXCEPT ![s] = <<>>]
<1>7. /\ StreamSound(begun, next, NoBlock, to, rest, closed) /\ Keeps(es, index, rest, begun, to, rest)
      /\ to[s] = at /\ at # NoBlock
  <2>1. CASE fresh
    <3>1. s \in DOMAIN index \ closed /\ index[s] = NoBlock
      BY <1>3, <1>4, <2>1
    <3> HIDE DEF es, D, block
    <3>2. /\ StreamSound(Append(es, Start(v.next)), v.next + 1, NoBlock, [index EXCEPT ![s] = v.next], rest, closed)
          /\ Keeps(es, index, rest, Append(es, Start(v.next)), [index EXCEPT ![s] = v.next], rest)
      BY <1>3, <3>1, CallStarts
    <3>3. v.next # NoBlock /\ to[s] = v.next
      BY <1>6, <2>1, <3>1 DEF NoBlock
    <3> QED BY <2>1, <3>2, <3>3
  <2>2. CASE ~fresh
    <3>1. Keeps(es, index, rest, es, index, rest)
      BY DEF Keeps
    <3> QED BY <1>3, <2>2, <3>1
  <2> QED BY <2>1, <2>2
<1>8. \A t \in D : t # s => to[t] = index[t]
  BY <1>4
<1>9. rest \in [D -> Seq(Letters)]
  BY <1>3, <1>4 DEF StreamSound
<1>10. less[s] = <<>> /\ \A t \in D : t # s => less[t] = rest[t]
  BY <1>9
<1> HIDE DEF to
<1>11. DOMAIN to = D
  BY <1>4, <1>7 DEF Keeps
<1>12. StreamSound(fs, next, NoBlock, to, less, closed \cup {s}) /\ Keeps(begun, to, rest, fs, to, less)
  <2>1. fs = Append(begun \o ArgsDelta(to[s], rest[s]), Stop(to[s]))
    BY <1>3, <1>7
  <2>2. s \in DOMAIN to \ closed /\ to[s] # NoBlock
    BY <1>7, <1>11
  <2> HIDE DEF fs, begun, next
  <2> QED BY <1>7, <2>1, <2>2, CallEnds
<1> HIDE DEF fs, next, less
<1>13. w.events = fs /\ w.next = next /\ w.open = NoBlock
  BY <1>1, <1>5 DEF ViewType
<1>14. Keeps(u.view.events, IndexOf(u.blocks), RestOf(u.blocks), fs, to, less)
  BY <1>3, <1>4, <1>7, <1>11, <1>12 DEF Keeps
<1>15. ClosesTo(w, u, closed \cup {s}, to, less)
  <2>1. \A t \in closed \cup {s} : less[t] = <<>>
    <3>1. closed \subseteq D
      BY <1>3, <1>4 DEF StreamSound
    <3> QED BY <1>3, <1>10, <3>1
  <2>2. \A t \in D \ (closed \cup {s}) : to[t] = u.blocks[t].index /\ less[t] = u.blocks[t].args
    BY <1>3, <1>8, <1>10
  <2> QED BY <1>12, <1>13, <1>14, <2>1, <2>2 DEF ClosesTo
<1>16. ClosedTo(w, u, closed \cup {s})
  BY <1>5, <1>13, <1>15 DEF ClosedTo
<1> QED BY <1>16 DEF w

\* The whole end.
LEMMA FinishCloses ==
  ASSUME SlotsAssumption, NEW u, NEW pieces, NEW text, Streamed(u, pieces, text)
  PROVE  ClosedTo(Finish(u), u, DOMAIN u.blocks)
<1> DEFINE D == DOMAIN u.blocks
           slots == InOrder(D)
           n == Len(slots)
<1>1. u \in StreamType /\ IsFiniteSet(D) /\ ViewStreams(u.view, u.blocks)
  BY DEF Streamed
<1>2. D \in SUBSET Nat
  BY <1>1, BlocksType DEF SlotsAssumption
<1>3. /\ slots \in Seq(D) /\ n \in Nat /\ \A i, j \in 1..n : slots[i] = slots[j] => i = j
      /\ {slots[i] : i \in 1..n} = D
  BY <1>1, <1>2, InOrderIs
<1>4. PICK f \in [0..n -> ViewType] : Finish(u) = f[n] /\ FinishRun(f, u)
  BY <1>1, <1>3, FinishRuns
<1>5. f[0] = CloseOpenBlocks(u.view) /\ \A i \in 1..n : f[i] = CloseCall(u.blocks[slots[i]], f[i - 1])
  BY <1>4 DEF FinishRun
<1>6. \A i \in 1..n : slots[i] \in D
  BY <1>3
<1> HIDE DEF slots, n
<1> DEFINE Sofar(k) == {slots[j] : j \in 1..k}
           T == {k \in Nat : k <= n => ClosedTo(f[k], u, Sofar(k))}
<1>7. 0 \in T
  <2> DEFINE v == CloseOpenBlocks(u.view)
             index == IndexOf(u.blocks)
             rest == RestOf(u.blocks)
  <2>1. u.view \in ViewType
    BY <1>1, BlocksType
  <2>2. StreamSound(u.view.events, u.view.next, u.view.open, index, rest, {})
    BY <1>1 DEF ViewStreams
  <2> HIDE DEF index, rest
  <2>3. /\ v \in ViewType /\ v.open = NoBlock /\ StreamSound(v.events, v.next, NoBlock, index, rest, {})
        /\ Keeps(u.view.events, index, rest, v.events, index, rest)
    BY <2>1, <2>2, TextCloses
  <2>4. \A s \in D \ {} : index[s] = u.blocks[s].index /\ rest[s] = u.blocks[s].args
    BY DEF index, rest, IndexOf, RestOf
  <2> HIDE DEF v
  <2>5. ClosesTo(v, u, {}, index, rest)
    BY <2>3, <2>4 DEF ClosesTo, index, rest
  <2>6. ClosedTo(v, u, {})
    BY <2>3, <2>5 DEF ClosedTo
  <2>7. Sofar(0) = {}
    OBVIOUS
  <2> HIDE DEF Sofar
  <2> QED BY <1>5, <2>6, <2>7 DEF v
<1>8. ASSUME NEW k \in Nat, k \in T PROVE k + 1 \in T
  <2> SUFFICES ASSUME k + 1 <= n PROVE ClosedTo(f[k + 1], u, Sofar(k + 1))
    OBVIOUS
  <2>1. k + 1 \in 1..n /\ k <= n /\ (k + 1) - 1 = k
    BY <1>3
  <2>2. ClosedTo(f[k], u, Sofar(k))
    BY <1>8, <2>1
  <2>3. slots[k + 1] \in D \ Sofar(k)
    <3>1. \A j \in 1..k : j \in 1..n /\ j # k + 1
      BY <1>3, <2>1
    <3>2. \A j \in 1..k : slots[j] # slots[k + 1]
      BY <1>3, <2>1, <3>1
    <3> QED BY <1>6, <2>1, <3>2
  <2>4. Sofar(k + 1) = Sofar(k) \cup {slots[k + 1]}
    <3>1. \A j : j \in 1..(k + 1) <=> j \in 1..k \/ j = k + 1
      OBVIOUS
    <3> QED BY <3>1
  <2> HIDE DEF Sofar
  <2>5. f[k + 1] = CloseCall(u.blocks[slots[k + 1]], f[k])
    BY <1>5, <2>1
  <2>6. ClosedTo(CloseCall(u.blocks[slots[k + 1]], f[k]), u, Sofar(k) \cup {slots[k + 1]})
    <3>1. u \in StreamType
      BY <1>1
    <3> QED BY <2>2, <2>3, <3>1, CallCloses
  <2> QED BY <2>4, <2>5, <2>6
<1>9. \A k \in Nat : k \in T
  <2> HIDE DEF T
  <2> QED BY <1>7, <1>8, Induction
<1>10. ClosedTo(f[n], u, Sofar(n))
  <2>1. n \in Nat /\ n <= n
    BY <1>3
  <2> HIDE DEF Sofar
  <2> QED BY <1>9, <2>1
<1> QED BY <1>3, <1>4, <1>10

\* A sound stream with no open block.
LEMMA SoundIsNested ==
  ASSUME NEW v, NEW next, Sound(v.events, next, {})
  PROVE  WellNested(v) /\ AllClosed(v)
<1> DEFINE es == v.events
<1>1. es \in Seq(EventType) /\ DOMAIN es = 1..Len(es)
  BY DEF Sound
<1>2. WellNested(v)
  <2> SUFFICES ASSUME NEW i \in 1..Len(es)
               PROVE  IF es[i].event = "start"
                      THEN es[i].block = Cardinality({j \in 1..(i - 1) : es[j].event = "start"})
                      ELSE /\ {j \in 1..(i - 1) : es[j].event = "start" /\ es[j].block = es[i].block} # {}
                           /\ {j \in 1..(i - 1) : es[j].event = "stop" /\ es[j].block = es[i].block} = {}
    BY <1>1 DEF WellNested
  <2>1. NestedAt(es, i)
    BY DEF Sound
  <2> QED BY <2>1 DEF NestedAt, Started
<1>3. AllClosed(v)
  <2> SUFFICES ASSUME NEW i \in 1..Len(es), es[i].event = "start"
               PROVE  \E j \in 1..Len(es) : es[j].event = "stop" /\ es[j].block = es[i].block
    BY <1>1 DEF AllClosed
  <2>1. es[i].block \in Nat
    <3>1. es[i] \in EventType
      BY <1>1
    <3> QED BY <3>1 DEF EventType
  <2>2. Starts(es, es[i].block)
    BY DEF Starts
  <2>3. Stops(es, es[i].block)
    BY <2>1, <2>2 DEF Sound
  <2> QED BY <2>3 DEF Stops
<1> QED BY <1>2, <1>3

\* The blocks of the slots: each has the arguments of its slot, the others the text.
BlockFor(events, pieces, text, block) ==
  /\ block \in Injection(SlotsOf(pieces), {e.block : e \in Range(events)})
  /\ \A slot \in SlotsOf(pieces) : ArgsOf(events, block[slot]) = ArgsFor(pieces, slot)
  /\ OutsideOf(events, Range(block)) = text
Faithful(view, pieces, text) ==
  WellNested(view) /\ AllClosed(view) /\ \E block : BlockFor(view.events, pieces, text, block)

LEMMA FinishFaithful ==
  ASSUME SlotsAssumption, NEW u, NEW pieces, NEW text, Streamed(u, pieces, text)
  PROVE  Faithful(Finish(u), pieces, text)
<1> DEFINE v == Finish(u)
           es == v.events
           D == DOMAIN u.blocks
<1>1. ClosedTo(v, u, D)
  BY FinishCloses
<1>2. D = SlotsOf(pieces) /\ (\A s \in D : Has(u.view, u.blocks, s) = ArgsFor(pieces, s)) /\ Says(u.view, u.blocks) = text
  BY DEF Streamed
<1> HIDE DEF v, D
<1>3. PICK index, rest : ClosesTo(v, u, D, index, rest)
  BY <1>1 DEF ClosedTo
<1>4. /\ StreamSound(es, v.next, NoBlock, index, rest, D) /\ (\A s \in D : rest[s] = <<>>)
      /\ Keeps(u.view.events, IndexOf(u.blocks), RestOf(u.blocks), es, index, rest)
  BY <1>3 DEF ClosesTo
<1>5. DOMAIN index = D
  BY <1>4 DEF Keeps, IndexOf, D
<1>6. /\ index \in [D -> Nat \cup {NoBlock}] /\ (\A s \in D : index[s] # NoBlock /\ index[s] < v.next)
      /\ Sound(es, v.next, OpensOf(NoBlock, index, D))
      /\ \A s, t \in D : index[s] = index[t] => s = t
  BY <1>4, <1>5 DEF StreamSound
<1>7. Sound(es, v.next, {})
  <2>1. OpensOf(NoBlock, index, D) = {}
    BY <1>5 DEF OpensOf
  <2> QED BY <1>6, <2>1
<1>8. WellNested(v) /\ AllClosed(v)
  BY <1>7, SoundIsNested
<1>9. es \in Seq(EventType) /\ DOMAIN es = 1..Len(es)
  BY <1>7 DEF Sound
<1>10. index \in Injection(SlotsOf(pieces), {e.block : e \in Range(es)})
  <2>1. ASSUME NEW s \in D PROVE index[s] \in {e.block : e \in Range(es)}
    <3>1. index[s] \in Nat /\ index[s] < v.next
      BY <1>6
    <3>2. Starts(es, index[s])
      BY <1>7, <3>1 DEF Sound
    <3>3. PICK j \in 1..Len(es) : es[j].block = index[s]
      BY <3>2 DEF Starts
    <3>4. es[j] \in Range(es)
      BY <1>9 DEF Range
    <3> QED BY <3>3, <3>4
  <2>2. index \in [D -> {e.block : e \in Range(es)}]
    BY <1>6, <2>1
  <2> QED BY <1>2, <1>5, <1>6, <2>2 DEF Injection, IsInjective
<1>11. ASSUME NEW s \in D PROVE ArgsOf(es, index[s]) = ArgsFor(pieces, s)
  <2>1. GotOf(es, index, rest, s) = ArgsOf(es, index[s]) \o <<>>
    BY <1>4, <1>6 DEF GotOf
  <2>2. ArgsOf(es, index[s]) \in Seq(Letters)
    <3>1. Start(0) \in EventType
      BY Marks
    <3> QED BY <1>9, <3>1, ArgsOfAppend
  <2>3. ArgsOf(es, index[s]) \o <<>> = ArgsOf(es, index[s])
    BY <2>2, ConcatEmptySeq
  <2>4. GotOf(es, index, rest, s) = Has(u.view, u.blocks, s)
    BY <1>4 DEF Keeps, Has, IndexOf, D
  <2> QED BY <1>2, <2>1, <2>3, <2>4
<1>12. OutsideOf(es, Range(index)) = text
  <2>1. Range(index) = BlocksOf(index)
    BY <1>5, <1>6 DEF Range, BlocksOf
  <2>2. SaidOf(es, index) = Says(u.view, u.blocks)
    BY <1>4 DEF Keeps, Says
  <2> QED BY <1>2, <2>1, <2>2 DEF SaidOf
<1>13. BlockFor(es, pieces, text, index)
  BY <1>2, <1>10, <1>11, <1>12 DEF BlockFor
<1>14. Faithful(v, pieces, text)
  BY <1>8, <1>13 DEF Faithful
<1> QED BY <1>14 DEF v

\* What the chunks so far carry.
PiecesOf(given) == FlattenSeq([i \in DOMAIN given |-> given[i].calls])
TextsOf(given) == FlattenSeq([i \in DOMAIN given |-> given[i].text])

LEMMA GivenAppend ==
  ASSUME ExchangeAssumption, NEW given \in Seq(Chunks), NEW chunk \in Chunks,
         \A c \in Chunks : c.calls \in Seq(AllPieces) /\ c.text \in Seq(Letters)
  PROVE  /\ PiecesOf(given) \in Seq(AllPieces) /\ PiecesOf(Append(given, chunk)) = PiecesOf(given) \o chunk.calls
         /\ TextsOf(Append(given, chunk)) = TextsOf(given) \o chunk.text
<1> DEFINE F == [c \in Chunks |-> c.calls]
           G == [c \in Chunks |-> c.text]
<1>1. F \in [Chunks -> Seq(AllPieces)]
  OBVIOUS
<1>2. G \in [Chunks -> Seq(Letters)]
  OBVIOUS
<1>3. F[chunk] = chunk.calls /\ G[chunk] = chunk.text
  OBVIOUS
<1>4. \A s \in Seq(Chunks) : PiecesOf(s) = Gathered(s, F) /\ TextsOf(s) = Gathered(s, G)
  <2> TAKE s \in Seq(Chunks)
  <2>1. \A i \in DOMAIN s : s[i] \in Chunks
    BY ElementOfSeq
  <2>2. [i \in DOMAIN s |-> s[i].calls] = [i \in DOMAIN s |-> F[s[i]]]
    BY <2>1
  <2>3. [i \in DOMAIN s |-> s[i].text] = [i \in DOMAIN s |-> G[s[i]]]
    BY <2>1
  <2> QED BY <2>2, <2>3 DEF PiecesOf, TextsOf, Gathered
<1>5. Append(given, chunk) \in Seq(Chunks)
  OBVIOUS
<1> HIDE DEF F, G
<1>6. Gathered(given, F) \in Seq(AllPieces) /\ Gathered(Append(given, chunk), F) = Gathered(given, F) \o F[chunk]
  BY <1>1, GatheredType, GatheredAppend
<1>7. Gathered(Append(given, chunk), G) = Gathered(given, G) \o G[chunk]
  BY <1>2, GatheredAppend
<1>8. PiecesOf(given) = Gathered(given, F) /\ TextsOf(given) = Gathered(given, G)
  BY <1>4
<1>9. /\ PiecesOf(Append(given, chunk)) = Gathered(Append(given, chunk), F)
      /\ TextsOf(Append(given, chunk)) = Gathered(Append(given, chunk), G)
  BY <1>4, <1>5
<1> QED BY <1>3, <1>6, <1>7, <1>8, <1>9

LEMMA NothingStreamed == Streamed(Opened, PiecesOf(<<>>), TextsOf(<<>>)) /\ PiecesOf(<<>>) \in Seq(AllPieces)
<1>1. PiecesOf(<<>>) = <<>> /\ TextsOf(<<>>) = <<>> /\ OutsideOf(<<>>, {}) = <<>>
      /\ \A s : ArgsFor(<<>>, s) = <<>> /\ ArgsOf(<<>>, s) = <<>>
  <2>1. DOMAIN <<>> = {} /\ \A t : t = <<>> => FlattenSeq(t) = <<>>
    BY DEF FlattenSeq
  <2> QED BY <2>1 DEF PiecesOf, TextsOf, OutsideOf, ArgsFor, ArgsOf
<1>2. ViewSound(NoEvents) /\ NoEvents.events = <<>> /\ NoEvents.next = 0 /\ NoEvents.open = NoBlock
  BY NoEventsSound DEF NoEvents
<1>3. Opened.view = NoEvents /\ Opened.blocks = <<>> /\ Opened \in StreamType
  <2>1. <<>> \in [{} -> BlockType] /\ {} \in SUBSET Slots /\ NoEvents \in ViewType
    BY <1>2 DEF ViewSound
  <2> QED BY <2>1 DEF Opened, StreamType
<1>4. DOMAIN Opened.blocks = {} /\ SlotsOf(<<>>) = {}
  BY <1>3 DEF SlotsOf, Range
<1>5. IndexOf(<<>>) = <<>> /\ RestOf(<<>>) = <<>> /\ DOMAIN <<>> = {}
  BY DEF IndexOf, RestOf
<1>6. StreamSound(<<>>, 0, NoBlock, <<>>, <<>>, {})
  <2>1. Sound(<<>>, 0, OpensOf(NoBlock, <<>>, {}))
    <3>1. OpensOf(NoBlock, <<>>, {}) = {} /\ Opens(NoEvents) = {}
      BY <1>2 DEF OpensOf, Opens
    <3> QED BY <1>2, <3>1 DEF ViewSound
  <2> QED BY <1>1, <1>5, <2>1 DEF StreamSound, FreshFrom
<1>7. ViewStreams(Opened.view, Opened.blocks)
  BY <1>2, <1>3, <1>5, <1>6 DEF ViewStreams
<1>8. Says(Opened.view, Opened.blocks) = <<>>
  <2>1. BlocksOf(<<>>) = {}
    BY DEF BlocksOf
  <2> QED BY <1>1, <1>2, <1>3, <1>5, <2>1 DEF Says, SaidOf
<1>9. Streamed(Opened, <<>>, <<>>)
  BY <1>1, <1>3, <1>4, <1>7, <1>8, FS_EmptySet DEF Streamed
<1>10. PiecesOf(<<>>) = <<>> /\ TextsOf(<<>>) = <<>>
  BY <1>1
<1>11. PiecesOf(<<>>) \in Seq(AllPieces)
  <2>1. \A p : p = <<>> => p \in Seq(AllPieces)
    OBVIOUS
  <2>2. PiecesOf(<<>>) = <<>>
    BY <1>10
  <2> HIDE DEF PiecesOf
  <2> QED BY <2>1, <2>2, Zenon
<1> QED BY <1>9, <1>10, <1>11

UpstreamInv ==
  stage = "upstream" =>
    /\ data = [u |-> data.u, given |-> data.given, model |-> data.model]
    /\ data.given \in Seq(Chunks) /\ PiecesOf(data.given) \in Seq(AllPieces)
    /\ Streamed(data.u, PiecesOf(data.given), TextsOf(data.given))

\* However text and the pieces of calls mix in the upstream's chunks, for every number of
\* chunks, slots and pieces: whenever a name comes, first or late or never, the client
\* gets well formed blocks, the arguments of each call in one of them and in their order,
\* and the text in the others.
THEOREM StreamIsFaithful == Spec => []StreamFaithful
<1>1. Init => UpstreamInv /\ StreamFaithful
  BY DEF Init, UpstreamInv, StreamFaithful
<1>2. UpstreamInv /\ StreamFaithful /\ [Next]_vars => UpstreamInv' /\ StreamFaithful'
  <2> SUFFICES ASSUME UpstreamInv, StreamFaithful, [Next]_vars PROVE UpstreamInv' /\ StreamFaithful'
    OBVIOUS
  <2>1. CASE Arrive
    <3>1. CASE stage' = "upstream"
      <4>3. PICK model : data' = [u |-> Opened, given |-> <<>>, model |-> model]
        BY <2>1, <3>1 DEF Arrive, To, Answered
      <4>1. /\ data'.u = Opened /\ data'.given = <<>>
            /\ data' = [u |-> data'.u, given |-> data'.given, model |-> data'.model]
        BY <4>3
      <4>2. <<>> \in Seq(Chunks)
        OBVIOUS
      <4> QED BY <3>1, <4>1, <4>2, NothingStreamed DEF UpstreamInv, StreamFaithful
    <3>2. CASE stage' # "upstream"
      <4>1. stage' # "streamed"
        BY <2>1 DEF Arrive, To, Answered
      <4> QED BY <3>2, <4>1 DEF UpstreamInv, StreamFaithful
    <3> QED BY <3>1, <3>2
  <2>2. CASE Chunk
    <3>1. PICK chunk \in Chunks :
            To("upstream", [data EXCEPT !.u = HandleChunk(data.u, chunk), !.given = Append(data.given, chunk)])
      BY <2>2 DEF Chunk
    <3>2. /\ data.given \in Seq(Chunks) /\ PiecesOf(data.given) \in Seq(AllPieces)
          /\ Streamed(data.u, PiecesOf(data.given), TextsOf(data.given))
      BY <2>2 DEF Chunk, UpstreamInv
    <3>3. stage' = "upstream" /\ data = [u |-> data.u, given |-> data.given, model |-> data.model]
          /\ data' = [data EXCEPT !.u = HandleChunk(data.u, chunk), !.given = Append(data.given, chunk)]
      BY <2>2, <3>1 DEF Chunk, UpstreamInv, To
    <3>4. data' = [u |-> HandleChunk(data.u, chunk), given |-> Append(data.given, chunk), model |-> data.model]
      BY <3>3
    <3>5. /\ data'.u = HandleChunk(data.u, chunk) /\ data'.given = Append(data.given, chunk)
          /\ data' = [u |-> data'.u, given |-> data'.given, model |-> data'.model]
      BY <3>4
    <3>6. \A c \in Chunks : c.calls \in Seq(AllPieces) /\ c.text \in Seq(Letters)
      BY <3>2, ExchangeAssumption, SlotsAssumption, ChunkStreams
    <3>7. Streamed(data'.u, PiecesOf(data.given) \o chunk.calls, TextsOf(data.given) \o chunk.text)
      BY <3>2, <3>5, ExchangeAssumption, SlotsAssumption, ChunkStreams
    <3>8. /\ PiecesOf(data'.given) = PiecesOf(data.given) \o chunk.calls
          /\ TextsOf(data'.given) = TextsOf(data.given) \o chunk.text
      BY <3>2, <3>5, <3>6, ExchangeAssumption, GivenAppend
    <3>9. data'.given \in Seq(Chunks) /\ PiecesOf(data'.given) \in Seq(AllPieces)
      BY <3>2, <3>5, <3>6, <3>8, AppendProperties, ConcatProperties
    <3>10. UpstreamInv'
      BY <3>5, <3>7, <3>8, <3>9 DEF UpstreamInv
    <3> QED BY <3>3, <3>10 DEF StreamFaithful
  <2>3. CASE UpstreamEnds
    <3>1. stage' = "streamed" /\ data' = [view |-> Finish(data.u), given |-> data.given]
      BY <2>3 DEF UpstreamEnds, To
    <3>2. Faithful(Finish(data.u), PiecesOf(data.given), TextsOf(data.given))
      BY <2>3, SlotsAssumption, FinishFaithful DEF UpstreamEnds, UpstreamInv
    <3>3. data'.view = Finish(data.u) /\ data'.given = data.given
      BY <3>1
    <3>4. StreamFaithful'
      <4>1. PICK block : BlockFor(data'.view.events, PiecesOf(data'.given), TextsOf(data'.given), block)
        BY <3>2, <3>3 DEF Faithful
      <4>2. WellNested(data'.view) /\ AllClosed(data'.view)
        BY <3>2, <3>3 DEF Faithful
      <4> QED BY <4>1, <4>2 DEF StreamFaithful, BlockFor, SlotsOf, PiecesOf, TextsOf, ArgsFor, OutsideOf
    <3> QED BY <3>1, <3>4 DEF UpstreamInv
  <2>4. ASSUME stage' \notin {"upstream", "streamed"} PROVE UpstreamInv' /\ StreamFaithful'
    BY <2>4 DEF UpstreamInv, StreamFaithful
  <2>5. CASE Choose \/ Format \/ Ship \/ Fail
    BY <2>4, <2>5 DEF Choose, Format, Prompted, Ship, Fail, To, Answered
  <2>6. CASE AnswerCall \/ AnswerFreely \/ Orient
    BY <2>4, <2>6 DEF AnswerCall, AnswerFreely, Orient, Parsed, To
  <2>7. CASE Deliver
    <3>1. stage' \in {"delivered", "over"}
      BY <2>7 DEF Deliver, To, Answered
    <3> QED BY <2>4, <3>1
  <2>8. CASE UpstreamAnswers \/ Done
    BY <2>4, <2>8 DEF UpstreamAnswers, Done, To, Answered
  <2>9. CASE UNCHANGED vars
    <3>1. UpstreamInv'
      BY <2>9 DEF vars, UpstreamInv
    <3>2. StreamFaithful'
      <4>1. stage' = stage /\ data' = data
        BY <2>9 DEF vars
      <4>2. CASE stage = "streamed"
        <5>1. PICK block : BlockFor(data.view.events, PiecesOf(data.given), TextsOf(data.given), block)
          BY <4>2 DEF StreamFaithful, BlockFor, SlotsOf, PiecesOf, TextsOf, ArgsFor, OutsideOf
        <5>2. BlockFor(data'.view.events, PiecesOf(data'.given), TextsOf(data'.given), block)
          BY <4>1, <5>1
        <5>3. WellNested(data'.view) /\ AllClosed(data'.view)
          BY <4>1, <4>2 DEF StreamFaithful
        <5> QED BY <5>2, <5>3 DEF StreamFaithful, BlockFor, SlotsOf, PiecesOf, TextsOf, ArgsFor, OutsideOf
      <4> QED BY <4>1, <4>2 DEF StreamFaithful
    <3> QED BY <3>1, <3>2
  <2> QED BY <2>1, <2>2, <2>3, <2>5, <2>6, <2>7, <2>8, <2>9 DEF Next
<1> QED BY <1>1, <1>2, PTL DEF Spec

-----------------------------------------------------------------------------
(* What is in a fence. *)

\* The parts of what is in a fence: its header lines, the value each name has last, and
\* the rest, behind a blank line if there is one.
IsHeaderOf(spec, line) == Kind(line) = "pair" /\ \E i \in DOMAIN spec.headers : spec.headers[i] = line[2]
StopOf(spec, inner) ==
  IF spec.headers = <<>> THEN 1
  ELSE SmallestOf({i \in DOMAIN inner : ~IsHeaderOf(spec, inner[i])} \cup {Len(inner) + 1})
BlankAt(spec, inner, stop) == spec.headers # <<>> /\ stop <= Len(inner) /\ inner[stop] = Blank
KeysTo(inner, stop) == {inner[i][2] : i \in 1..stop - 1}
LastTo(inner, stop, k) == CHOOSE i \in 1..stop - 1 : inner[i][2] = k /\ \A j \in i + 1..stop - 1 : inner[j][2] # k
GivenTo(inner, stop) == [k \in KeysTo(inner, stop) |-> <<inner[LastTo(inner, stop, k)][3]>>]
AfterHead(spec, inner, stop) == From(inner, IF BlankAt(spec, inner, stop) THEN stop + 1 ELSE stop)
EditOf(given, edit, e) == With(With(given, edit[2], e[2]), edit[1], e[1])

\* The names of a specification have one role each.
FenceShape(spec) ==
  /\ spec.headers \in Seq(Range(spec.headers)) /\ IsInjective(spec.headers)
  /\ spec.body \notin Range(spec.headers) /\ "" \notin Range(spec.headers)
  /\ \/ spec.edit = <<>>
     \/ /\ spec.edit = <<spec.edit[1], spec.edit[2]>> /\ spec.edit[1] # spec.edit[2] /\ spec.body = ""
        /\ spec.edit[1] \notin Range(spec.headers) /\ spec.edit[2] \notin Range(spec.headers)
        /\ spec.edit[1] # "" /\ spec.edit[2] # ""

\* What the parts of a fence mean.
MeaningOf(spec, given, rest) ==
  CASE spec.edit # <<>> -> {EditOf(given, spec.edit, e) : e \in ParseEdit(rest)}
    [] spec.edit = <<>> /\ spec.body # "" -> {With(given, spec.body, rest)}
    [] OTHER -> {given}

LEMMA InnerIs ==
  ASSUME NEW spec, NEW inner
  PROVE  ParseFencedInner(spec, inner) =
           MeaningOf(spec, GivenTo(inner, StopOf(spec, inner)), AfterHead(spec, inner, StopOf(spec, inner)))
<1> DEFINE IsHeader(line) == Kind(line) = "pair" /\ \E i \in DOMAIN spec.headers : spec.headers[i] = line[2]
           stops == {i \in DOMAIN inner : ~IsHeader(inner[i])} \cup {Len(inner) + 1}
           stop == IF spec.headers = <<>> THEN 1 ELSE SmallestOf(stops)
           blank == spec.headers # <<>> /\ stop <= Len(inner) /\ inner[stop] = Blank
           keys == {inner[i][2] : i \in 1..stop - 1}
           last(k) == CHOOSE i \in 1..stop - 1 : inner[i][2] = k /\ \A j \in i + 1..stop - 1 : inner[j][2] # k
           given == [k \in keys |-> <<inner[last(k)][3]>>]
           rest == From(inner, IF blank THEN stop + 1 ELSE stop)
<1>1. ParseFencedInner(spec, inner) =
        CASE spec.edit # <<>> -> {With(With(given, spec.edit[2], e[2]), spec.edit[1], e[1]) : e \in ParseEdit(rest)}
          [] spec.edit = <<>> /\ spec.body # "" -> {With(given, spec.body, rest)}
          [] OTHER -> {given}
  BY DEF ParseFencedInner
<1>2. stop = StopOf(spec, inner)
  BY DEF StopOf, IsHeaderOf
<1> HIDE DEF stop
<1>3. given = GivenTo(inner, stop)
  BY DEF GivenTo, KeysTo, LastTo
<1>4. rest = AfterHead(spec, inner, stop)
  BY DEF AfterHead, BlankAt
<1> HIDE DEF given, rest
<1>5. ParseFencedInner(spec, inner) = MeaningOf(spec, given, rest)
  BY <1>1 DEF MeaningOf, EditOf
<1> QED BY <1>2, <1>3, <1>4, <1>5

LEMMA StopIs ==
  ASSUME NEW E, NEW inner \in Seq(E), NEW spec, NEW stop, stop = StopOf(spec, inner)
  PROVE  /\ stop \in 1..(Len(inner) + 1)
         /\ \A i \in 1..(stop - 1) : IsHeaderOf(spec, inner[i])
         /\ spec.headers # <<>> /\ stop <= Len(inner) => ~IsHeaderOf(spec, inner[stop])
<1> DEFINE S == {i \in DOMAIN inner : ~IsHeaderOf(spec, inner[i])} \cup {Len(inner) + 1}
<1>1. Len(inner) \in Nat /\ DOMAIN inner = 1..Len(inner)
  OBVIOUS
<1>2. CASE spec.headers = <<>>
  BY <1>1, <1>2 DEF StopOf
<1>3. CASE spec.headers # <<>>
  <2>1. S \in SUBSET Nat /\ S # {} /\ Len(inner) + 1 \in S /\ S \subseteq 1..(Len(inner) + 1)
    BY <1>1
  <2>2. stop = SmallestOf(S)
    BY <1>3 DEF StopOf
  <2>3. stop \in S /\ \A j \in S : stop <= j
    <3> HIDE DEF S
    <3> QED BY <2>1, <2>2, SmallestIs
  <2>4. \A i \in 1..(stop - 1) : i \notin S /\ i \in DOMAIN inner
    <3> HIDE DEF S
    <3> QED BY <1>1, <2>1, <2>3
  <2>5. \A i \in 1..(stop - 1) : IsHeaderOf(spec, inner[i])
    BY <2>4
  <2>6. stop <= Len(inner) => ~IsHeaderOf(spec, inner[stop])
    BY <1>1, <2>3
  <2> QED BY <2>1, <2>3, <2>5, <2>6
<1> QED BY <1>2, <1>3

\* Where the header lines end.
LEMMA StopAt ==
  ASSUME NEW E, NEW inner \in Seq(E), NEW spec, spec.headers # <<>>, NEW k \in 0..Len(inner),
         \A i \in 1..k : IsHeaderOf(spec, inner[i]),
         k < Len(inner) => ~IsHeaderOf(spec, inner[k + 1])
  PROVE  StopOf(spec, inner) = k + 1
<1> DEFINE stop == StopOf(spec, inner)
<1>1. /\ stop \in 1..(Len(inner) + 1)
      /\ \A i \in 1..(stop - 1) : IsHeaderOf(spec, inner[i])
      /\ stop <= Len(inner) => ~IsHeaderOf(spec, inner[stop])
  BY StopIs
<1> HIDE DEF stop
<1>2. ~(stop < k + 1)
  <2> SUFFICES ASSUME stop < k + 1 PROVE FALSE
    OBVIOUS
  <2>1. stop \in 1..k /\ stop <= Len(inner)
    BY <1>1
  <2> QED BY <1>1, <2>1
<1>3. ~(stop > k + 1)
  <2> SUFFICES ASSUME stop > k + 1 PROVE FALSE
    OBVIOUS
  <2>1. k + 1 \in 1..(stop - 1) /\ k < Len(inner)
    BY <1>1
  <2> QED BY <1>1, <2>1
<1> QED BY <1>1, <1>2, <1>3 DEF stop

LEMMA KeysAreHeaders ==
  ASSUME NEW E, NEW inner \in Seq(E), NEW spec, NEW stop, stop = StopOf(spec, inner)
  PROVE  KeysTo(inner, stop) \subseteq Range(spec.headers)
<1>1. \A i \in 1..(stop - 1) : IsHeaderOf(spec, inner[i])
  BY StopIs
<1> QED BY <1>1 DEF KeysTo, IsHeaderOf, Range

LEMMA AfterHeadIs ==
  ASSUME NEW E, NEW inner \in Seq(E), NEW spec, NEW stop, stop = StopOf(spec, inner)
  PROVE  LET rest == AfterHead(spec, inner, stop)
         IN  /\ rest \in Seq(Range(inner) \cup {Blank}) /\ rest # <<>>
             /\ rest = EmptyText \/ Len(rest) <= Len(inner)
<1> DEFINE m == IF BlankAt(spec, inner, stop) THEN stop + 1 ELSE stop
           part == SubSeq(inner, m, Len(inner))
<1>1. stop \in 1..(Len(inner) + 1) /\ Len(inner) \in Nat
  BY StopIs
<1>2. m \in Nat \ {0} /\ AfterHead(spec, inner, stop) = OrEmpty(part)
  BY <1>1 DEF AfterHead, From
<1>3. inner \in Seq(Range(inner))
  BY DEF Range
<1> HIDE DEF m
<1>4. part \in Seq(Range(inner)) /\ Len(part) = IF m <= Len(inner) THEN Len(inner) - m + 1 ELSE 0
  BY <1>1, <1>2, <1>3, PartIs
<1>5. Len(part) <= Len(inner)
  BY <1>1, <1>2, <1>4
<1> HIDE DEF part
<1>6. EmptyText \in Seq(Range(inner) \cup {Blank}) /\ EmptyText # <<>>
  BY DEF EmptyText
<1>7. part \in Seq(Range(inner) \cup {Blank})
  BY <1>4
<1>8. OrEmpty(part) = EmptyText \/ (OrEmpty(part) = part /\ part # <<>>)
  BY DEF OrEmpty
<1> QED BY <1>2, <1>5, <1>6, <1>7, <1>8

\* A text without its leading blank lines is the end of it.
LEMMA WithoutLeadIs ==
  ASSUME NEW E, NEW s \in Seq(E), s # <<>>
  PROVE  /\ WithoutLead(s) \in Seq(E) /\ Range(WithoutLead(s)) \subseteq Range(s)
         /\ Len(WithoutLead(s)) \in 1..Len(s)
         /\ Len(WithoutLead(s)) = Len(s) => WithoutLead(s) = s
<1> DEFINE solid == {i \in DOMAIN s : s[i] # Blank \/ i = Len(s)}
           m == SmallestOf(solid)
           part == SubSeq(s, m, Len(s))
<1>1. Len(s) \in Nat \ {0} /\ DOMAIN s = 1..Len(s)
  BY EmptySeq
<1>2. solid \in SUBSET Nat /\ Len(s) \in solid /\ solid \subseteq 1..Len(s)
  BY <1>1
<1>3. m \in 1..Len(s)
  <2> HIDE DEF solid
  <2> QED BY <1>2, SmallestIs
<1>4. WithoutLead(s) = part
  BY DEF WithoutLead
<1> HIDE DEF m
<1>5. s \in Seq(Range(s))
  BY DEF Range
<1>6. /\ part \in Seq(E) /\ part \in Seq(Range(s)) /\ Len(part) = Len(s) - m + 1
      /\ \A i \in 1..Len(part) : part[i] = s[m + i - 1]
  BY <1>1, <1>3, <1>5, PartIs
<1>7. Range(part) \subseteq Range(s)
  <2> HIDE DEF part
  <2> QED BY <1>6 DEF Range
<1>8. Len(part) = Len(s) => part = s
  <2> HIDE DEF part
  <2> SUFFICES ASSUME Len(part) = Len(s) PROVE part = s
    OBVIOUS
  <2>1. m = 1
    BY <1>1, <1>3, <1>6
  <2>2. \A i \in 1..Len(s) : part[i] = s[i]
    BY <1>1, <1>6, <2>1
  <2> HIDE DEF part
  <2> QED BY <1>1, <1>6, <2>2
<1> HIDE DEF part
<1> QED BY <1>1, <1>3, <1>4, <1>6, <1>7, <1>8

-----------------------------------------------------------------------------
(* Edits. *)

\* The marks of an edit at three places, the first such places, and what is between them.
EditAt(rest, s, p, r) ==
  /\ rest[s] = SearchMark /\ rest[p] = Separator /\ rest[r] = ReplaceMark
  /\ s + 1 < p /\ p + 1 < r
EditFirst(rest, s, p, r) ==
  /\ EditAt(rest, s, p, r)
  /\ \A a, b, c \in 1..Len(rest) :
       EditAt(rest, a, b, c) => s <= a /\ (a = s => p <= b) /\ (a = s /\ b = p => r <= c)
EditResult(rest, s, p, r) == <<WithoutLead(SubSeq(rest, s + 1, p - 1)), WithoutLead(SubSeq(rest, p + 1, r - 1))>>

LEMMA EditIs ==
  ASSUME NEW E, NEW rest \in Seq(E)
  PROVE  \/ ParseEdit(rest) = {} /\ \A a, b, c \in 1..Len(rest) : ~EditAt(rest, a, b, c)
         \/ \E s, p, r \in 1..Len(rest) :
              EditFirst(rest, s, p, r) /\ ParseEdit(rest) = {EditResult(rest, s, p, r)}
<1> DEFINE D == 1..Len(rest)
           fits == {m \in D \X D \X D :
                      /\ rest[m[1]] = SearchMark /\ rest[m[2]] = Separator /\ rest[m[3]] = ReplaceMark
                      /\ m[1] + 1 < m[2] /\ m[2] + 1 < m[3]}
           A == {m[1] : m \in fits}
           s == SmallestOf(A)
           B == {m[2] : m \in {f \in fits : f[1] = s}}
           p == SmallestOf(B)
           C == {m[3] : m \in {f \in fits : f[1] = s /\ f[2] = p}}
           r == SmallestOf(C)
<1>1. Len(rest) \in Nat /\ DOMAIN rest = D
  OBVIOUS
<1>2. ParseEdit(rest) = IF fits = {} THEN {} ELSE {EditResult(rest, s, p, r)}
  BY <1>1 DEF ParseEdit, EditResult
<1>3. \A a, b, c \in D : EditAt(rest, a, b, c) <=> <<a, b, c>> \in fits
  BY DEF EditAt
<1>4. \A m \in fits : m \in D \X D \X D /\ m[1] \in D /\ m[2] \in D /\ m[3] \in D /\ m = <<m[1], m[2], m[3]>>
  OBVIOUS
<1>5. \A a, b, c \in D : EditAt(rest, a, b, c) => /\ a \in A /\ (a = s => b \in B) /\ (a = s /\ b = p => c \in C)
  <2> TAKE a, b, c \in D
  <2> HAVE EditAt(rest, a, b, c)
  <2> DEFINE m == <<a, b, c>>
  <2>1. m \in fits /\ m[1] = a /\ m[2] = b /\ m[3] = c
    BY <1>3
  <2> HIDE DEF m, fits, s, p
  <2> QED BY <2>1
<1>6. CASE fits = {}
  <2>1. \A a, b, c \in D : ~EditAt(rest, a, b, c)
    BY <1>3, <1>6
  <2> QED BY <1>2, <1>6, <2>1
<1>7. CASE fits # {}
  <2> HIDE DEF fits
  <2>1. A \in SUBSET D /\ A # {} /\ B \in SUBSET D /\ C \in SUBSET D
    BY <1>4, <1>7
  <2>2. A \in SUBSET Nat /\ B \in SUBSET Nat /\ C \in SUBSET Nat
    <3> HIDE DEF A, B, C
    <3>1. D \subseteq Nat
      BY <1>1
    <3> QED BY <2>1, <3>1
  <2>3. s \in A /\ \A j \in A : s <= j
    BY <2>1, <2>2, SmallestIs
  <2>4. B # {}
    BY <2>3
  <2>5. p \in B /\ \A j \in B : p <= j
    <3> HIDE DEF A, B, s
    <3> QED BY <2>2, <2>4, SmallestIs
  <2>6. C # {}
    <3> HIDE DEF s, p
    <3> QED BY <2>5
  <2>7. r \in C /\ \A j \in C : r <= j
    <3> HIDE DEF A, B, C, s, p
    <3> QED BY <2>2, <2>6, SmallestIs
  <2>8. PICK m \in fits : m[1] = s /\ m[2] = p /\ m[3] = r
    <3> HIDE DEF s, p, r
    <3> QED BY <2>7
  <2> HIDE DEF A, B, C, s, p, r
  <2>9. s \in D /\ p \in D /\ r \in D /\ <<s, p, r>> \in fits
    BY <1>4, <2>8
  <2>10. EditAt(rest, s, p, r)
    BY <1>3, <2>9
  <2>11. EditFirst(rest, s, p, r)
    BY <1>5, <2>3, <2>5, <2>7, <2>10 DEF EditFirst
  <2> QED BY <1>2, <1>7, <2>9, <2>11
<1> QED BY <1>6, <1>7

\* A part that is not empty, of a sequence.
LEMMA PartSpan ==
  ASSUME NEW E, NEW s \in Seq(E), NEW a \in Nat \ {0}, NEW b \in Nat, a <= b, b <= Len(s)
  PROVE  SubSeq(s, a, b) \in Seq(E) /\ Len(SubSeq(s, a, b)) = b - a + 1 /\ Range(SubSeq(s, a, b)) \subseteq Range(s)
<1> DEFINE u == SubSeq(s, a, b)
<1>1. u \in Seq(E) /\ Len(u) = b - a + 1 /\ \A x : x \in Range(u) <=> \E i \in a..b : x = s[i]
  BY PartIs
<1>2. \A i \in a..b : s[i] \in Range(s)
  BY DEF Range
<1> HIDE DEF u
<1>3. Range(u) \subseteq Range(s)
  BY <1>1, <1>2
<1> QED BY <1>1, <1>3 DEF u

\* The parts of an edit are shorter than the lines they were found in.
LEMMA EditSizes ==
  ASSUME NEW E, NEW rest \in Seq(E), NEW e \in ParseEdit(rest)
  PROVE  /\ e = <<e[1], e[2]>> /\ e[1] \in Seq(E) /\ e[2] \in Seq(E)
         /\ Range(e[1]) \subseteq Range(rest) /\ Range(e[2]) \subseteq Range(rest)
         /\ Len(e[1]) + Len(e[2]) + 3 <= Len(rest) /\ Len(e[1]) > 0 /\ Len(e[2]) > 0
<1>1. PICK s \in 1..Len(rest), p \in 1..Len(rest), r \in 1..Len(rest) :
        EditFirst(rest, s, p, r) /\ ParseEdit(rest) = {EditResult(rest, s, p, r)}
  BY EditIs
<1> DEFINE u == SubSeq(rest, s + 1, p - 1)
           v == SubSeq(rest, p + 1, r - 1)
<1>2. s + 1 < p /\ p + 1 < r /\ Len(rest) \in Nat
  BY <1>1 DEF EditFirst, EditAt
<1>3. e = <<WithoutLead(u), WithoutLead(v)>>
  BY <1>1 DEF EditResult
<1>4. u \in Seq(E) /\ Len(u) = p - s - 1 /\ \A x : x \in Range(u) => x \in Range(rest)
  <2>1. s + 1 \in Nat \ {0} /\ p - 1 \in Nat /\ p - 1 <= Len(rest) /\ s + 1 <= p - 1
    BY <1>2
  <2>2. u \in Seq(E) /\ Len(u) = (p - 1) - (s + 1) + 1 /\ Range(u) \subseteq Range(rest)
    BY <2>1, PartSpan
  <2>3. (p - 1) - (s + 1) + 1 = p - s - 1
    OBVIOUS
  <2> HIDE DEF u
  <2> QED BY <2>2, <2>3
<1>5. v \in Seq(E) /\ Len(v) = r - p - 1 /\ \A x : x \in Range(v) => x \in Range(rest)
  <2>1. p + 1 \in Nat \ {0} /\ r - 1 \in Nat /\ r - 1 <= Len(rest) /\ p + 1 <= r - 1
    BY <1>2
  <2>2. v \in Seq(E) /\ Len(v) = (r - 1) - (p + 1) + 1 /\ Range(v) \subseteq Range(rest)
    BY <2>1, PartSpan
  <2>3. (r - 1) - (p + 1) + 1 = r - p - 1
    OBVIOUS
  <2> HIDE DEF v
  <2> QED BY <2>2, <2>3
<1> HIDE DEF u, v
<1>6. u # <<>> /\ v # <<>>
  BY <1>2, <1>4, <1>5
<1>7. /\ WithoutLead(u) \in Seq(E) /\ Range(WithoutLead(u)) \subseteq Range(u)
      /\ Len(WithoutLead(u)) \in 1..Len(u)
  BY <1>4, <1>6, WithoutLeadIs
<1>8. /\ WithoutLead(v) \in Seq(E) /\ Range(WithoutLead(v)) \subseteq Range(v)
      /\ Len(WithoutLead(v)) \in 1..Len(v)
  BY <1>5, <1>6, WithoutLeadIs
<1>9. e[1] = WithoutLead(u) /\ e[2] = WithoutLead(v) /\ e = <<e[1], e[2]>>
  BY <1>3
<1>10. e[1] \in Seq(E) /\ e[2] \in Seq(E) /\ Range(e[1]) \subseteq Range(rest) /\ Range(e[2]) \subseteq Range(rest)
  BY <1>4, <1>5, <1>7, <1>8, <1>9
<1>11. Len(e[1]) \in 1..(p - s - 1) /\ Len(e[2]) \in 1..(r - p - 1)
  BY <1>4, <1>5, <1>7, <1>8, <1>9
<1>12. Len(e[1]) + Len(e[2]) + 3 <= Len(rest) /\ Len(e[1]) > 0 /\ Len(e[2]) > 0
  <2> DEFINE a == Len(e[1])
             b == Len(e[2])
  <2>1. s \in Nat \ {0} /\ p \in Nat /\ r \in Nat /\ r <= Len(rest)
    BY <1>2
  <2>2. a \in 1..(p - s - 1) /\ b \in 1..(r - p - 1)
    BY <1>11
  <2> HIDE DEF a, b
  <2>3. a + b + 3 <= Len(rest) /\ a > 0 /\ b > 0
    BY <1>2, <2>1, <2>2
  <2> QED BY <2>3 DEF a, b
<1> QED BY <1>9, <1>10, <1>12

\* The lines of an edit.
EditLines(old, new) == <<SearchMark>> \o old \o <<Separator>> \o new \o <<ReplaceMark>>

EditLaidOut(t, old, new, o, n) ==
  /\ Len(t) = o + n + 3
  /\ t[1] = SearchMark /\ t[o + 2] = Separator /\ t[o + n + 3] = ReplaceMark
  /\ \A i \in 1..o : t[i + 1] = old[i]
  /\ \A i \in 1..n : t[o + 2 + i] = new[i]
  /\ SubSeq(t, 2, o + 1) = old /\ SubSeq(t, o + 3, o + n + 2) = new

\* The elements of two sequences joined, and of one with an element more.
Joined(u, s, t) ==
  /\ Len(u) = Len(s) + Len(t)
  /\ \A i \in 1..Len(s) : u[i] = s[i]
  /\ \A i \in 1..Len(t) : u[Len(s) + i] = t[i]
Extended(u, s, x) == Len(u) = Len(s) + 1 /\ (\A i \in 1..Len(s) : u[i] = s[i]) /\ u[Len(s) + 1] = x

LEMMA JoinIs ==
  ASSUME NEW E, NEW s \in Seq(E), NEW t \in Seq(E)
  PROVE  s \o t \in Seq(E) /\ Joined(s \o t, s, t)
BY ConcatProperties DEF Joined

LEMMA JoinParts ==
  ASSUME NEW E, NEW s \in Seq(E), NEW t \in Seq(E)
  PROVE  SubSeq(s \o t, 1, Len(s)) = s /\ SubSeq(s \o t, Len(s) + 1, Len(s) + Len(t)) = t
<1> DEFINE u == s \o t
<1>0. Len(s) \in Nat /\ Len(t) \in Nat
  OBVIOUS
<1>1. /\ u \in Seq(E) /\ Len(u) = Len(s) + Len(t)
      /\ \A i \in 1..Len(s) : u[i] = s[i]
      /\ \A i \in 1..Len(t) : u[Len(s) + i] = t[i]
  BY JoinIs DEF Joined
<1> HIDE DEF u
<1>2. SubSeq(u, 1, Len(s)) = s
  <2> DEFINE v == SubSeq(u, 1, Len(s))
  <2>1. v \in Seq(E) /\ Len(v) = (IF 1 <= Len(s) THEN Len(s) - 1 + 1 ELSE 0) /\ \A i \in 1..Len(v) : v[i] = u[1 + i - 1]
    BY <1>0, <1>1, PartIs
  <2> HIDE DEF v
  <2>2. Len(v) = Len(s) /\ \A i \in 1..Len(s) : v[i] = s[i]
    BY <1>0, <1>1, <2>1
  <2> QED BY <2>1, <2>2 DEF v
<1>3. SubSeq(u, Len(s) + 1, Len(s) + Len(t)) = t
  <2> DEFINE v == SubSeq(u, Len(s) + 1, Len(s) + Len(t))
  <2>1. /\ v \in Seq(E) /\ Len(v) = (IF Len(s) + 1 <= Len(s) + Len(t) THEN Len(s) + Len(t) - (Len(s) + 1) + 1 ELSE 0)
        /\ \A i \in 1..Len(v) : v[i] = u[(Len(s) + 1) + i - 1]
    BY <1>0, <1>1, PartIs
  <2> HIDE DEF v
  <2>2. Len(v) = Len(t)
    BY <1>0, <2>1
  <2>3. \A i \in 1..Len(t) : (Len(s) + 1) + i - 1 = Len(s) + i
    BY <1>0
  <2>4. \A i \in 1..Len(t) : v[i] = t[i]
    BY <1>1, <2>1, <2>2, <2>3
  <2> QED BY <2>1, <2>2, <2>4 DEF v
<1> QED BY <1>2, <1>3 DEF u

LEMMA JoinLine ==
  ASSUME NEW E, NEW s \in Seq(E), NEW x \in E
  PROVE  s \o <<x>> \in Seq(E) /\ Extended(s \o <<x>>, s, x)
<1> DEFINE t == <<x>>
           u == s \o t
<1>1. t \in Seq(E) /\ Len(t) = 1 /\ t[1] = x
  OBVIOUS
<1> HIDE DEF t
<1>2. u \in Seq(E) /\ Joined(u, s, t)
  BY <1>1, JoinIs
<1> HIDE DEF u
<1>3. Extended(u, s, x)
  BY <1>1, <1>2 DEF Joined, Extended
<1> QED BY <1>2, <1>3 DEF t, u

LEMMA EditLinesAre ==
  ASSUME NEW E, NEW old \in Seq(E), NEW new \in Seq(E)
  PROVE  /\ EditLines(old, new) \in Seq(E \cup {SearchMark, Separator, ReplaceMark})
         /\ EditLaidOut(EditLines(old, new), old, new, Len(old), Len(new))
<1> DEFINE F == E \cup {SearchMark, Separator, ReplaceMark}
           x == SearchMark
           y == Separator
           z == ReplaceMark
           a == <<x>>
           b == a \o old
           c == b \o <<y>>
           d == c \o new
           t == EditLines(old, new)
           o == Len(old)
           n == Len(new)
<1>0. o \in Nat /\ n \in Nat /\ old \in Seq(F) /\ new \in Seq(F)
  OBVIOUS
<1>1. t = d \o <<z>>
  BY DEF EditLines
<1>2. x \in F /\ y \in F /\ z \in F
  OBVIOUS
<1> HIDE DEF F, x, y, z, t
<1>3. a \in Seq(F) /\ Len(a) = 1 /\ a[1] = x
  BY <1>2
<1> HIDE DEF a
<1> HIDE DEF o, n
<1>4. b \in Seq(F) /\ Len(b) = o + 1 /\ b[1] = x /\ \A i \in 1..o : b[i + 1] = old[i]
  <2>1. b \in Seq(F) /\ Joined(b, a, old)
    BY <1>0, <1>3, JoinIs
  <2> HIDE DEF b
  <2>2. Len(old) = o
    BY DEF o
  <2> QED BY <1>0, <1>3, <2>1, <2>2 DEF Joined
<1> HIDE DEF b
<1>5. c \in Seq(F) /\ Len(c) = o + 2 /\ c[o + 2] = y /\ \A i \in 1..(o + 1) : c[i] = b[i]
  <2>1. c \in Seq(F) /\ Extended(c, b, y)
    BY <1>2, <1>4, JoinLine
  <2>2. Len(b) = o + 1 /\ (o + 1) + 1 = o + 2
    BY <1>0, <1>4
  <2> HIDE DEF c
  <2> QED BY <2>1, <2>2 DEF Extended
<1> HIDE DEF c
<1>6. d \in Seq(F) /\ Len(d) = o + n + 2 /\ (\A i \in 1..(o + 2) : d[i] = c[i]) /\ \A i \in 1..n : d[o + 2 + i] = new[i]
  <2>1. d \in Seq(F) /\ Joined(d, c, new)
    BY <1>0, <1>5, JoinIs
  <2>2. Len(c) = o + 2 /\ (o + 2) + n = o + n + 2 /\ Len(new) = n
    BY <1>0, <1>5 DEF n
  <2> HIDE DEF d
  <2> QED BY <2>1, <2>2 DEF Joined
<1> HIDE DEF d
<1>7. t \in Seq(F) /\ Len(t) = o + n + 3 /\ t[o + n + 3] = z /\ \A i \in 1..(o + n + 2) : t[i] = d[i]
  <2>1. t \in Seq(F) /\ Extended(t, d, z)
    BY <1>1, <1>2, <1>6, JoinLine
  <2>2. Len(d) = o + n + 2 /\ (o + n + 2) + 1 = o + n + 3
    BY <1>0, <1>6
  <2> QED BY <2>1, <2>2 DEF Extended
<1>8. t[1] = x /\ t[o + 2] = y /\ (\A i \in 1..o : t[i + 1] = old[i]) /\ \A i \in 1..n : t[o + 2 + i] = new[i]
  <2>1. 1 \in 1..(o + n + 2) /\ 1 \in 1..(o + 2) /\ 1 \in 1..(o + 1)
    BY <1>0
  <2>2. o + 2 \in 1..(o + n + 2) /\ o + 2 \in 1..(o + 2)
    BY <1>0
  <2>3. \A i \in 1..o : i + 1 \in 1..(o + n + 2) /\ i + 1 \in 1..(o + 2) /\ i + 1 \in 1..(o + 1)
    BY <1>0
  <2>4. \A i \in 1..n : o + 2 + i \in 1..(o + n + 2)
    BY <1>0
  <2>5. t[1] = x
    BY <1>4, <1>5, <1>6, <1>7, <2>1
  <2>6. t[o + 2] = y
    BY <1>5, <1>6, <1>7, <2>2
  <2>7. \A i \in 1..o : t[i + 1] = old[i]
    BY <1>4, <1>5, <1>6, <1>7, <2>3
  <2>8. \A i \in 1..n : t[o + 2 + i] = new[i]
    BY <1>6, <1>7, <2>4
  <2> QED BY <2>5, <2>6, <2>7, <2>8
<1>9. SubSeq(t, 2, o + 1) = old
  <2> DEFINE u == SubSeq(t, 2, o + 1)
  <2>1. o + 1 \in Nat /\ o + 1 <= Len(t) /\ 2 \in Nat \ {0}
    BY <1>0, <1>7
  <2>2. u \in Seq(F) /\ Len(u) = (IF 2 <= o + 1 THEN (o + 1) - 2 + 1 ELSE 0) /\ \A i \in 1..Len(u) : u[i] = t[2 + i - 1]
    BY <1>7, <2>1, PartIs
  <2> HIDE DEF u
  <2>3. Len(u) = o
    BY <1>0, <2>2
  <2>4. \A i \in 1..o : u[i] = t[i + 1]
    BY <1>0, <2>2, <2>3
  <2>5. \A i \in 1..o : u[i] = old[i]
    BY <1>8, <2>4
  <2> QED BY <1>0, <2>2, <2>3, <2>5 DEF u, o
<1>10. SubSeq(t, o + 3, o + n + 2) = new
  <2> DEFINE from == o + 3
             to == o + n + 2
             u == SubSeq(t, from, to)
  <2>1. to \in Nat /\ to <= Len(t) /\ from \in Nat \ {0}
    BY <1>0, <1>7
  <2> HIDE DEF from, to
  <2>2. /\ u \in Seq(F) /\ Len(u) = (IF from <= to THEN to - from + 1 ELSE 0)
        /\ \A i \in 1..Len(u) : u[i] = t[from + i - 1]
    BY <1>7, <2>1, PartIs
  <2> HIDE DEF u
  <2>3. Len(u) = n
    BY <1>0, <2>2 DEF from, to
  <2>4. \A i \in 1..n : u[i] = t[o + 2 + i]
    <3>1. \A i \in 1..n : from + i - 1 = o + 2 + i
      BY <1>0 DEF from
    <3> QED BY <2>2, <2>3, <3>1
  <2>5. \A i \in 1..n : u[i] = new[i]
    BY <1>8, <2>4
  <2>6. u = new
    BY <1>0, <2>2, <2>3, <2>5 DEF n
  <2> QED BY <2>6 DEF u, from, to
<1> QED BY <1>7, <1>8, <1>9, <1>10 DEF F, x, y, z, t, o, n, EditLaidOut

\* Which edits come back: exactly these.
LEMMA EditReturns ==
  ASSUME NEW E, NEW old \in Seq(E), NEW new \in Seq(E), old # <<>>, new # <<>>
  PROVE  LET same == /\ WithoutLead(old) = old /\ WithoutLead(new) = new
                     /\ (\A i \in 2..Len(old) : old[i] # Separator) /\ \A i \in 2..Len(new) : new[i] # ReplaceMark
         IN  /\ same => ParseEdit(EditLines(old, new)) = {<<old, new>>}
             /\ \A e \in ParseEdit(EditLines(old, new)) : Len(e[1]) = Len(old) /\ Len(e[2]) = Len(new) => same /\ e = <<old, new>>
<1> DEFINE t == EditLines(old, new)
           o == Len(old)
           n == Len(new)
           F == E \cup {SearchMark, Separator, ReplaceMark}
<1>1. o \in Nat \ {0} /\ n \in Nat \ {0}
  BY EmptySeq
<1>2. /\ t \in Seq(F) /\ Len(t) = o + n + 3
      /\ t[1] = SearchMark /\ t[o + 2] = Separator /\ t[o + n + 3] = ReplaceMark
      /\ \A i \in 1..o : t[i + 1] = old[i]
      /\ \A i \in 1..n : t[o + 2 + i] = new[i]
      /\ SubSeq(t, 2, o + 1) = old /\ SubSeq(t, o + 3, o + n + 2) = new
  <2>1. t \in Seq(F) /\ EditLaidOut(t, old, new, o, n)
    BY EditLinesAre
  <2> HIDE DEF t, o, n, F
  <2> QED BY <2>1 DEF EditLaidOut
<1> HIDE DEF t, o, n, F
<1>3. EditAt(t, 1, o + 2, o + n + 3)
  BY <1>1, <1>2 DEF EditAt
<1>4. 1 \in 1..Len(t) /\ o + 2 \in 1..Len(t) /\ o + n + 3 \in 1..Len(t)
  BY <1>1, <1>2
<1>5. PICK s \in 1..Len(t), p \in 1..Len(t), r \in 1..Len(t) :
        EditFirst(t, s, p, r) /\ ParseEdit(t) = {EditResult(t, s, p, r)}
  BY <1>2, <1>3, <1>4, EditIs
<1>6. s = 1 /\ p <= o + 2 /\ p > 2 /\ (p = o + 2 => r <= o + n + 3) /\ r > p + 1 /\ t[p] = Separator /\ t[r] = ReplaceMark
  <2>1. EditAt(t, s, p, r)
    BY <1>5 DEF EditFirst
  <2>2. s <= 1 /\ (1 = s => p <= o + 2) /\ (1 = s /\ o + 2 = p => r <= o + n + 3)
    BY <1>3, <1>4, <1>5 DEF EditFirst
  <2> QED BY <1>1, <1>2, <2>1, <2>2 DEF EditAt
<1>7. ASSUME p = o + 2, r = o + n + 3 PROVE EditResult(t, s, p, r) = <<WithoutLead(old), WithoutLead(new)>>
  <2>1. s + 1 = 2 /\ p - 1 = o + 1 /\ p + 1 = o + 3 /\ r - 1 = o + n + 2
    BY <1>1, <1>6, <1>7
  <2> QED BY <1>2, <2>1 DEF EditResult
<1> DEFINE same == /\ WithoutLead(old) = old /\ WithoutLead(new) = new
                   /\ (\A i \in 2..o : old[i] # Separator) /\ \A i \in 2..n : new[i] # ReplaceMark
<1>8. ASSUME same PROVE ParseEdit(t) = {<<old, new>>}
  <2>1. p = o + 2
    <3> SUFFICES ASSUME p < o + 2 PROVE FALSE
      BY <1>1, <1>2, <1>6
    <3>1. p - 1 \in 2..o /\ p - 1 \in 1..o /\ (p - 1) + 1 = p
      BY <1>1, <1>2, <1>6
    <3> QED BY <1>2, <1>6, <1>8, <3>1
  <2>2. r = o + n + 3
    <3> SUFFICES ASSUME r < o + n + 3 PROVE FALSE
      BY <1>1, <1>2, <1>6, <2>1
    <3>1. r - (o + 2) \in 2..n /\ r - (o + 2) \in 1..n /\ o + 2 + (r - (o + 2)) = r
      BY <1>1, <1>2, <1>6, <2>1
    <3> QED BY <1>2, <1>6, <1>8, <3>1
  <2> QED BY <1>5, <1>7, <1>8, <2>1, <2>2
<1>9. ASSUME NEW e \in ParseEdit(t), Len(e[1]) = o, Len(e[2]) = n PROVE same /\ e = <<old, new>>
  <2> DEFINE u == SubSeq(t, s + 1, p - 1)
             v == SubSeq(t, p + 1, r - 1)
  <2>1. e[1] = WithoutLead(u) /\ e[2] = WithoutLead(v) /\ e = EditResult(t, s, p, r)
    BY <1>5 DEF EditResult
  <2>2. u \in Seq(F) /\ Len(u) = p - 2
    <3>1. s + 1 \in Nat \ {0} /\ p - 1 \in Nat /\ p - 1 <= Len(t) /\ s + 1 <= p - 1
      BY <1>1, <1>2, <1>6
    <3>2. u \in Seq(F) /\ Len(u) = (p - 1) - (s + 1) + 1
      BY <1>2, <3>1, PartIs
    <3> HIDE DEF u
    <3> QED BY <1>6, <3>1, <3>2
  <2>3. v \in Seq(F) /\ Len(v) = r - p - 1
    <3>1. p + 1 \in Nat \ {0} /\ r - 1 \in Nat /\ r - 1 <= Len(t) /\ p + 1 <= r - 1
      BY <1>1, <1>2, <1>6
    <3>2. v \in Seq(F) /\ Len(v) = (r - 1) - (p + 1) + 1
      BY <1>2, <3>1, PartIs
    <3> HIDE DEF v
    <3> QED BY <1>6, <3>1, <3>2
  <2> HIDE DEF u, v
  <2>4. u # <<>> /\ v # <<>>
    BY <1>1, <1>2, <1>6, <2>2, <2>3
  <2>5. Len(WithoutLead(u)) \in 1..Len(u) /\ Len(WithoutLead(v)) \in 1..Len(v)
    BY <2>2, <2>3, <2>4, WithoutLeadIs
  <2>6. p = o + 2
    BY <1>1, <1>2, <1>6, <1>9, <2>1, <2>2, <2>5
  <2>7. r = o + n + 3
    BY <1>1, <1>2, <1>6, <1>9, <2>1, <2>3, <2>5, <2>6
  <2>8. e = <<WithoutLead(old), WithoutLead(new)>>
    BY <1>7, <2>1, <2>6, <2>7
  <2>9. WithoutLead(old) = old /\ WithoutLead(new) = new
    <3>1. Len(WithoutLead(old)) = Len(old) /\ Len(WithoutLead(new)) = Len(new)
      BY <1>9, <2>8 DEF o, n
    <3> QED BY <3>1, WithoutLeadIs
  <2>10. \A i \in 2..o : old[i] # Separator
    <3> SUFFICES ASSUME NEW i \in 2..o, old[i] = Separator PROVE FALSE
      OBVIOUS
    <3>1. i \in 1..o /\ i + 1 \in 1..Len(t) /\ 1 + 1 < i + 1 /\ (i + 1) + 1 < o + n + 3
      BY <1>1, <1>2
    <3>2. EditAt(t, 1, i + 1, o + n + 3)
      BY <1>2, <3>1 DEF EditAt
    <3>3. p <= i + 1
      BY <1>4, <1>5, <1>6, <3>1, <3>2 DEF EditFirst
    <3> QED BY <1>1, <2>6, <3>3
  <2>11. \A i \in 2..n : new[i] # ReplaceMark
    <3> SUFFICES ASSUME NEW i \in 2..n, new[i] = ReplaceMark PROVE FALSE
      OBVIOUS
    <3>1. i \in 1..n /\ o + 2 + i \in 1..Len(t) /\ 1 + 1 < o + 2 /\ (o + 2) + 1 < o + 2 + i
      BY <1>1, <1>2
    <3>2. EditAt(t, 1, o + 2, o + 2 + i)
      BY <1>2, <3>1 DEF EditAt
    <3>3. r <= o + 2 + i
      BY <1>4, <1>5, <1>6, <2>6, <3>1, <3>2 DEF EditFirst
    <3> QED BY <1>1, <2>7, <3>3
  <2> QED BY <2>8, <2>9, <2>10, <2>11
<1> QED BY <1>8, <1>9 DEF same, t, o, n

-----------------------------------------------------------------------------
(* Values and header lines. *)

\* What is known of the lines of a value.
Valued(v, args, p) ==
  /\ v \in Seq(Range(v)) /\ v # <<>> /\ Len(v) \in Nat \ {0}
  /\ p \notin DOMAIN args => v = EmptyText
  /\ p \in DOMAIN args =>
       /\ v = ScalarToString(args[p]) /\ Len(v) = Len(args[p]) /\ args[p] \in Seq(Range(args[p]))
       /\ \A i \in 1..Len(v) : v[i] = args[p][i] \/ (Kind(v[i]) = "text" /\ Kind(args[p][i]) = "numeral")

LEMMA ValueIs ==
  ASSUME NEW args, AreArguments(args), NEW p
  PROVE  Valued(Value(args, p), args, p)
<1> DEFINE v == Value(args, p)
<1>1. IsText(v) /\ v # <<>>
  BY ValueIsText
<1>2. p \notin DOMAIN args => v = EmptyText
  BY DEF Value
<1>3. ASSUME p \in DOMAIN args
      PROVE  /\ v = ScalarToString(args[p]) /\ Len(v) = Len(args[p]) /\ args[p] \in Seq(Range(args[p]))
             /\ \A i \in 1..Len(v) : v[i] = args[p][i] \/ (Kind(v[i]) = "text" /\ Kind(args[p][i]) = "numeral")
  <2> DEFINE a == args[p]
  <2>1. a \in Seq(Range(a))
    BY <1>3 DEF AreArguments, IsText
  <2>2. v = ScalarToString(a)
    BY <1>3 DEF Value
  <2> HIDE DEF a, v
  <2>3. DOMAIN a = 1..Len(a) /\ Len(a) \in Nat
    BY <2>1
  <2>4. v = [i \in 1..Len(a) |-> IF Kind(a[i]) = "numeral" THEN Plain(a[i][2]) ELSE a[i]]
    BY <2>2, <2>3 DEF ScalarToString
  <2>5. Len(v) = Len(a) /\ \A i \in 1..Len(v) : v[i] = IF Kind(a[i]) = "numeral" THEN Plain(a[i][2]) ELSE a[i]
    BY <1>1, <2>3, <2>4 DEF IsText
  <2>6. \A x : Kind(Plain(x)) = "text"
    BY DEF Kind, Plain
  <2>7. \A i \in 1..Len(v) : v[i] = a[i] \/ (Kind(v[i]) = "text" /\ Kind(a[i]) = "numeral")
    BY <2>5, <2>6
  <2> QED BY <2>1, <2>2, <2>5, <2>7 DEF a
<1> HIDE DEF v
<1>4. v \in Seq(Range(v)) /\ Len(v) \in Nat \ {0}
  BY <1>1, EmptySeq DEF IsText
<1> QED BY <1>1, <1>2, <1>3, <1>4 DEF Valued, v

\* Flattening singletons gives their elements.
LEMMA GatheredSingles ==
  ASSUME NEW E, NEW F \in [E -> Seq(E)], \A e \in E : F[e] = <<e>>
  PROVE  \A n \in Nat : \A s \in Seq(E) : Len(s) = n => Gathered(s, F) = s
<1>1. ASSUME NEW s \in Seq(E) PROVE Gathered(s, F) \in Seq(E) /\ (s = <<>> => Gathered(s, F) = <<>>)
  BY GatheredType
<1>2. ASSUME NEW s \in Seq(E), NEW e \in E PROVE Gathered(Append(s, e), F) = Gathered(s, F) \o F[e]
  BY GatheredAppend
<1> DEFINE T == {n \in Nat : \A s \in Seq(E) : Len(s) = n => Gathered(s, F) = s}
<1>3. 0 \in T
  <2> SUFFICES ASSUME NEW s \in Seq(E), Len(s) = 0 PROVE Gathered(s, F) = s
    OBVIOUS
  <2>1. s = <<>>
    BY EmptySeq
  <2> QED BY <1>1, <2>1
<1>4. ASSUME NEW n \in Nat, n \in T PROVE n + 1 \in T
  <2> SUFFICES ASSUME NEW s \in Seq(E), Len(s) = n + 1 PROVE Gathered(s, F) = s
    OBVIOUS
  <2>1. s # <<>>
    BY EmptySeq
  <2>2. PICK f \in Seq(E), e \in E : s = Append(f, e)
    BY <2>1, SequenceEmptyOrAppend
  <2>3. Len(f) = n
    <3>1. Len(Append(f, e)) = Len(f) + 1 /\ Len(f) \in Nat
      BY AppendProperties
    <3> QED BY <2>2, <3>1
  <2>4. Gathered(f, F) = f
    BY <1>4, <2>3
  <2>5. Gathered(Append(f, e), F) = Gathered(f, F) \o F[e]
    BY <1>2
  <2>6. f \o <<e>> = Append(f, e)
    BY AppendIsConcat
  <2> QED BY <2>2, <2>4, <2>5, <2>6
<1>5. \A n \in Nat : n \in T
  <2> HIDE DEF T
  <2> QED BY <1>3, <1>4, Induction
<1> QED BY <1>5

LEMMA FlattenSingles ==
  ASSUME NEW E, NEW x \in Seq(E)
  PROVE  FlattenSeq([i \in DOMAIN x |-> <<x[i]>>]) = x
<1> DEFINE F == [e \in E |-> <<e>>]
<1>1. F \in [E -> Seq(E)] /\ \A e \in E : F[e] = <<e>>
  OBVIOUS
<1> HIDE DEF F
<1>2. Gathered(x, F) = FlattenSeq([i \in DOMAIN x |-> <<x[i]>>])
  <2>1. \A i \in DOMAIN x : F[x[i]] = <<x[i]>>
    BY <1>1, ElementOfSeq
  <2>2. [i \in DOMAIN x |-> F[x[i]]] = [i \in DOMAIN x |-> <<x[i]>>]
    BY <2>1
  <2> QED BY <2>2 DEF Gathered
<1>3. \A n \in Nat : \A s \in Seq(E) : Len(s) = n => Gathered(s, F) = s
  BY <1>1, GatheredSingles
<1>4. Len(x) \in Nat
  OBVIOUS
<1> QED BY <1>2, <1>3, <1>4

\* The headers that are given, and their lines when each value is one line.
Heads(spec, args) == Only(spec.headers, DOMAIN args)
HeadPair(args, p) == Pair(p, Head(Value(args, p)))
HeadPairs(spec, args) == [i \in DOMAIN Heads(spec, args) |-> HeadPair(args, Heads(spec, args)[i])]
ToldHeads(spec, args) == [p \in Range(spec.headers) \cap DOMAIN args |-> <<Head(Value(args, p))>>]
ShortHeaders(spec, args) == \A p \in Range(spec.headers) \cap DOMAIN args : Len(args[p]) = 1

LEMMA HeadsAre ==
  ASSUME NEW spec, FenceShape(spec), NEW args
  PROVE  LET g == Heads(spec, args)
         IN  /\ g \in Seq(Range(g)) /\ Len(g) \in Nat /\ DOMAIN g = 1..Len(g) /\ IsInjective(g)
             /\ Range(g) = Range(spec.headers) \cap DOMAIN args
             /\ spec.headers = <<>> => g = <<>>
<1> DEFINE g == Heads(spec, args)
<1>1. spec.headers \in Seq(Range(spec.headers)) /\ IsInjective(spec.headers)
  BY DEF FenceShape
<1>2. /\ g \in Seq(Range(spec.headers)) /\ Len(g) <= Len(spec.headers)
      /\ Range(g) = Range(spec.headers) \cap DOMAIN args /\ IsInjective(g)
  BY <1>1, OnlySound DEF Heads
<1> HIDE DEF g
<1>3. g \in Seq(Range(g)) /\ Len(g) \in Nat /\ DOMAIN g = 1..Len(g)
  BY <1>2 DEF Range
<1>4. spec.headers = <<>> => g = <<>>
  BY <1>2, <1>3
<1> QED BY <1>2, <1>3, <1>4 DEF g

LEMMA HeaderLinesAre ==
  ASSUME NEW spec, FenceShape(spec), NEW args, AreArguments(args), ShortHeaders(spec, args)
  PROVE  HeaderLines(spec, args) = HeadPairs(spec, args)
<1> DEFINE g == Heads(spec, args)
           x == HeadPairs(spec, args)
           Header(i) == <<Pair(g[i], Head(Value(args, g[i])))>> \o Tail(Value(args, g[i]))
           E == Range(x)
<1>1. /\ g \in Seq(Range(g)) /\ Len(g) \in Nat /\ DOMAIN g = 1..Len(g)
      /\ Range(g) = Range(spec.headers) \cap DOMAIN args
  BY HeadsAre
<1>2. HeaderLines(spec, args) = FlattenSeq([i \in DOMAIN g |-> Header(i)])
  BY DEF HeaderLines, Heads
<1>3. x = [i \in DOMAIN g |-> HeadPair(args, g[i])]
  BY DEF HeadPairs
<1> HIDE DEF g, x
<1>4. x \in Seq(E) /\ DOMAIN x = DOMAIN g
  BY <1>1, <1>3 DEF Range
<1>5. ASSUME NEW i \in DOMAIN g PROVE Header(i) = <<x[i]>>
  <2> DEFINE v == Value(args, g[i])
  <2>1. g[i] \in Range(spec.headers) \cap DOMAIN args
    BY <1>1 DEF Range
  <2>2. Valued(v, args, g[i])
    BY ValueIs
  <2>3. Len(args[g[i]]) = 1
    BY <2>1 DEF ShortHeaders
  <2> HIDE DEF v
  <2>4. v \in Seq(Range(v)) /\ Len(v) = 1
    BY <2>1, <2>2, <2>3 DEF Valued
  <2>5. Tail(v) = <<>>
    <3>1. v # <<>>
      BY <2>2 DEF Valued
    <3>2. Tail(v) \in Seq(Range(v)) /\ Len(Tail(v)) = 0
      BY <2>4, <3>1, HeadTailProperties
    <3> QED BY <3>2, EmptySeq
  <2>6. \A y : <<y>> \o <<>> = <<y>>
    OBVIOUS
  <2> QED BY <1>3, <2>5, <2>6 DEF v, HeadPair
<1>6. [i \in DOMAIN g |-> Header(i)] = [i \in DOMAIN x |-> <<x[i]>>]
  <2> HIDE DEF Header
  <2> QED BY <1>4, <1>5
<1> HIDE DEF E, Header
<1>7. FlattenSeq([i \in DOMAIN x |-> <<x[i]>>]) = x
  BY <1>4, FlattenSingles
<1> QED BY <1>2, <1>6, <1>7 DEF x

\* What a fence means whose header lines are followed by lines without a header in front.
SansBlank(spec, R) == OrEmpty(IF spec.headers # <<>> /\ R # <<>> /\ R[1] = Blank THEN Tail(R) ELSE R)

LEMMA HeadPairsAre ==
  ASSUME NEW spec, FenceShape(spec), NEW args
  PROVE  LET g == Heads(spec, args)
             H == HeadPairs(spec, args)
         IN  /\ H \in Seq(Range(H)) /\ Len(H) = Len(g) /\ DOMAIN H = 1..Len(g)
             /\ \A i \in 1..Len(g) : /\ IsHeaderOf(spec, H[i]) /\ H[i][2] = g[i] /\ H[i][3] = Head(Value(args, g[i]))
                                     /\ H[i] = HeadPair(args, g[i])
<1> DEFINE g == Heads(spec, args)
           H == HeadPairs(spec, args)
<1>1. g \in Seq(Range(g)) /\ Len(g) \in Nat /\ DOMAIN g = 1..Len(g) /\ Range(g) = Range(spec.headers) \cap DOMAIN args
  BY HeadsAre
<1>2. H = [i \in DOMAIN g |-> HeadPair(args, g[i])]
  BY DEF HeadPairs
<1> HIDE DEF g, H
<1>3. H \in Seq(Range(H)) /\ Len(H) = Len(g) /\ DOMAIN H = 1..Len(g) /\ \A i \in 1..Len(g) : H[i] = HeadPair(args, g[i])
  BY <1>1, <1>2 DEF Range
<1>4. ASSUME NEW i \in 1..Len(g)
      PROVE  IsHeaderOf(spec, H[i]) /\ H[i][2] = g[i] /\ H[i][3] = Head(Value(args, g[i]))
  <2>1. H[i] = Pair(g[i], Head(Value(args, g[i])))
    BY <1>3 DEF HeadPair
  <2>2. g[i] \in Range(spec.headers)
    BY <1>1 DEF Range
  <2>3. Kind(H[i]) = "pair" /\ H[i][2] = g[i] /\ H[i][3] = Head(Value(args, g[i]))
    BY <2>1 DEF Kind, Pair
  <2> QED BY <2>2, <2>3 DEF IsHeaderOf, Range
<1> QED BY <1>3, <1>4 DEF g, H

\* A part that begins a line later.
LEMMA TailOfPart ==
  ASSUME NEW E, NEW s \in Seq(E), NEW k \in Nat \ {0}, k <= Len(s)
  PROVE  SubSeq(s, k + 1, Len(s)) = Tail(SubSeq(s, k, Len(s)))
<1> DEFINE n == Len(s)
           m == k + 1
           u == SubSeq(s, k, n)
           v == SubSeq(s, m, n)
<1>1. n \in Nat /\ n <= Len(s) /\ m \in Nat \ {0} /\ m = k + 1 /\ k <= n
  OBVIOUS
<1> HIDE DEF n, m
<1>2. u \in Seq(E) /\ Len(u) = (n - k) + 1 /\ \A i \in 1..Len(u) : u[i] = s[k + i - 1]
  BY <1>1, PartIs
<1>3. v \in Seq(E) /\ Len(v) = (IF m <= n THEN n - m + 1 ELSE 0) /\ \A i \in 1..Len(v) : v[i] = s[m + i - 1]
  BY <1>1, PartIs
<1> HIDE DEF u, v
<1>4. u # <<>> /\ Len(v) = n - k
  BY <1>1, <1>2, <1>3, EmptySeq
<1>5. Tail(u) \in Seq(E) /\ Len(Tail(u)) = Len(u) - 1 /\ \A i \in 1..Len(Tail(u)) : Tail(u)[i] = u[i + 1]
  BY <1>2, <1>4, HeadTailProperties
<1>6. Len(Tail(u)) = Len(v)
  BY <1>1, <1>2, <1>4, <1>5
<1>7. ASSUME NEW i \in 1..Len(v) PROVE v[i] = Tail(u)[i]
  <2>1. i \in Nat /\ m + i - 1 = k + (i + 1) - 1 /\ i + 1 \in 1..Len(u) /\ i \in 1..Len(Tail(u))
    BY <1>1, <1>2, <1>4, <1>6
  <2> QED BY <1>2, <1>3, <1>5, <2>1
<1>8. v = Tail(u)
  BY <1>3, <1>5, <1>6, <1>7, SeqEqual
<1> QED BY <1>8 DEF u, v, m, n

LEMMA HeadParsed ==
  ASSUME NEW spec, FenceShape(spec), NEW args, NEW R, R \in Seq(Range(R)),
         R # <<>> => ~IsHeaderOf(spec, R[1]), NEW inner, inner = HeadPairs(spec, args) \o R
  PROVE  ParseFencedInner(spec, inner) = MeaningOf(spec, ToldHeads(spec, args), SansBlank(spec, R))
<1> DEFINE g == Heads(spec, args)
           H == HeadPairs(spec, args)
           k == Len(g)
           E == Range(H) \cup Range(R)
<1>1. /\ g \in Seq(Range(g)) /\ k \in Nat /\ DOMAIN g = 1..k /\ IsInjective(g)
      /\ Range(g) = Range(spec.headers) \cap DOMAIN args
      /\ spec.headers = <<>> => g = <<>>
  BY HeadsAre
<1>2. /\ H \in Seq(Range(H)) /\ Len(H) = k /\ DOMAIN H = 1..k
      /\ \A i \in 1..k : IsHeaderOf(spec, H[i]) /\ H[i][2] = g[i] /\ H[i][3] = Head(Value(args, g[i]))
  BY HeadPairsAre
<1>3. H \in Seq(E) /\ R \in Seq(E)
  <2>1. Range(H) \subseteq E /\ Range(R) \subseteq E
    OBVIOUS
  <2> HIDE DEF E, H
  <2> QED BY <1>2, <2>1
<1> HIDE DEF H, E, g
<1>4. inner \in Seq(E) /\ Joined(inner, H, R)
  BY <1>3, JoinIs DEF H
<1>5. /\ Len(inner) = k + Len(R) /\ Len(R) \in Nat
      /\ \A i \in 1..k : inner[i] = H[i]
      /\ \A i \in 1..Len(R) : inner[k + i] = R[i]
  BY <1>2, <1>3, <1>4 DEF Joined
<1>6. R # <<>> <=> Len(R) > 0
  BY <1>3, EmptySeq
<1> HIDE DEF k
<1>7. StopOf(spec, inner) = k + 1
  <2>1. CASE spec.headers = <<>>
    <3>1. k = 0
      BY <1>1, <2>1, EmptySeq DEF k
    <3> QED BY <2>1, <3>1 DEF StopOf
  <2>2. CASE spec.headers # <<>>
    <3>1. k \in 0..Len(inner)
      BY <1>1, <1>5
    <3>2. \A i \in 1..k : IsHeaderOf(spec, inner[i])
      BY <1>2, <1>5
    <3>3. k < Len(inner) => ~IsHeaderOf(spec, inner[k + 1])
      BY <1>1, <1>5, <1>6
    <3> QED BY <1>4, <2>2, <3>1, <3>2, <3>3, StopAt
  <2> QED BY <2>1, <2>2
<1>8. GivenTo(inner, k + 1) = ToldHeads(spec, args)
  <2>1. (k + 1) - 1 = k
    BY <1>1
  <2>2. KeysTo(inner, k + 1) = Range(g)
    <3>1. KeysTo(inner, k + 1) = {inner[i][2] : i \in 1..k}
      BY <2>1 DEF KeysTo
    <3>2. \A i \in 1..k : inner[i][2] = g[i]
      BY <1>2, <1>5
    <3>3. Range(g) = {g[i] : i \in 1..k}
      BY <1>1 DEF Range
    <3>4. ASSUME NEW x PROVE x \in KeysTo(inner, k + 1) <=> x \in Range(g)
      <4>1. x \in KeysTo(inner, k + 1) <=> \E i \in 1..k : x = inner[i][2]
        BY <3>1
      <4>2. x \in Range(g) <=> \E i \in 1..k : x = g[i]
        BY <3>3
      <4> QED BY <3>2, <4>1, <4>2
    <3> QED BY <3>4
  <2>3. ASSUME NEW p \in Range(g) PROVE inner[LastTo(inner, k + 1, p)][3] = Head(Value(args, p))
    <3> DEFINE IsLast(i) == inner[i][2] = p /\ \A j \in i + 1..k : inner[j][2] # p
               l == LastTo(inner, k + 1, p)
    <3>1. PICK i \in 1..k : g[i] = p
      BY <1>1 DEF Range
    <3>2. \A j \in 1..k : g[j] = p => j = i
      BY <1>1, <3>1 DEF IsInjective
    <3>3. IsLast(i)
      <4>1. inner[i][2] = p
        BY <1>2, <1>5, <3>1
      <4>2. \A j \in i + 1..k : j \in 1..k /\ j # i
        BY <1>1
      <4>3. ASSUME NEW j \in i + 1..k PROVE inner[j][2] # p
        <5>1. j \in 1..k /\ j # i
          BY <4>2
        <5>2. inner[j] = H[j]
          BY <1>5, <5>1
        <5>3. H[j][2] = g[j]
          BY <1>2, <5>1
        <5> QED BY <3>2, <5>1, <5>2, <5>3
      <4> QED BY <4>1, <4>3
    <3>4. l = CHOOSE j \in 1..k : IsLast(j)
      BY <2>1 DEF LastTo
    <3> HIDE DEF IsLast, l
    <3>5. l \in 1..k /\ IsLast(l)
      BY <3>3, <3>4
    <3>6. inner[l][2] = p /\ inner[l] = H[l] /\ H[l][2] = g[l] /\ H[l][3] = Head(Value(args, g[l]))
      BY <1>2, <1>5, <3>5 DEF IsLast
    <3> QED BY <3>6 DEF l
  <2>4. GivenTo(inner, k + 1) = [p \in Range(g) |-> <<inner[LastTo(inner, k + 1, p)][3]>>]
    BY <2>2 DEF GivenTo
  <2>5. ToldHeads(spec, args) = [p \in Range(g) |-> <<Head(Value(args, p))>>]
    BY <1>1 DEF ToldHeads
  <2> QED BY <2>3, <2>4, <2>5
<1>9. AfterHead(spec, inner, k + 1) = SansBlank(spec, R)
  <2>1. BlankAt(spec, inner, k + 1) <=> spec.headers # <<>> /\ R # <<>> /\ R[1] = Blank
    BY <1>1, <1>5, <1>6 DEF BlankAt
  <2>2. SubSeq(inner, k + 1, Len(inner)) = R
    BY <1>2, <1>3, <1>5, JoinParts DEF H
  <2>3. ASSUME R # <<>> PROVE SubSeq(inner, (k + 1) + 1, Len(inner)) = Tail(R)
    <3>1. k + 1 \in Nat \ {0} /\ k + 1 <= Len(inner) /\ inner \in Seq(E)
      BY <1>1, <1>4, <1>5, <1>6, <2>3
    <3> QED BY <2>2, <3>1, TailOfPart
  <2> QED BY <2>1, <2>2, <2>3 DEF AfterHead, From, SansBlank
<1> QED BY <1>7, <1>8, <1>9, InnerIs

-----------------------------------------------------------------------------
(* What comes back of what is in a fence. *)

\* Specifications with a body, and with neither a body nor an edit.
HasBody(spec) == spec.edit = <<>> /\ spec.body # ""
HasNeither(spec) == spec.edit = <<>> /\ spec.body = ""

\* The names a specification has a place for.
PlacesOf(spec) == Range(spec.headers) \cup ({spec.body} \ {""}) \cup Range(spec.edit)

\* What a fence has inside: header lines and what is behind them.
BehindHead(spec, args) ==
  IF spec.edit # <<>> THEN EditLines(Value(args, spec.edit[1]), Value(args, spec.edit[2]))
  ELSE IF spec.body = "" THEN <<>>
  ELSE (IF HeaderLines(spec, args) = <<>> THEN <<>> ELSE <<Blank>>) \o Value(args, spec.body)
FilledLines(spec, args) == OrEmpty(HeaderLines(spec, args) \o BehindHead(spec, args))

\* A body that is read as a header, or for the blank line behind the headers.
Mistaken(spec, args) ==
  /\ spec.headers # <<>> /\ \A i \in DOMAIN spec.headers : spec.headers[i] \notin DOMAIN args
  /\ \/ Head(Value(args, spec.body)) = Blank /\ Len(Value(args, spec.body)) > 1
     \/ IsHeaderOf(spec, Head(Value(args, spec.body)))

\* When the two texts of an edit are found between its marks.
EditSurvives(spec, args) ==
  /\ spec.edit[1] \in DOMAIN args /\ spec.edit[2] \in DOMAIN args
  /\ WithoutLead(args[spec.edit[1]]) = args[spec.edit[1]] /\ WithoutLead(args[spec.edit[2]]) = args[spec.edit[2]]
  /\ \A i \in 2..Len(Value(args, spec.edit[1])) : Value(args, spec.edit[1])[i] # Separator
  /\ \A i \in 2..Len(Value(args, spec.edit[2])) : Value(args, spec.edit[2])[i] # ReplaceMark

\* When what is in a fence means the arguments it was rendered from.
Unchanged(args) == \A p \in DOMAIN args : ScalarToString(args[p]) = args[p]
Returns(spec, args) ==
  /\ Unchanged(args)
  /\ spec.edit = <<>> /\ spec.body # "" => spec.body \in DOMAIN args /\ ~Mistaken(spec, args)
  /\ spec.edit # <<>> => EditSurvives(spec, args)

LEMMA SingletonSeq == \A x : <<x>> \in Seq({x})
OBVIOUS

LEMMA EmptyDomain == DOMAIN <<>> = {}
OBVIOUS

LEMMA EmptyRange == Range(<<>>) = {}
BY DEF Range

LEMMA ToldAre ==
  ASSUME NEW spec, FenceShape(spec), NEW args, AreArguments(args), ShortHeaders(spec, args)
  PROVE  ToldHeads(spec, args) = [p \in Range(spec.headers) \cap DOMAIN args |-> Value(args, p)]
<1>1. ASSUME NEW p \in Range(spec.headers) \cap DOMAIN args PROVE <<Head(Value(args, p))>> = Value(args, p)
  <2> DEFINE v == Value(args, p)
  <2>1. Valued(v, args, p)
    BY ValueIs
  <2>2. Len(args[p]) = 1
    BY DEF ShortHeaders
  <2> HIDE DEF v
  <2>3. v \in Seq(Range(v)) /\ v # <<>> /\ Len(v) = 1
    BY <2>1, <2>2 DEF Valued
  <2>4. <<Head(v)>> = v
    BY <2>3
  <2> QED BY <2>4 DEF v
<1> QED BY <1>1 DEF ToldHeads

\* Arguments are their values when no value is a number.
LEMMA UnchangedIs ==
  ASSUME NEW args, AreArguments(args)
  PROVE  /\ args = [p \in DOMAIN args |-> args[p]]
         /\ Unchanged(args) <=> \A p \in DOMAIN args : Value(args, p) = args[p]
<1>1. args = [p \in DOMAIN args |-> args[p]]
  BY DEF AreArguments, IsArgs
<1> QED BY <1>1 DEF Unchanged, Value

\* Without a body or an edit, the header lines are all there is.
LEMMA NoneParsed ==
  ASSUME NEW spec, FenceShape(spec), NEW args, AreArguments(args), ShortHeaders(spec, args),
         HasNeither(spec)
  PROVE  ParseFencedInner(spec, FilledLines(spec, args)) = {ToldHeads(spec, args)}
<1> DEFINE H == HeadPairs(spec, args)
           R == IF H = <<>> THEN EmptyText ELSE <<>>
<1>1. FilledLines(spec, args) = OrEmpty(H \o <<>>)
  BY HeaderLinesAre DEF FilledLines, BehindHead, HasNeither
<1>2. H \in Seq(Range(H))
  BY HeadPairsAre
<1> HIDE DEF H
<1>3. H \o <<>> = H /\ <<>> \o EmptyText = EmptyText
  <2>1. EmptyText \in Seq({Blank})
    BY SingletonSeq DEF EmptyText
  <2> QED BY <1>2, <2>1, ConcatEmptySeq
<1>4. FilledLines(spec, args) = H \o R
  BY <1>1, <1>3 DEF OrEmpty
<1>5. R \in Seq(Range(R))
  <2>1. R \in Seq({Blank})
    BY SingletonSeq, EmptySeq DEF EmptyText
  <2> HIDE DEF R
  <2> QED BY <2>1, SeqOfRange
<1>6. R # <<>> => ~IsHeaderOf(spec, R[1])
  BY DEF EmptyText, IsHeaderOf, Kind, Blank
<1> HIDE DEF R
<1>7. ParseFencedInner(spec, FilledLines(spec, args)) = MeaningOf(spec, ToldHeads(spec, args), SansBlank(spec, R))
  BY <1>4, <1>5, <1>6, HeadParsed DEF H
<1> QED BY <1>7 DEF MeaningOf, HasNeither

LEMMA NoneReturns ==
  ASSUME NEW spec, FenceShape(spec), NEW args, AreArguments(args), ShortHeaders(spec, args),
         DOMAIN args \subseteq PlacesOf(spec), HasNeither(spec)
  PROVE  /\ ParseFencedInner(spec, FilledLines(spec, args)) = {ToldHeads(spec, args)}
         /\ ToldHeads(spec, args) = args <=> Returns(spec, args)
<1>1. DOMAIN args \subseteq Range(spec.headers)
  <2>1. Range(spec.edit) = {}
    <3>1. \A e : e = <<>> => Range(e) = {}
      BY EmptyRange
    <3> QED BY <3>1 DEF HasNeither
  <2> QED BY <2>1 DEF PlacesOf, HasNeither
<1>2. ToldHeads(spec, args) = [p \in DOMAIN args |-> Value(args, p)]
  <2>1. Range(spec.headers) \cap DOMAIN args = DOMAIN args
    BY <1>1
  <2>2. ToldHeads(spec, args) = [p \in Range(spec.headers) \cap DOMAIN args |-> Value(args, p)]
    BY ToldAre
  <2> QED BY <2>1, <2>2
<1>3. ToldHeads(spec, args) = args <=> Unchanged(args)
  <2> DEFINE told == ToldHeads(spec, args)
  <2>1. told = args <=> \A p \in DOMAIN args : Value(args, p) = args[p]
    <3>1. DOMAIN told = DOMAIN args /\ \A p \in DOMAIN args : told[p] = Value(args, p)
      BY <1>2
    <3>2. told = [p \in DOMAIN args |-> Value(args, p)] /\ args = [p \in DOMAIN args |-> args[p]]
      BY <1>2, UnchangedIs
    <3> HIDE DEF told
    <3>3. (\A p \in DOMAIN args : Value(args, p) = args[p])
            => [p \in DOMAIN args |-> Value(args, p)] = [p \in DOMAIN args |-> args[p]]
      OBVIOUS
    <3> QED BY <3>1, <3>2, <3>3
  <2> QED BY <2>1, UnchangedIs
<1> QED BY <1>3, NoneParsed DEF Returns, HasNeither

LEMMA SeqWider == ASSUME NEW S, NEW T, S \subseteq T, NEW s \in Seq(S) PROVE s \in Seq(T)
OBVIOUS

LEMMA NonEmpty == ASSUME NEW S, NEW s \in Seq(S) PROVE Len(s) \in Nat /\ (s # <<>> <=> Len(s) > 0)
BY EmptySeq

LEMMA OneLine == ASSUME NEW E, NEW s \in Seq(E), Len(s) = 1 PROVE s = <<s[1]>>
OBVIOUS

\* A line put before others.
LEMMA LineBefore ==
  ASSUME NEW E, NEW x \in E, NEW s \in Seq(E)
  PROVE  /\ <<x>> \o s \in Seq(E) /\ <<x>> \o s # <<>> /\ Len(<<x>> \o s) = 1 + Len(s)
         /\ (<<x>> \o s)[1] = x /\ Tail(<<x>> \o s) = s
OBVIOUS

LEMMA WithAt ==
  ASSUME NEW f, NEW k, NEW v
  PROVE  DOMAIN With(f, k, v) = DOMAIN f \cup {k} /\ With(f, k, v)[k] = v
BY DEF With

\* A body behind headers is the body that is read, and one that begins the fence if it
\* is not mistaken.
LEMMA BodyBehind ==
  ASSUME NEW spec, FenceShape(spec), NEW args, AreArguments(args), ShortHeaders(spec, args),
         HasBody(spec)
  PROVE  LET V == Value(args, spec.body)
         IN  IF Heads(spec, args) = <<>> THEN FilledLines(spec, args) = HeadPairs(spec, args) \o V /\ FilledLines(spec, args) = V
             ELSE FilledLines(spec, args) = HeadPairs(spec, args) \o (<<Blank>> \o V)
<1> DEFINE V == Value(args, spec.body)
           H == HeadPairs(spec, args)
           R == (IF H = <<>> THEN <<>> ELSE <<Blank>>) \o V
<1>1. FilledLines(spec, args) = OrEmpty(H \o R)
  BY HeaderLinesAre DEF FilledLines, BehindHead, HasBody
<1>2. Valued(V, args, spec.body)
  BY ValueIs
<1>3. H \in Seq(Range(H)) /\ (H = <<>> <=> Heads(spec, args) = <<>>)
  <2>1. Heads(spec, args) \in Seq(Range(Heads(spec, args)))
    BY HeadsAre
  <2>2. H \in Seq(Range(H)) /\ Len(H) = Len(Heads(spec, args))
    BY HeadPairsAre
  <2> HIDE DEF H
  <2> QED BY <2>1, <2>2, EmptySeq
<1> HIDE DEF V, H
<1> DEFINE E == Range(H) \cup Range(V) \cup {Blank}
<1>4. H \in Seq(E) /\ V \in Seq(E) /\ V # <<>> /\ <<Blank>> \in Seq(E)
  <2>1. Range(H) \subseteq E /\ Range(V) \subseteq E /\ Blank \in E
    OBVIOUS
  <2>2. V \in Seq(Range(V)) /\ V # <<>>
    BY <1>2 DEF Valued
  <2> HIDE DEF E
  <2>3. H \in Seq(E)
    BY <1>3, <2>1, SeqWider
  <2>4. V \in Seq(E)
    BY <2>1, <2>2, SeqWider
  <2>5. <<Blank>> \in Seq(E)
    BY <2>1
  <2> QED BY <2>2, <2>3, <2>4, <2>5
<1> HIDE DEF E
<1>5. <<>> \o V = V
  BY <1>4, ConcatEmptySeq
<1>6. R \in Seq(E) /\ R # <<>>
  <2>1. CASE H = <<>>
    BY <1>4, <1>5, <2>1
  <2>2. CASE H # <<>>
    <3>1. Blank \in E
      BY DEF E
    <3> QED BY <1>4, <2>2, <3>1, LineBefore
  <2> QED BY <2>1, <2>2
<1>7. H \o R # <<>>
  <2> DEFINE u == H \o R
  <2> HIDE DEF R
  <2>1. u \in Seq(E) /\ Len(u) = Len(H) + Len(R)
    BY <1>4, <1>6, ConcatProperties
  <2>2. Len(R) > 0 /\ Len(R) \in Nat /\ Len(H) \in Nat
    BY <1>4, <1>6, NonEmpty
  <2> HIDE DEF u
  <2>3. Len(u) > 0
    BY <2>1, <2>2
  <2> QED BY <2>1, <2>3, NonEmpty DEF u
<1>8. FilledLines(spec, args) = H \o R
  <2> HIDE DEF R
  <2> QED BY <1>1, <1>7 DEF OrEmpty
<1>9. ASSUME H = <<>> PROVE FilledLines(spec, args) = V /\ R = V
  BY <1>5, <1>8, <1>9
<1>10. ASSUME H # <<>> PROVE R = <<Blank>> \o V
  BY <1>10
<1> HIDE DEF R
<1> QED BY <1>3, <1>8, <1>9, <1>10 DEF V, H

LEMMA BodyParsed ==
  ASSUME NEW spec, FenceShape(spec), NEW args, AreArguments(args), ShortHeaders(spec, args),
         HasBody(spec)
  PROVE  LET found == ParseFencedInner(spec, FilledLines(spec, args))
         IN  /\ ~Mistaken(spec, args) => found = {With(ToldHeads(spec, args), spec.body, Value(args, spec.body))}
             /\ Mistaken(spec, args) => args \notin found
<1> DEFINE V == Value(args, spec.body)
           told == ToldHeads(spec, args)
           filled == FilledLines(spec, args)
           g == Heads(spec, args)
           found == ParseFencedInner(spec, filled)
           h == V[1]
<1>1. /\ Valued(V, args, spec.body)
      /\ IF g = <<>> THEN filled = HeadPairs(spec, args) \o V /\ filled = V ELSE filled = HeadPairs(spec, args) \o (<<Blank>> \o V)
  BY ValueIs, BodyBehind
<1>2. g \in Seq(Range(g)) /\ Range(g) = Range(spec.headers) \cap DOMAIN args /\ (spec.headers = <<>> => g = <<>>)
  BY HeadsAre
<1>3. \A R : MeaningOf(spec, told, SansBlank(spec, R)) = {With(told, spec.body, SansBlank(spec, R))}
  BY DEF MeaningOf, HasBody
<1>4. DOMAIN told = Range(spec.headers) \cap DOMAIN args
  BY DEF ToldHeads
<1>5. Mistaken(spec, args) <=> /\ spec.headers # <<>> /\ Range(spec.headers) \cap DOMAIN args = {}
                               /\ (h = Blank /\ Len(V) > 1) \/ IsHeaderOf(spec, h)
  <2>1. Head(V) = h
    <3>1. V \in Seq(Range(V)) /\ V # <<>>
      BY <1>1 DEF Valued
    <3> HIDE DEF V
    <3>2. Head(V) = V[1]
      BY <3>1
    <3> QED BY <3>2
  <2>2. (\A i \in DOMAIN spec.headers : spec.headers[i] \notin DOMAIN args) <=> Range(spec.headers) \cap DOMAIN args = {}
    BY DEF Range
  <2> QED BY <2>1, <2>2 DEF Mistaken
<1> HIDE DEF V, told, filled, g, found, h
<1>6. V \in Seq(Range(V)) /\ V # <<>> /\ Len(V) \in Nat \ {0} /\ OrEmpty(V) = V
  BY <1>1 DEF Valued, OrEmpty
<1>61. Len(V) \in Nat \ {0}
  BY <1>6
<1>7. Range(g) = {} => g = <<>>
  <2>1. Len(g) \in Nat /\ (g # <<>> <=> Len(g) > 0)
    BY <1>2, NonEmpty
  <2>2. Len(g) > 0 => g[1] \in Range(g)
    <3>1. DOMAIN g = 1..Len(g) /\ Len(g) \in Nat
      BY <1>2
    <3>2. Len(g) > 0 => 1 \in DOMAIN g
      BY <3>1
    <3> QED BY <3>2 DEF Range
  <2> QED BY <2>1, <2>2
<1>8. ASSUME g # <<>> PROVE ~Mistaken(spec, args) /\ found = {With(told, spec.body, V)}
  <2> DEFINE R == <<Blank>> \o V
             E == Range(V) \cup {Blank}
  <2>1. ~Mistaken(spec, args)
    BY <1>2, <1>5, <1>7, <1>8
  <2>2. R \in Seq(E) /\ R[1] = Blank /\ Tail(R) = V /\ R # <<>>
    <3>1. Range(V) \subseteq E /\ Blank \in E
      OBVIOUS
    <3> HIDE DEF E
    <3>2. V \in Seq(E)
      BY <1>6, <3>1, SeqWider
    <3> QED BY <3>1, <3>2, LineBefore
  <2> HIDE DEF R
  <2>3. R \in Seq(Range(R)) /\ ~IsHeaderOf(spec, R[1])
    <3>1. R \in Seq(Range(R))
      BY <2>2, SeqOfRange
    <3>2. ~IsHeaderOf(spec, Blank)
      BY DEF IsHeaderOf, Kind, Blank
    <3> QED BY <2>2, <3>1, <3>2
  <2>4. filled = HeadPairs(spec, args) \o R
    BY <1>1, <1>8 DEF R
  <2>5. found = MeaningOf(spec, told, SansBlank(spec, R))
    BY <2>3, <2>4, HeadParsed DEF found, told
  <2>6. SansBlank(spec, R) = V
    BY <1>2, <1>6, <1>8, <2>2 DEF SansBlank
  <2> QED BY <1>3, <2>1, <2>5, <2>6
<1>9. ASSUME g = <<>>, ~IsHeaderOf(spec, h)
      PROVE  found = {With(told, spec.body, SansBlank(spec, V))}
  <2>1. filled = HeadPairs(spec, args) \o V
    BY <1>1, <1>9
  <2>2. V # <<>> => ~IsHeaderOf(spec, V[1])
    BY <1>9 DEF h
  <2>3. found = MeaningOf(spec, told, SansBlank(spec, V))
    BY <1>6, <2>1, <2>2, HeadParsed DEF found, told
  <2> QED BY <1>3, <2>3
<1>10. CASE g = <<>> /\ spec.headers = <<>>
  <2>1. ~IsHeaderOf(spec, h) /\ ~Mistaken(spec, args)
    <3>2. DOMAIN spec.headers = {}
      BY <1>10, EmptyDomain
    <3> QED BY <1>5, <1>10, <3>2 DEF IsHeaderOf
  <2>2. SansBlank(spec, V) = V
    BY <1>6, <1>10 DEF SansBlank
  <2> QED BY <1>9, <1>10, <2>1, <2>2 DEF found, told, filled, V
<1>11. CASE g = <<>> /\ spec.headers # <<>> /\ ~IsHeaderOf(spec, h)
  <2>1. Mistaken(spec, args) <=> h = Blank /\ Len(V) > 1
    <3>1. Range(spec.headers) \cap DOMAIN args = {}
      BY <1>2, <1>11, EmptyRange
    <3> QED BY <1>5, <1>11, <3>1
  <2>2. CASE ~Mistaken(spec, args)
    <3>1. SansBlank(spec, V) = V
      <4>1. CASE h # Blank
        BY <1>6, <4>1 DEF SansBlank, h
      <4>2. CASE h = Blank
        <5>1. Len(V) = 1
          BY <1>61, <2>1, <2>2, <4>2
        <5>2. V = EmptyText
          <6>1. V[1] = Blank
            BY <4>2 DEF h
          <6> QED BY <1>6, <5>1, <6>1, OneLine DEF EmptyText
        <5>3. Tail(V) = <<>>
          <6>1. Tail(V) \in Seq(Range(V)) /\ Len(Tail(V)) = Len(V) - 1
            BY <1>6, HeadTailProperties
          <6>2. Len(Tail(V)) = 0
            BY <5>1, <6>1
          <6> QED BY <6>1, <6>2, EmptySeq
        <5>4. SansBlank(spec, V) = OrEmpty(Tail(V))
          BY <1>6, <1>11, <4>2 DEF SansBlank, h
        <5>5. \A s : s = <<>> => OrEmpty(s) = EmptyText
          BY DEF OrEmpty
        <5> QED BY <5>2, <5>3, <5>4, <5>5
      <4> QED BY <4>1, <4>2
    <3> QED BY <1>9, <1>11, <2>2, <3>1 DEF found, told, filled, V
  <2>3. CASE Mistaken(spec, args)
    <3>1. h = Blank /\ Len(V) > 1
      BY <2>1, <2>3
    <3>2. Tail(V) \in Seq(Range(V)) /\ Len(Tail(V)) = Len(V) - 1
      BY <1>6, HeadTailProperties
    <3>3. Tail(V) # <<>>
      <4>1. Len(Tail(V)) > 0
        BY <1>61, <3>1, <3>2
      <4>2. Tail(V) \in Seq(Range(V))
        BY <3>2
      <4> QED BY <4>1, <4>2, NonEmpty
    <3>4. SansBlank(spec, V) = Tail(V)
      <4> DEFINE t == Tail(V)
      <4>1. SansBlank(spec, V) = OrEmpty(t)
        BY <1>6, <1>11, <3>1 DEF SansBlank, h
      <4> HIDE DEF t
      <4>2. t # <<>> => OrEmpty(t) = t
        BY DEF OrEmpty
      <4> QED BY <3>3, <4>1, <4>2 DEF t
    <3>5. \A k, v : k \in DOMAIN With(told, k, v) /\ With(told, k, v)[k] = v
      BY DEF With
    <3>6. args # With(told, spec.body, Tail(V))
      <4> SUFFICES ASSUME args = With(told, spec.body, Tail(V)) PROVE FALSE
        OBVIOUS
      <4>1. spec.body \in DOMAIN args /\ args[spec.body] = Tail(V)
        BY <3>5, Zenon
      <4>2. Len(V) = Len(args[spec.body])
        BY <1>1, <4>1 DEF Valued
      <4>3. Len(V) = Len(V) - 1
        BY <3>2, <4>1, <4>2
      <4> QED BY <1>61, <4>3
    <3> QED BY <1>9, <1>11, <2>3, <3>4, <3>6 DEF found, filled
  <2> QED BY <2>2, <2>3
<1>12. CASE g = <<>> /\ spec.headers # <<>> /\ IsHeaderOf(spec, h)
  <2> DEFINE stop == StopOf(spec, V)
             given == GivenTo(V, stop)
             rest == AfterHead(spec, V, stop)
  <2>1. Range(spec.headers) \cap DOMAIN args = {}
    BY <1>2, <1>12, EmptyRange
  <2>2. Mistaken(spec, args)
    BY <1>5, <1>12, <2>1
  <2>3. found = {With(given, spec.body, rest)}
    <3>1. found = MeaningOf(spec, given, rest)
      BY <1>1, <1>12, InnerIs DEF found
    <3> QED BY <3>1 DEF MeaningOf, HasBody
  <2>4. stop \in 1..(Len(V) + 1) /\ (stop <= Len(V) => ~IsHeaderOf(spec, V[stop]))
    BY <1>6, <1>12, StopIs
  <2> HIDE DEF stop
  <2>5. 1 \in 1..stop - 1
    <3>1. stop # 1
      <4>1. 1 <= Len(V)
        BY <1>61
      <4>2. IsHeaderOf(spec, V[1])
        BY <1>12 DEF h
      <4> QED BY <2>4, <4>1, <4>2
    <3> QED BY <1>61, <2>4, <3>1
  <2>6. h[2] \in DOMAIN given
    BY <2>5 DEF GivenTo, KeysTo, h
  <2>7. h[2] \in Range(spec.headers)
    BY <1>12 DEF IsHeaderOf, Range
  <2> HIDE DEF given, rest
  <2>8. h[2] \in DOMAIN With(given, spec.body, rest)
    BY <2>6 DEF With
  <2>9. args # With(given, spec.body, rest)
    BY <2>1, <2>7, <2>8
  <2> QED BY <2>2, <2>3, <2>9 DEF found, filled
<1> QED BY <1>8, <1>10, <1>11, <1>12 DEF found, told, filled, V

HasEdit(spec) == spec.edit # <<>>

LEMMA SameValues ==
  ASSUME NEW args, AreArguments(args), NEW D
  PROVE  [p \in D |-> Value(args, p)] = args <=> D = DOMAIN args /\ Unchanged(args)
<1> DEFINE w == [p \in D |-> Value(args, p)]
<1>1. args = [p \in DOMAIN args |-> args[p]] /\ (Unchanged(args) <=> \A p \in DOMAIN args : Value(args, p) = args[p])
  BY UnchangedIs
<1>2. DOMAIN w = D /\ \A p \in D : w[p] = Value(args, p)
  OBVIOUS
<1>3. ASSUME D = DOMAIN args, \A p \in DOMAIN args : Value(args, p) = args[p] PROVE w = args
  <2>1. w = [p \in DOMAIN args |-> args[p]]
    BY <1>3
  <2> QED BY <1>1, <2>1
<1>4. ASSUME w = args PROVE D = DOMAIN args /\ \A p \in DOMAIN args : Value(args, p) = args[p]
  <2> HIDE DEF w
  <2> QED BY <1>2, <1>4
<1> QED BY <1>1, <1>3, <1>4

LEMMA BodyReturns ==
  ASSUME NEW spec, FenceShape(spec), NEW args, AreArguments(args), ShortHeaders(spec, args),
         DOMAIN args \subseteq PlacesOf(spec), HasBody(spec)
  PROVE  /\ Returns(spec, args) => ParseFencedInner(spec, FilledLines(spec, args)) = {args}
         /\ args \in ParseFencedInner(spec, FilledLines(spec, args)) => Returns(spec, args)
<1> DEFINE found == ParseFencedInner(spec, FilledLines(spec, args))
           told == ToldHeads(spec, args)
           D == (Range(spec.headers) \cap DOMAIN args) \cup {spec.body}
           w == With(told, spec.body, Value(args, spec.body))
<1>1. w = [p \in D |-> Value(args, p)]
  <2>1. told = [p \in Range(spec.headers) \cap DOMAIN args |-> Value(args, p)]
    BY ToldAre
  <2> HIDE DEF told
  <2>2. DOMAIN told \cup {spec.body} = D /\ \A p \in D : (IF p = spec.body THEN Value(args, spec.body) ELSE told[p]) = Value(args, p)
    BY <2>1
  <2> HIDE DEF D
  <2> QED BY <2>2 DEF With
<1>2. DOMAIN args \subseteq Range(spec.headers) \cup {spec.body}
  <2>1. Range(spec.edit) = {}
    BY EmptyRange DEF HasBody
  <2> QED BY <2>1 DEF PlacesOf
<1>3. D = DOMAIN args <=> spec.body \in DOMAIN args
  BY <1>2
<1>4. /\ ~Mistaken(spec, args) => found = {w}
      /\ Mistaken(spec, args) => args \notin found
  BY BodyParsed
<1> HIDE DEF w, D, found
<1>5. w = args <=> spec.body \in DOMAIN args /\ Unchanged(args)
  BY <1>1, <1>3, SameValues
<1>6. Returns(spec, args) <=> Unchanged(args) /\ spec.body \in DOMAIN args /\ ~Mistaken(spec, args)
  BY DEF Returns, HasBody
<1> QED BY <1>4, <1>5, <1>6 DEF found

LEMMA EditParsed ==
  ASSUME NEW spec, FenceShape(spec), NEW args, AreArguments(args), ShortHeaders(spec, args), HasEdit(spec)
  PROVE  LET t == EditLines(Value(args, spec.edit[1]), Value(args, spec.edit[2]))
         IN  ParseFencedInner(spec, FilledLines(spec, args)) = {EditOf(ToldHeads(spec, args), spec.edit, e) : e \in ParseEdit(t)}
<1> DEFINE old == Value(args, spec.edit[1])
           new == Value(args, spec.edit[2])
           t == EditLines(old, new)
           H == HeadPairs(spec, args)
           told == ToldHeads(spec, args)
           E == Range(old) \cup Range(new)
<1>1. FilledLines(spec, args) = OrEmpty(H \o t)
  BY HeaderLinesAre DEF FilledLines, BehindHead, HasEdit
<1>2. Valued(old, args, spec.edit[1]) /\ Valued(new, args, spec.edit[2])
  BY ValueIs
<1>3. H \in Seq(Range(H))
  BY HeadPairsAre
<1>4. \A R : MeaningOf(spec, told, R) = {EditOf(told, spec.edit, e) : e \in ParseEdit(R)}
  BY DEF MeaningOf, HasEdit
<1> HIDE DEF old, new, t, H, told, E
<1>5. old \in Seq(E) /\ new \in Seq(E)
  <2>1. Range(old) \subseteq E /\ Range(new) \subseteq E
    BY DEF E
  <2>2. old \in Seq(Range(old)) /\ new \in Seq(Range(new))
    BY <1>2 DEF Valued
  <2> QED BY <2>1, <2>2, SeqWider
<1> DEFINE F == E \cup {SearchMark, Separator, ReplaceMark}
<1>6. t \in Seq(F) /\ t[1] = SearchMark /\ Len(t) = Len(old) + Len(new) + 3
  <2>1. t \in Seq(F) /\ EditLaidOut(t, old, new, Len(old), Len(new))
    BY <1>5, EditLinesAre DEF t
  <2> HIDE DEF F
  <2> QED BY <2>1 DEF EditLaidOut
<1> HIDE DEF F
<1>7. Len(t) > 0
  <2>1. Len(old) \in Nat /\ Len(new) \in Nat
    BY <1>5
  <2> QED BY <1>6, <2>1
<1>8. t # <<>>
  BY <1>6, <1>7, NonEmpty
<1>9. H \o t # <<>>
  <2> DEFINE u == H \o t
             G == Range(H) \cup F
  <2>1. H \in Seq(G) /\ t \in Seq(G)
    <3>1. Range(H) \subseteq G /\ F \subseteq G
      OBVIOUS
    <3> HIDE DEF G
    <3> QED BY <1>3, <1>6, <3>1, SeqWider
  <2> HIDE DEF G
  <2>2. u \in Seq(G) /\ Len(u) = Len(H) + Len(t) /\ Len(H) \in Nat /\ Len(t) \in Nat
    BY <2>1, ConcatProperties
  <2> HIDE DEF u
  <2>3. Len(u) > 0
    BY <1>7, <2>2
  <2> QED BY <2>2, <2>3, NonEmpty DEF u
<1>10. FilledLines(spec, args) = H \o t
  <2>1. \A s : s # <<>> => OrEmpty(s) = s
    BY DEF OrEmpty
  <2> QED BY <1>1, <1>9, <2>1
<1>11. ~IsHeaderOf(spec, t[1]) /\ t[1] # Blank
  BY <1>6 DEF IsHeaderOf, Kind, SearchMark, Blank
<1>12. SansBlank(spec, t) = t
  BY <1>8, <1>11 DEF SansBlank, OrEmpty
<1>13. t \in Seq(Range(t))
  BY <1>6, SeqOfRange
<1>14. ParseFencedInner(spec, FilledLines(spec, args)) = MeaningOf(spec, told, SansBlank(spec, t))
  BY <1>10, <1>11, <1>13, HeadParsed DEF H, told
<1> QED BY <1>4, <1>12, <1>14 DEF t, told, old, new

LEMMA EditsReturn ==
  ASSUME NEW spec, FenceShape(spec), NEW args, AreArguments(args), ShortHeaders(spec, args),
         DOMAIN args \subseteq PlacesOf(spec), HasEdit(spec)
  PROVE  /\ Returns(spec, args) => ParseFencedInner(spec, FilledLines(spec, args)) = {args}
         /\ args \in ParseFencedInner(spec, FilledLines(spec, args)) => Returns(spec, args)
<1> DEFINE found == ParseFencedInner(spec, FilledLines(spec, args))
           told == ToldHeads(spec, args)
           a == spec.edit[1]
           b == spec.edit[2]
           old == Value(args, a)
           new == Value(args, b)
           t == EditLines(old, new)
           D == (Range(spec.headers) \cap DOMAIN args) \cup {a, b}
           Result(e) == EditOf(told, spec.edit, e)
           same == /\ WithoutLead(old) = old /\ WithoutLead(new) = new
                   /\ (\A i \in 2..Len(old) : old[i] # Separator) /\ \A i \in 2..Len(new) : new[i] # ReplaceMark
<1>1. a # b /\ a \notin Range(spec.headers) /\ b \notin Range(spec.headers) /\ spec.edit = <<a, b>>
  BY DEF FenceShape, HasEdit
<1>2. Valued(old, args, a) /\ Valued(new, args, b)
  BY ValueIs
<1>3. told = [p \in Range(spec.headers) \cap DOMAIN args |-> Value(args, p)]
  BY ToldAre
<1>4. found = {Result(e) : e \in ParseEdit(t)}
  BY EditParsed
<1>5. DOMAIN args \subseteq Range(spec.headers) \cup {a, b}
  <2>1. Range(spec.edit) = {a, b}
    BY <1>1 DEF Range
  <2>2. spec.body = ""
    BY DEF FenceShape, HasEdit
  <2> QED BY <2>1, <2>2 DEF PlacesOf
<1>6. \A e : /\ Result(e) = [p \in DOMAIN told \cup {a, b} |-> IF p = a THEN e[1] ELSE IF p = b THEN e[2] ELSE told[p]]
  <2> TAKE e
  <2> HIDE DEF told, a, b
  <2>1. With(told, b, e[2]) = [p \in DOMAIN told \cup {b} |-> IF p = b THEN e[2] ELSE told[p]]
    BY DEF With
  <2> DEFINE u == With(told, b, e[2])
  <2>2. DOMAIN u = DOMAIN told \cup {b} /\ \A p \in DOMAIN u : u[p] = IF p = b THEN e[2] ELSE told[p]
    BY <2>1
  <2>3. Result(e) = With(u, a, e[1])
    BY DEF EditOf, a, b
  <2> HIDE DEF u
  <2>4. With(u, a, e[1]) = [p \in DOMAIN u \cup {a} |-> IF p = a THEN e[1] ELSE u[p]]
    BY DEF With
  <2>5. DOMAIN u \cup {a} = DOMAIN told \cup {a, b}
    BY <2>2
  <2>6. \A p \in DOMAIN u \cup {a} : (IF p = a THEN e[1] ELSE u[p]) = IF p = a THEN e[1] ELSE IF p = b THEN e[2] ELSE told[p]
    BY <2>2
  <2> HIDE DEF Result
  <2> QED BY <2>3, <2>4, <2>5, <2>6
<1>7. DOMAIN told \cup {a, b} = D
  BY <1>3
<1>8. \A e : DOMAIN Result(e) = D /\ Result(e)[a] = e[1] /\ Result(e)[b] = e[2]
  <2> HIDE DEF Result, told, a, b, D
  <2>1. a \in D /\ b \in D
    BY DEF D
  <2> QED BY <1>1, <1>6, <1>7, <2>1
<1>9. Result(<<old, new>>) = [p \in D |-> Value(args, p)]
  <2>1. \A p \in D : (IF p = a THEN old ELSE IF p = b THEN new ELSE told[p]) = Value(args, p)
    BY <1>3
  <2> HIDE DEF Result, told, D
  <2>2. Result(<<old, new>>) = [p \in D |-> IF p = a THEN old ELSE IF p = b THEN new ELSE told[p]]
    BY <1>6, <1>7
  <2> QED BY <2>1, <2>2
<1>10. D = DOMAIN args <=> a \in DOMAIN args /\ b \in DOMAIN args
  BY <1>5
<1>11. Result(<<old, new>>) = args <=> a \in DOMAIN args /\ b \in DOMAIN args /\ Unchanged(args)
  <2> HIDE DEF D, Result
  <2> QED BY <1>9, <1>10, SameValues
<1>12. /\ same => ParseEdit(t) = {<<old, new>>}
       /\ \A e \in ParseEdit(t) : Len(e[1]) = Len(old) /\ Len(e[2]) = Len(new) => same /\ e = <<old, new>>
  <2> DEFINE E == Range(old) \cup Range(new)
  <2>1. old \in Seq(E) /\ new \in Seq(E) /\ old # <<>> /\ new # <<>>
    <3>1. Range(old) \subseteq E /\ Range(new) \subseteq E
      OBVIOUS
    <3>2. old \in Seq(Range(old)) /\ new \in Seq(Range(new)) /\ old # <<>> /\ new # <<>>
      BY <1>2 DEF Valued
    <3> HIDE DEF E, old, new
    <3> QED BY <3>1, <3>2, SeqWider
  <2> HIDE DEF E, old, new
  <2> QED BY <2>1, EditReturns
<1>13. Unchanged(args) /\ a \in DOMAIN args /\ b \in DOMAIN args => old = args[a] /\ new = args[b]
  BY UnchangedIs
<1>14. Returns(spec, args) <=> Unchanged(args) /\ a \in DOMAIN args /\ b \in DOMAIN args /\ same
  <2>1. Returns(spec, args) <=> Unchanged(args) /\ EditSurvives(spec, args)
    BY DEF Returns, HasEdit
  <2>2. EditSurvives(spec, args) <=>
          /\ a \in DOMAIN args /\ b \in DOMAIN args
          /\ WithoutLead(args[a]) = args[a] /\ WithoutLead(args[b]) = args[b]
          /\ (\A i \in 2..Len(old) : old[i] # Separator) /\ \A i \in 2..Len(new) : new[i] # ReplaceMark
    BY DEF EditSurvives
  <2> HIDE DEF old, new, a, b
  <2> QED BY <1>13, <2>1, <2>2
<1> HIDE DEF same, Result, t, old, new, a, b
<1>15. ASSUME Returns(spec, args) PROVE found = {args}
  <2>1. ParseEdit(t) = {<<old, new>>} /\ Result(<<old, new>>) = args
    BY <1>11, <1>12, <1>14, <1>15
  <2> HIDE DEF found
  <2> QED BY <1>4, <2>1
<1>16. ASSUME args \in found PROVE Returns(spec, args)
  <2>1. PICK e \in ParseEdit(t) : args = Result(e)
    BY <1>4, <1>16
  <2>2. a \in DOMAIN args /\ b \in DOMAIN args /\ args[a] = e[1] /\ args[b] = e[2]
    <3>1. a \in D /\ b \in D
      BY DEF D
    <3> HIDE DEF D
    <3> QED BY <1>8, <2>1, <3>1
  <2>3. Len(old) = Len(args[a]) /\ Len(new) = Len(args[b])
    BY <1>2, <2>2 DEF Valued
  <2>4. same /\ e = <<old, new>>
    BY <1>12, <2>2, <2>3
  <2>5. Result(<<old, new>>) = args
    BY <2>1, <2>4
  <2> QED BY <1>11, <1>14, <2>4, <2>5
<1> QED BY <1>15, <1>16

\* What is in a fence means the arguments exactly when they survive.
LEMMA InnerReturns ==
  ASSUME NEW spec, FenceShape(spec), NEW args, AreArguments(args), ShortHeaders(spec, args),
         DOMAIN args \subseteq PlacesOf(spec)
  PROVE  /\ Returns(spec, args) => ParseFencedInner(spec, FilledLines(spec, args)) = {args}
         /\ args \in ParseFencedInner(spec, FilledLines(spec, args)) => Returns(spec, args)
<1>1. HasEdit(spec) \/ HasBody(spec) \/ HasNeither(spec)
  BY DEF HasEdit, HasBody, HasNeither
<1>2. CASE HasEdit(spec)
  BY <1>2, EditsReturn
<1>3. CASE HasBody(spec)
  BY <1>3, BodyReturns
<1>4. CASE HasNeither(spec)
  BY <1>4, NoneReturns
<1> QED BY <1>1, <1>2, <1>3, <1>4

-----------------------------------------------------------------------------
(* The specifications of a catalog. *)

\* A tool as the catalogs have it.
IsDeclared(tool) == IsTool(tool) /\ IsInjective(tool.props) /\ "" \notin Range(tool.props)

LEMMA PairOf == \A a, b : <<a, b>>[1] = a /\ <<a, b>>[2] = b /\ Range(<<a, b>>) = {a, b}
BY DEF Range

LEMMA FirstInIs ==
  ASSUME NEW names, names \in Seq(Range(names)), NEW S
  PROVE  FirstIn(names, S) = "" \/ FirstIn(names, S) \in Range(names) \cap S
<1> DEFINE hits == Only(names, S)
<1>1. hits \in Seq(Range(names)) /\ Range(hits) = Range(names) \cap S
  BY OnlySound
<1>2. FirstIn(names, S) = IF hits = <<>> THEN "" ELSE hits[1]
  BY DEF FirstIn
<1> HIDE DEF hits
<1>3. hits # <<>> => hits[1] \in Range(hits)
  <2>1. Len(hits) \in Nat /\ (hits # <<>> <=> Len(hits) > 0) /\ DOMAIN hits = 1..Len(hits)
    BY <1>1, NonEmpty
  <2>2. hits # <<>> => 1 \in DOMAIN hits
    BY <2>1
  <2> QED BY <2>2 DEF Range
<1> QED BY <1>1, <1>2, <1>3

\* A specification has each of the tool's properties in one place.
LEMMA FenceShapes ==
  ASSUME NEW tool, IsDeclared(tool)
  PROVE  /\ FenceShape(FenceSpec(tool)) /\ FenceSpec(tool).name = tool.name
         /\ Range(tool.props) \subseteq PlacesOf(FenceSpec(tool))
<1> DEFINE props == tool.props
           search == FirstIn(props, SearchNames)
           replace == FirstIn(props, ReplaceNames)
           body == FirstIn(props, BodyNames)
           alone == IF body = "" /\ Len(props) = 1 THEN props[1] ELSE body
           edit == search # "" /\ replace # ""
           used == IF edit THEN {search, replace} ELSE {alone}
           pair == IF edit THEN <<search, replace>> ELSE <<>>
           whole == IF edit THEN "" ELSE alone
           headers == Only(props, Range(props) \ used)
           spec == FenceSpec(tool)
<1>1. spec = [name |-> tool.name, edit |-> pair, body |-> whole, headers |-> headers]
  BY DEF FenceSpec
<1>2. props \in Seq(Range(props)) /\ IsInjective(props) /\ "" \notin Range(props)
  BY DEF IsDeclared, IsTool
<1>3. search = "" \/ search \in Range(props) \cap SearchNames
  BY <1>2, FirstInIs
<1>4. replace = "" \/ replace \in Range(props) \cap ReplaceNames
  BY <1>2, FirstInIs
<1>5. edit => search # replace
  BY <1>3, <1>4, FenceAssumption
<1> HIDE DEF search, replace, alone
<1>6. /\ headers \in Seq(Range(headers)) /\ IsInjective(headers) /\ Range(headers) = Range(props) \ used
  <2> HIDE DEF used, props
  <2>1. headers \in Seq(Range(props)) /\ IsInjective(headers) /\ Range(headers) = Range(props) \cap (Range(props) \ used)
    BY <1>2, OnlySound
  <2>2. Range(props) \cap (Range(props) \ used) = Range(props) \ used
    OBVIOUS
  <2> HIDE DEF headers
  <2> QED BY <2>1, <2>2, SeqOfRange
<1> HIDE DEF headers
<1>7. pair # <<>> <=> edit
  <2>1. <<search, replace>> # <<>>
    OBVIOUS
  <2> HIDE DEF edit
  <2> QED BY <2>1
<1>8. edit => pair[1] = search /\ pair[2] = replace /\ pair = <<pair[1], pair[2]>> /\ Range(pair) = {search, replace}
  <2> SUFFICES ASSUME edit PROVE pair[1] = search /\ pair[2] = replace /\ pair = <<pair[1], pair[2]>> /\ Range(pair) = {search, replace}
    OBVIOUS
  <2>1. pair = <<search, replace>>
    OBVIOUS
  <2> HIDE DEF pair
  <2> QED BY <2>1, PairOf
<1>81. spec.headers = headers /\ spec.edit = pair /\ spec.body = whole /\ spec.name = tool.name
  <2> HIDE DEF pair, headers, whole, spec
  <2> QED BY <1>1
<1> HIDE DEF pair
<1>9. FenceShape(spec)
  <2>1. spec.headers = headers /\ spec.edit = pair /\ spec.body = whole
    BY <1>81
  <2>2. whole \notin Range(headers) /\ "" \notin Range(headers)
    BY <1>2, <1>6
  <2>3. edit => /\ pair[1] # pair[2] /\ whole = "" /\ pair[1] \notin Range(headers) /\ pair[2] \notin Range(headers)
                /\ pair[1] # "" /\ pair[2] # ""
    BY <1>5, <1>6, <1>8
  <2> HIDE DEF spec, edit, whole
  <2> QED BY <1>6, <1>7, <1>8, <2>1, <2>2, <2>3 DEF FenceShape
<1>10. Range(props) \subseteq PlacesOf(spec)
  <2>1. spec.headers = headers /\ spec.edit = pair /\ spec.body = whole
    BY <1>81
  <2>2. PlacesOf(spec) = Range(headers) \cup ({whole} \ {""}) \cup Range(pair)
    BY <2>1 DEF PlacesOf
  <2>3. CASE edit
    BY <1>6, <1>8, <2>2, <2>3
  <2>4. CASE ~edit
    BY <1>2, <1>6, <2>2, <2>4
  <2> QED BY <2>3, <2>4
<1> QED BY <1>9, <1>10, <1>81

\* A catalog as it reaches the parser: it has a name once.
IsCatalog(tools) ==
  /\ tools \in Seq(Range(tools)) /\ \A i, j \in DOMAIN tools : tools[i].name = tools[j].name => i = j
  /\ \A tool \in Range(tools) : IsDeclared(tool)

\* Every fence is read by a tool's specification, and one with a tool's name by its own.
LEMMA SpecMapIs ==
  ASSUME NEW tools, IsCatalog(tools), NEW tool \in Range(tools)
  PROVE  LET specs == SpecMap(tools)
         IN  /\ tool.name \in DOMAIN specs /\ specs[tool.name] = FenceSpec(tool)
             /\ \A n \in DOMAIN specs : specs[n].name = tool.name => specs[n] = FenceSpec(tool)
<1> DEFINE specs == SpecMap(tools)
           names == {tools[i].name : i \in DOMAIN tools}
           routed == IF Shells(tools) = <<>> THEN {} ELSE ShellLangs \ names
           named(n) == tools[CHOOSE i \in DOMAIN tools : tools[i].name = n]
           owner(n) == IF n \in names THEN named(n) ELSE Shells(tools)[1]
<1>1. specs = [n \in names \cup routed |-> FenceSpec(owner(n))]
  BY DEF SpecMap
<1>2. tools \in Seq(Range(tools)) /\ (\A i, j \in DOMAIN tools : tools[i].name = tools[j].name => i = j)
  BY DEF IsCatalog
<1>3. \A t \in Range(tools) : FenceSpec(t).name = t.name
  BY FenceShapes DEF IsCatalog
<1>4. ASSUME NEW n \in names PROVE named(n) \in Range(tools) /\ named(n).name = n
  <2> DEFINE i == CHOOSE i \in DOMAIN tools : tools[i].name = n
  <2>1. i \in DOMAIN tools /\ tools[i].name = n
    OBVIOUS
  <2> HIDE DEF i
  <2> QED BY <2>1 DEF Range, i
<1>5. Shells(tools) # <<>> => Shells(tools)[1] \in Range(tools)
  <2> DEFINE A == {t \in Range(tools) : t.name \in ShellNames}
             B == {t \in Range(tools) : Len(t.props) = 1 /\ t.props[1] \in CommandNames}
             s == Shells(tools)
  <2>1. s = Only(tools, A) \o Only(tools, B)
    BY DEF Shells
  <2> HIDE DEF A, B, s
  <2>2. Only(tools, A) \in Seq(Range(tools)) /\ Only(tools, B) \in Seq(Range(tools))
    BY <1>2, OnlySound
  <2>3. s \in Seq(Range(tools))
    BY <2>1, <2>2, ConcatProperties
  <2>4. s # <<>> => Len(s) > 0 /\ Len(s) \in Nat
    BY <2>3, NonEmpty
  <2>5. s # <<>> => 1 \in 1..Len(s)
    BY <2>4
  <2>6. s # <<>> => s[1] \in Range(tools)
    BY <2>3, <2>5, ElementOfSeq
  <2> QED BY <2>6 DEF s
<1> HIDE DEF named
<1>6. ASSUME NEW n \in names \cup routed PROVE owner(n) \in Range(tools)
  BY <1>4, <1>5, <1>6
<1>7. \A s, t \in Range(tools) : s.name = t.name => s = t
  BY <1>2 DEF Range
<1>8. tool.name \in names
  BY DEF Range
<1>9. owner(tool.name) = tool
  BY <1>4, <1>7, <1>8
<1> HIDE DEF owner, names, routed, specs
<1>10. DOMAIN specs = names \cup routed /\ \A n \in DOMAIN specs : specs[n] = FenceSpec(owner(n))
  BY <1>1
<1>11. ASSUME NEW n \in DOMAIN specs, specs[n].name = tool.name PROVE specs[n] = FenceSpec(tool)
  <2>1. owner(n) \in Range(tools) /\ specs[n] = FenceSpec(owner(n))
    BY <1>6, <1>10
  <2>2. owner(n).name = tool.name
    BY <1>3, <1>11, <2>1
  <2>3. owner(n) = tool
    BY <1>7, <2>1, <2>2
  <2> QED BY <2>1, <2>3
<1> QED BY <1>8, <1>9, <1>10, <1>11 DEF specs

-----------------------------------------------------------------------------
(* The lines of a fence. *)

\* The lines that a fence adds, and those of the values that it shows as they are.
FenceMarks == {Blank, SearchMark, Separator, ReplaceMark}
ShownIn(spec) == ({spec.body} \ {""}) \cup Range(spec.edit)
ShownLines(spec, args) == UNION {Range(Value(args, p)) : p \in ShownIn(spec)}

LEMMA ShownValue ==
  ASSUME NEW args, AreArguments(args), NEW spec, NEW p \in ShownIn(spec), NEW E, ShownLines(spec, args) \subseteq E
  PROVE  Value(args, p) \in Seq(E) /\ Value(args, p) # <<>> /\ Range(Value(args, p)) \subseteq E
<1> DEFINE v == Value(args, p)
<1>1. Valued(v, args, p)
  BY ValueIs
<1>2. Range(v) \subseteq E
  BY DEF ShownLines
<1> HIDE DEF v
<1>3. v \in Seq(Range(v)) /\ v # <<>>
  BY <1>1 DEF Valued
<1>4. v \in Seq(E)
  BY <1>2, <1>3, SeqWider
<1> QED BY <1>2, <1>3, <1>4 DEF v

LEMMA EditPlaces ==
  ASSUME NEW spec, FenceShape(spec), HasEdit(spec)
  PROVE  ShownIn(spec) = {spec.edit[1], spec.edit[2]}
<1> DEFINE a == spec.edit[1]
           b == spec.edit[2]
           e == spec.edit
<1>1. e = <<a, b>> /\ spec.body = ""
  BY DEF FenceShape, HasEdit
<1> HIDE DEF a, b, e
<1>2. Range(e) = {a, b}
  BY <1>1, PairOf
<1> QED BY <1>1, <1>2 DEF ShownIn, e, a, b

\* What is behind the header lines are marks and lines shown, all of them.
LEMMA BehindIs ==
  ASSUME NEW spec, FenceShape(spec), NEW args, AreArguments(args), NEW E, FenceMarks \subseteq E, ShownLines(spec, args) \subseteq E
  PROVE  BehindHead(spec, args) \in Seq(E) /\ ShownLines(spec, args) \subseteq Range(BehindHead(spec, args))
<1> DEFINE R == BehindHead(spec, args)
<1>1. CASE HasEdit(spec)
  <2> DEFINE a == spec.edit[1]
             b == spec.edit[2]
             old == Value(args, a)
             new == Value(args, b)
             F == E \cup {SearchMark, Separator, ReplaceMark}
  <2>1. ShownIn(spec) = {a, b}
    BY <1>1, EditPlaces
  <2>2. old \in Seq(E) /\ new \in Seq(E)
    BY <2>1, ShownValue
  <2>3. R = EditLines(old, new)
    BY <1>1 DEF BehindHead, HasEdit
  <2>4. ShownLines(spec, args) = Range(old) \cup Range(new)
    BY <2>1 DEF ShownLines
  <2>5. F = E
    BY DEF FenceMarks
  <2> HIDE DEF old, new, F, R
  <2>6. R \in Seq(F) /\ EditLaidOut(R, old, new, Len(old), Len(new))
    BY <2>2, <2>3, EditLinesAre DEF F
  <2>7. R \in Seq(E) /\ Len(R) = Len(old) + Len(new) + 3
    BY <2>5, <2>6 DEF EditLaidOut
  <2> DEFINE o == Len(old)
             n == Len(new)
  <2>8. /\ o \in Nat /\ n \in Nat /\ DOMAIN R = 1..Len(R) /\ Len(R) = o + n + 3
        /\ DOMAIN old = 1..o /\ DOMAIN new = 1..n
    BY <2>2, <2>7
  <2>9. (\A i \in 1..o : R[i + 1] = old[i]) /\ \A i \in 1..n : R[o + 2 + i] = new[i]
    BY <2>6 DEF EditLaidOut
  <2> HIDE DEF o, n
  <2>10. ASSUME NEW l \in Range(old) PROVE l \in Range(R)
    <3>1. PICK i \in 1..o : l = old[i]
      BY <2>8 DEF Range
    <3>2. i + 1 \in DOMAIN R /\ R[i + 1] = l
      BY <2>8, <2>9, <3>1
    <3> QED BY <3>2 DEF Range
  <2>11. ASSUME NEW l \in Range(new) PROVE l \in Range(R)
    <3>1. PICK i \in 1..n : l = new[i]
      BY <2>8 DEF Range
    <3>2. o + 2 + i \in DOMAIN R /\ R[o + 2 + i] = l
      BY <2>8, <2>9, <3>1
    <3> QED BY <3>2 DEF Range
  <2> QED BY <2>4, <2>7, <2>10, <2>11 DEF R
<1>2. CASE HasBody(spec)
  <2> DEFINE V == Value(args, spec.body)
             f == IF HeaderLines(spec, args) = <<>> THEN <<>> ELSE <<Blank>>
  <2>1. ShownIn(spec) = {spec.body}
    BY <1>2, EmptyRange DEF HasBody, ShownIn
  <2>2. V \in Seq(E)
    BY <2>1, ShownValue
  <2>3. ShownLines(spec, args) = Range(V)
    BY <2>1 DEF ShownLines
  <2>4. R = f \o V
    BY <1>2 DEF BehindHead, HasBody
  <2>5. f \in Seq(E)
    <3>1. Blank \in E
      BY DEF FenceMarks
    <3>2. <<Blank>> \in Seq(E) /\ <<>> \in Seq(E)
      BY <3>1
    <3> QED BY <3>2
  <2> HIDE DEF V, f, R
  <2>6. R \in Seq(E) /\ Range(R) = Range(f) \cup Range(V)
    BY <2>2, <2>4, <2>5, ConcatProperties, RangeConcatenation
  <2> QED BY <2>3, <2>6 DEF R
<1>3. CASE HasNeither(spec)
  <2>1. ShownIn(spec) = {}
    BY <1>3, EmptyRange DEF HasNeither, ShownIn
  <2>2. ShownLines(spec, args) = {}
    BY <2>1 DEF ShownLines
  <2>3. R = <<>>
    BY <1>3 DEF BehindHead, HasNeither
  <2>4. <<>> \in Seq(E)
    OBVIOUS
  <2> QED BY <2>2, <2>3, <2>4
<1>4. HasEdit(spec) \/ HasBody(spec) \/ HasNeither(spec)
  BY DEF HasEdit, HasBody, HasNeither
<1> QED BY <1>1, <1>2, <1>3, <1>4

LEMMA FilledOver ==
  ASSUME NEW spec, FenceShape(spec), NEW args, AreArguments(args), NEW E, FenceMarks \subseteq E, ShownLines(spec, args) \subseteq E,
         HeaderLines(spec, args) \in Seq(E)
  PROVE  /\ FilledLines(spec, args) \in Seq(E) /\ FilledLines(spec, args) # <<>>
         /\ ShownLines(spec, args) \subseteq Range(FilledLines(spec, args))
<1> DEFINE H == HeaderLines(spec, args)
           R == BehindHead(spec, args)
           u == H \o R
<1>1. R \in Seq(E) /\ ShownLines(spec, args) \subseteq Range(R)
  BY BehindIs
<1>2. FilledLines(spec, args) = OrEmpty(u)
  BY DEF FilledLines
<1> HIDE DEF H, R
<1>3. H \in Seq(E)
  BY DEF H
<1>4. u \in Seq(E) /\ Range(u) = Range(H) \cup Range(R)
  BY <1>1, <1>3, ConcatProperties, RangeConcatenation
<1> HIDE DEF u
<1>5. CASE u = <<>>
  <2>1. Range(u) = {}
    BY <1>5, EmptyRange
  <2>2. FilledLines(spec, args) = EmptyText
    BY <1>2, <1>5 DEF OrEmpty
  <2>3. EmptyText \in Seq(E) /\ EmptyText # <<>>
    <3>1. Blank \in E
      BY DEF FenceMarks
    <3>2. <<Blank>> \in Seq(E) /\ <<Blank>> # <<>>
      BY <3>1
    <3> QED BY <3>2 DEF EmptyText
  <2> QED BY <1>1, <1>4, <2>1, <2>2, <2>3
<1>6. CASE u # <<>>
  <2>1. FilledLines(spec, args) = u
    BY <1>2, <1>6 DEF OrEmpty
  <2> QED BY <1>1, <1>4, <1>6, <2>1
<1> QED BY <1>5, <1>6

\* Whatever the values, the lines of a fence are marks, header lines and lines of values.
Headed(spec, args) == {HeadPair(args, p) : p \in Range(spec.headers)}
FenceLines(spec, args) ==
  FenceMarks \cup Headed(spec, args) \cup UNION {Range(Value(args, p)) : p \in PlacesOf(spec)}

LEMMA HeaderLinesOver ==
  ASSUME NEW spec, FenceShape(spec), NEW args, AreArguments(args)
  PROVE  HeaderLines(spec, args) \in Seq(FenceLines(spec, args))
<1> DEFINE E == FenceLines(spec, args)
           given == Heads(spec, args)
           Header(i) == <<Pair(given[i], Head(Value(args, given[i])))>> \o Tail(Value(args, given[i]))
           lines == [i \in DOMAIN given |-> Header(i)]
<1>1. given \in Seq(Range(given)) /\ Range(given) = Range(spec.headers) \cap DOMAIN args
  BY HeadsAre
<1>2. DOMAIN given = 1..Len(given) /\ Len(given) \in Nat
  BY <1>1
<1>3. HeaderLines(spec, args) = FlattenSeq(lines)
  BY DEF HeaderLines, Heads
<1> HIDE DEF given, E
<1>4. ASSUME NEW i \in DOMAIN given PROVE Header(i) \in Seq(E)
  <2> DEFINE p == given[i]
             v == Value(args, p)
             x == HeadPair(args, p)
  <2>1. p \in Range(spec.headers)
    BY <1>1 DEF Range
  <2>2. Range(v) \subseteq E /\ x \in E
    BY <2>1 DEF E, FenceLines, PlacesOf, Headed
  <2>3. Valued(v, args, p)
    BY ValueIs
  <2>4. Header(i) = <<x>> \o Tail(v)
    BY DEF HeadPair
  <2> HIDE DEF v, x, Header
  <2>5. v \in Seq(E) /\ v # <<>>
    BY <2>2, <2>3, SeqWider DEF Valued
  <2>6. Tail(v) \in Seq(E)
    BY <2>5
  <2> QED BY <2>2, <2>4, <2>6, LineBefore
<1> HIDE DEF Header
<1>5. lines \in Seq(Seq(E))
  BY <1>2, <1>4
<1> QED BY <1>3, <1>5, FlattenSeqType DEF E

LEMMA FilledIsLines ==
  ASSUME NEW spec, FenceShape(spec), NEW args, AreArguments(args)
  PROVE  FilledLines(spec, args) \in Seq(FenceLines(spec, args)) /\ FilledLines(spec, args) # <<>>
<1>1. FenceMarks \subseteq FenceLines(spec, args) /\ ShownLines(spec, args) \subseteq FenceLines(spec, args)
  BY DEF FenceLines, ShownLines, PlacesOf, ShownIn
<1> QED BY <1>1, HeaderLinesOver, FilledOver

\* With values of one line for the headers, nothing but lines shown can close a fence.
LEMMA FilledShort ==
  ASSUME NEW spec, FenceShape(spec), NEW args, AreArguments(args), ShortHeaders(spec, args)
  PROVE  /\ FilledLines(spec, args) \in Seq(FenceMarks \cup Headed(spec, args) \cup ShownLines(spec, args))
         /\ ShownLines(spec, args) \subseteq Range(FilledLines(spec, args))
<1> DEFINE E == FenceMarks \cup Headed(spec, args) \cup ShownLines(spec, args)
           H == HeadPairs(spec, args)
           g == Heads(spec, args)
<1>1. FenceMarks \subseteq E /\ ShownLines(spec, args) \subseteq E /\ Headed(spec, args) \subseteq E
  OBVIOUS
<1>2. HeaderLines(spec, args) = H
  BY HeaderLinesAre
<1>3. H \in Seq(Range(H)) /\ Len(H) = Len(g) /\ DOMAIN H = 1..Len(g) /\ \A i \in 1..Len(g) : H[i] = HeadPair(args, g[i])
  BY HeadPairsAre
<1>4. DOMAIN g = 1..Len(g) /\ Range(g) = Range(spec.headers) \cap DOMAIN args
  BY HeadsAre
<1> HIDE DEF E, H, g
<1>5. Range(H) \subseteq Headed(spec, args)
  <2> SUFFICES ASSUME NEW i \in 1..Len(g) PROVE H[i] \in Headed(spec, args)
    BY <1>3 DEF Range
  <2>1. g[i] \in Range(spec.headers)
    BY <1>4 DEF Range
  <2> QED BY <1>3, <2>1 DEF Headed
<1>6. H \in Seq(E)
  BY <1>1, <1>3, <1>5, SeqWider
<1> QED BY <1>1, <1>2, <1>6, FilledOver DEF E

\* Joining texts is associative, told of an operator that the provers leave as it is.
Cat(s, t) == s \o t

LEMMA CatIs ==
  ASSUME NEW E, NEW s \in Seq(E), NEW t \in Seq(E), NEW u \in Seq(E)
  PROVE  Cat(s, t) \in Seq(E) /\ Cat(Cat(s, t), u) = Cat(s, Cat(t, u))
<1>1. Cat(s, t) \in Seq(E)
  BY DEF Cat
<1>2. Cat(Cat(s, t), u) = Cat(s, Cat(t, u))
  BY ConcatAssociative, SMTT(60) DEF Cat
<1> QED BY <1>1, <1>2

LEMMA Regroup ==
  ASSUME NEW E, NEW h \in Seq(E), NEW a \in Seq(E), NEW b \in Seq(E), NEW c \in Seq(E), NEW d \in Seq(E), NEW e \in Seq(E)
  PROVE  Cat(Cat(Cat(Cat(Cat(h, a), b), c), d), e) = Cat(h, Cat(Cat(Cat(Cat(a, b), c), d), e))
<1>1. Cat(a, b) \in Seq(E) /\ Cat(Cat(a, b), c) \in Seq(E) /\ Cat(Cat(Cat(a, b), c), d) \in Seq(E)
  BY CatIs
<1>2. Cat(Cat(h, a), b) = Cat(h, Cat(a, b))
  BY CatIs
<1>3. Cat(Cat(h, Cat(a, b)), c) = Cat(h, Cat(Cat(a, b), c))
  BY <1>1, CatIs
<1>4. Cat(Cat(h, Cat(Cat(a, b), c)), d) = Cat(h, Cat(Cat(Cat(a, b), c), d))
  BY <1>1, CatIs
<1>5. Cat(Cat(h, Cat(Cat(Cat(a, b), c), d)), e) = Cat(h, Cat(Cat(Cat(Cat(a, b), c), d), e))
  BY <1>1, CatIs
<1> QED BY <1>2, <1>3, <1>4, <1>5

\* A rendered call is its fence around what is inside.
LEMMA RenderIs ==
  ASSUME NEW spec, FenceShape(spec), NEW args, AreArguments(args)
  PROVE  RenderFencedCall(spec, args) = <<Open(3, spec.name)>> \o FilledLines(spec, args) \o <<Close(3)>>
<1> DEFINE E == FenceLines(spec, args)
           headers == HeaderLines(spec, args)
           old == Value(args, spec.edit[1])
           new == Value(args, spec.edit[2])
           V == Value(args, spec.body)
           f == IF headers = <<>> THEN <<>> ELSE <<Blank>>
           edited == headers \o <<SearchMark>> \o old \o <<Separator>> \o new \o <<ReplaceMark>>
           bodied == headers \o f \o V
           lines == IF spec.edit # <<>> THEN edited ELSE IF spec.body = "" THEN headers ELSE bodied
<1>1. RenderFencedCall(spec, args) = <<Open(3, spec.name)>> \o OrEmpty(lines) \o <<Close(3)>>
  BY DEF RenderFencedCall, OrEmpty
<1>2. FilledLines(spec, args) = OrEmpty(headers \o BehindHead(spec, args))
  BY DEF FilledLines
<1>3. headers \in Seq(E)
  BY HeaderLinesOver
<1>4. FenceMarks \subseteq E /\ ShownLines(spec, args) \subseteq E
  BY DEF FenceLines, ShownLines, PlacesOf, ShownIn
<1> HIDE DEF E
<1>5. lines = headers \o BehindHead(spec, args)
  <2>1. CASE HasEdit(spec)
    <3>1. ShownIn(spec) = {spec.edit[1], spec.edit[2]}
      BY <2>1, EditPlaces
    <3>2. old \in Seq(E) /\ new \in Seq(E)
      BY <1>4, <3>1, ShownValue
    <3>3. lines = edited /\ BehindHead(spec, args) = EditLines(old, new)
      BY <2>1 DEF HasEdit, BehindHead
    <3>4. <<SearchMark>> \in Seq(E) /\ <<Separator>> \in Seq(E) /\ <<ReplaceMark>> \in Seq(E)
      BY <1>4 DEF FenceMarks
    <3>5. edited = Cat(headers, EditLines(old, new))
      <4> DEFINE x == <<SearchMark>>
                 y == <<Separator>>
                 z == <<ReplaceMark>>
      <4>1. x \in Seq(E) /\ y \in Seq(E) /\ z \in Seq(E)
        BY <3>4
      <4>2. edited = Cat(Cat(Cat(Cat(Cat(headers, x), old), y), new), z)
        BY DEF Cat
      <4> DEFINE all == Cat(headers, EditLines(old, new))
      <4>3. all = Cat(headers, Cat(Cat(Cat(Cat(x, old), y), new), z))
        BY DEF Cat, EditLines
      <4> HIDE DEF x, y, z, headers, old, new, edited, all
      <4>4. Cat(Cat(Cat(Cat(Cat(headers, x), old), y), new), z) = Cat(headers, Cat(Cat(Cat(Cat(x, old), y), new), z))
        BY <1>3, <3>2, <4>1, Regroup
      <4>5. edited = all
        BY <4>2, <4>3, <4>4
      <4> QED BY <4>5 DEF all
    <3> HIDE DEF lines, edited, headers, old, new
    <3>6. lines = Cat(headers, BehindHead(spec, args))
      BY <3>3, <3>5
    <3> QED BY <3>6 DEF Cat
  <2>2. CASE HasBody(spec)
    <3>1. ShownIn(spec) = {spec.body}
      BY <2>2, EmptyRange DEF HasBody, ShownIn
    <3>2. V \in Seq(E)
      BY <1>4, <3>1, ShownValue
    <3>3. lines = bodied /\ BehindHead(spec, args) = f \o V
      BY <2>2 DEF HasBody, BehindHead
    <3>4. f \in Seq(E)
      <4>1. <<Blank>> \in Seq(E) /\ <<>> \in Seq(E)
        BY <1>4 DEF FenceMarks
      <4> QED BY <4>1
    <3>5. bodied = headers \o (f \o V)
      <4> HIDE DEF headers, f, V
      <4> QED BY <1>3, <3>2, <3>4, ConcatAssociative
    <3> QED BY <3>3, <3>5
  <2>3. CASE HasNeither(spec)
    <3>1. lines = headers /\ BehindHead(spec, args) = <<>>
      BY <2>3 DEF HasNeither, BehindHead
    <3> HIDE DEF headers, lines
    <3>2. headers \o <<>> = headers
      BY <1>3, ConcatEmptySeq
    <3> QED BY <3>1, <3>2
  <2>4. HasEdit(spec) \/ HasBody(spec) \/ HasNeither(spec)
    BY DEF HasEdit, HasBody, HasNeither
  <2> QED BY <2>1, <2>2, <2>3, <2>4
<1> HIDE DEF lines, headers
<1> QED BY <1>1, <1>2, <1>5

\* A text with a fence behind its first lines.
Fenced(before, ticks, name, X) == before \o (<<Open(ticks, name)>> \o X \o <<Close(ticks)>>)
FenceText(text, before, ticks, name, X, a, m) ==
  /\ Len(text) = a + m + 2
  /\ \A i \in 1..a : text[i] = before[i]
  /\ text[a + 1] = Open(ticks, name) /\ text[a + m + 2] = Close(ticks)
  /\ \A i \in 1..m : text[(a + 1) + i] = X[i]
  /\ SubSeq(text, a + 2, a + m + 1) = X

LEMMA FenceTextIs ==
  ASSUME NEW E, NEW before \in Seq(E), NEW X \in Seq(E), NEW ticks, NEW name, Open(ticks, name) \in E, Close(ticks) \in E,
         NEW text, text = Fenced(before, ticks, name, X)
  PROVE  text \in Seq(E) /\ FenceText(text, before, ticks, name, X, Len(before), Len(X))
<1> DEFINE o == Open(ticks, name)
           z == Close(ticks)
           u == <<o>> \o X
           v == u \o <<z>>
           a == Len(before)
           m == Len(X)
<1>1. o \in E /\ z \in E /\ a \in Nat /\ m \in Nat
  OBVIOUS
<1> HIDE DEF o, z
<1>2. u \in Seq(E) /\ Len(u) = 1 + m /\ u[1] = o /\ \A i \in 1..m : u[1 + i] = X[i]
  <2> DEFINE s == <<o>>
  <2>1. s \in Seq(E) /\ Len(s) = 1 /\ s[1] = o
    BY <1>1
  <2> HIDE DEF s
  <2>2. u \in Seq(E) /\ Joined(u, s, X)
    BY <2>1, JoinIs DEF s
  <2> HIDE DEF u
  <2> QED BY <2>1, <2>2 DEF Joined
<1> HIDE DEF u
<1>3. v \in Seq(E) /\ Len(v) = m + 2 /\ v[1] = o /\ (\A i \in 1..m : v[1 + i] = X[i]) /\ v[m + 2] = z
  <2>1. v \in Seq(E) /\ Extended(v, u, z)
    BY <1>1, <1>2, JoinLine
  <2> HIDE DEF v
  <2>2. Len(v) = (1 + m) + 1 /\ (\A i \in 1..(1 + m) : v[i] = u[i]) /\ v[(1 + m) + 1] = z
    BY <1>2, <2>1 DEF Extended
  <2>3. (1 + m) + 1 = m + 2 /\ 1 \in 1..(1 + m) /\ \A i \in 1..m : 1 + i \in 1..(1 + m)
    BY <1>1
  <2> QED BY <1>2, <2>1, <2>2, <2>3
<1>4. text = before \o v
  BY DEF v, u, o, z, Fenced
<1> HIDE DEF v, a, m
<1>5. text \in Seq(E) /\ Joined(text, before, v)
  BY <1>3, <1>4, JoinIs
<1>6. /\ Len(text) = a + (m + 2) /\ (\A i \in 1..a : text[i] = before[i])
      /\ \A i \in 1..(m + 2) : text[a + i] = v[i]
  BY <1>3, <1>5 DEF Joined, a
<1>7. text[a + 1] = o /\ text[a + m + 2] = z
  <2>1. 1 \in 1..(m + 2) /\ m + 2 \in 1..(m + 2) /\ a + m + 2 = a + (m + 2)
    BY <1>1
  <2> QED BY <1>3, <1>6, <2>1
<1>8. ASSUME NEW i \in 1..m PROVE text[(a + 1) + i] = X[i]
  <2>1. (a + 1) + i = a + (1 + i) /\ 1 + i \in 1..(m + 2)
    BY <1>1
  <2> QED BY <1>3, <1>6, <2>1
<1>9. SubSeq(text, a + 2, a + m + 1) = X
  <2> DEFINE b == a + 2
             c == a + m + 1
             w == SubSeq(text, b, c)
  <2>1. b \in Nat \ {0} /\ c \in Nat /\ c <= Len(text) /\ b <= c + 1 /\ b = a + 2 /\ c = a + m + 1
    BY <1>1, <1>6
  <2> HIDE DEF b, c
  <2>2. w \in Seq(E) /\ Len(w) = (IF b <= c THEN c - b + 1 ELSE 0) /\ \A i \in 1..Len(w) : w[i] = text[b + i - 1]
    <3>1. b \in Nat \ {0} /\ c \in Nat /\ c <= Len(text)
      BY <2>1
    <3> QED BY <1>5, <3>1, PartIs
  <2> HIDE DEF w
  <2>3. Len(w) = m
    BY <1>1, <2>1, <2>2
  <2>4. ASSUME NEW i \in 1..m PROVE w[i] = X[i]
    <3>1. b + i - 1 = (a + 1) + i
      BY <1>1, <2>1
    <3> QED BY <1>8, <2>2, <2>3, <3>1
  <2>5. w = X
    BY <2>2, <2>3, <2>4, SeqEqual DEF m
  <2> QED BY <2>5 DEF w, b, c
<1>10. Len(text) = a + m + 2
  BY <1>1, <1>6
<1> QED BY <1>5, <1>6, <1>7, <1>8, <1>9, <1>10 DEF FenceText, a, m, o, z

\* M365's call, as the parser gets it.
LEMMA TextIs ==
  ASSUME NEW E, NEW before \in Seq(E), NEW spec, FenceShape(spec), NEW args, AreArguments(args), NEW ticks,
         FenceLines(spec, args) \subseteq E, Open(ticks, spec.name) \in E, Close(ticks) \in E
  PROVE  LET text == before \o WithTicks(RenderFencedCall(spec, args), ticks)
             X == FilledLines(spec, args)
         IN  text \in Seq(E) /\ FenceText(text, before, ticks, spec.name, X, Len(before), Len(X))
<1> DEFINE X == FilledLines(spec, args)
           call == RenderFencedCall(spec, args)
           F == FenceLines(spec, args) \cup {Open(3, spec.name), Close(3)}
           name == spec.name
<1>1. X \in Seq(FenceLines(spec, args))
  BY FilledIsLines
<1>2. call = <<Open(3, name)>> \o X \o <<Close(3)>>
  BY RenderIs
<1> HIDE DEF X, call, name
<1>3. X \in Seq(F) /\ Open(3, name) \in F /\ Close(3) \in F
  <2>1. FenceLines(spec, args) \subseteq F
    OBVIOUS
  <2> HIDE DEF F
  <2>2. X \in Seq(F)
    BY <1>1, <2>1, SeqWider
  <2> QED BY <2>2 DEF F, name
<1> HIDE DEF F
<1>4. FenceText(call, <<>>, 3, name, X, 0, Len(X))
  <2>1. <<>> \in Seq(F) /\ Len(<<>>) = 0
    BY EmptySeq
  <2> DEFINE t == <<Open(3, name)>> \o X \o <<Close(3)>>
  <2>2. t \in Seq(F)
    BY <1>3
  <2>3. <<>> \o t = t
    BY <2>2, ConcatEmptySeq
  <2>4. call = <<>> \o (<<Open(3, name)>> \o X \o <<Close(3)>>)
    BY <1>2, <2>3
  <2> HIDE DEF t
  <2> DEFINE none == <<>>
  <2>5. none \in Seq(F) /\ Len(none) = 0
    BY <2>1
  <2>6. call = Fenced(none, 3, name, X)
    BY <2>4 DEF Fenced
  <2> HIDE DEF none
  <2>7. FenceText(call, none, 3, name, X, Len(none), Len(X))
    BY <1>3, <2>5, <2>6, FenceTextIs
  <2> QED BY <2>5, <2>7 DEF none
<1>5. Len(X) \in Nat
  BY <1>3
<1>6. call[1][3] = name /\ SubSeq(call, 2, Len(call) - 1) = X
  <2>1. call[0 + 1] = Open(3, name) /\ Len(call) = 0 + Len(X) + 2 /\ SubSeq(call, 0 + 2, 0 + Len(X) + 1) = X
    BY <1>4 DEF FenceText
  <2>2. 0 + 1 = 1 /\ 0 + 2 = 2 /\ 0 + Len(X) + 1 = Len(call) - 1
    BY <1>5, <2>1
  <2>3. call[1] = Open(3, name)
    BY <2>1, <2>2
  <2> QED BY <2>1, <2>2, <2>3 DEF Open
<1>7. WithTicks(call, ticks) = <<Open(ticks, name)>> \o X \o <<Close(ticks)>>
  BY <1>6 DEF WithTicks
<1>8. X \in Seq(E)
  BY <1>1, SeqWider
<1> DEFINE text == before \o WithTicks(call, ticks)
<1>9. text = Fenced(before, ticks, name, X)
  BY <1>7 DEF Fenced
<1> HIDE DEF text
<1>10. Open(ticks, name) \in E /\ Close(ticks) \in E
  BY DEF name
<1>11. text \in Seq(E) /\ FenceText(text, before, ticks, name, X, Len(before), Len(X))
  BY <1>8, <1>9, <1>10, FenceTextIs
<1> QED BY <1>11 DEF text, call, name, X

-----------------------------------------------------------------------------
(* What is read from a fence. *)

EditRead(w, given, edit, e) ==
  /\ DOMAIN w = DOMAIN given \cup {edit[1], edit[2]} /\ w[edit[1]] = e[1] /\ w[edit[2]] = e[2]
  /\ \A p \in DOMAIN given : p # edit[1] /\ p # edit[2] => w[p] = given[p]

LEMMA EmptyTextLen == \A s : s = EmptyText => Len(s) = 1
BY DEF EmptyText

LEMMA EditOfIs ==
  ASSUME NEW given, NEW edit, edit[1] # edit[2], NEW e
  PROVE  EditRead(EditOf(given, edit, e), given, edit, e)
<1> DEFINE u == With(given, edit[2], e[2])
           w == EditOf(given, edit, e)
<1>1. w = With(u, edit[1], e[1])
  BY DEF EditOf
<1>2. DOMAIN u = DOMAIN given \cup {edit[2]} /\ u[edit[2]] = e[2] /\ \A p \in DOMAIN given : p # edit[2] => u[p] = given[p]
  BY DEF With
<1> HIDE DEF u, w
<1>3. DOMAIN w = DOMAIN u \cup {edit[1]} /\ w[edit[1]] = e[1] /\ \A p \in DOMAIN u : p # edit[1] => w[p] = u[p]
  BY <1>1 DEF With
<1> QED BY <1>2, <1>3 DEF w, EditRead

\* What is read from a fence: a header's value is one line, the lines of the others are
\* lines of the fence, and the texts of an edit leave room for its marks.
HeaderValues(spec, args) == \A p \in Range(spec.headers) \cap DOMAIN args : Len(args[p]) = 1
ShownValues(spec, args, inner) ==
  \A p \in ShownIn(spec) \cap DOMAIN args : \A l \in Range(args[p]) : l \in Range(inner) \/ l = Blank
EditValues(spec, args, inner) ==
  HasEdit(spec) => /\ spec.edit[1] \in DOMAIN args /\ spec.edit[2] \in DOMAIN args
                   /\ Len(args[spec.edit[1]]) + Len(args[spec.edit[2]]) + 3 <= Len(inner)

LEMMA ReadValues ==
  ASSUME NEW E, NEW inner \in Seq(E), NEW spec, FenceShape(spec), NEW args \in ParseFencedInner(spec, inner)
  PROVE  HeaderValues(spec, args) /\ ShownValues(spec, args, inner) /\ EditValues(spec, args, inner)
<1> DEFINE stop == StopOf(spec, inner)
           given == GivenTo(inner, stop)
           rest == AfterHead(spec, inner, stop)
           F == Range(inner) \cup {Blank}
<1>1. args \in MeaningOf(spec, given, rest)
  BY InnerIs
<1>2. DOMAIN given \subseteq Range(spec.headers) /\ \A p \in DOMAIN given : Len(given[p]) = 1
  <2>1. KeysTo(inner, stop) \subseteq Range(spec.headers)
    BY KeysAreHeaders
  <2>2. \A x : Len(<<x>>) = 1
    OBVIOUS
  <2> HIDE DEF stop
  <2> QED BY <2>1, <2>2 DEF GivenTo
<1>3. rest \in Seq(F) /\ (rest # EmptyText => Len(rest) <= Len(inner))
  BY AfterHeadIs
<1> HIDE DEF stop, given, rest
<1>4. Range(rest) \subseteq F
  <2> HIDE DEF F
  <2> QED BY <1>3 DEF Range
<1> HIDE DEF F
<1>5. CASE HasEdit(spec)
  <2> DEFINE a == spec.edit[1]
             b == spec.edit[2]
  <2>1. a # b /\ a \notin Range(spec.headers) /\ b \notin Range(spec.headers)
    BY <1>5 DEF FenceShape, HasEdit
  <2>2. ShownIn(spec) = {a, b}
    BY <1>5, EditPlaces
  <2>3. PICK e \in ParseEdit(rest) : args = EditOf(given, spec.edit, e)
    BY <1>1, <1>5 DEF MeaningOf, HasEdit
  <2>4. /\ Range(e[1]) \subseteq Range(rest) /\ Range(e[2]) \subseteq Range(rest)
        /\ Len(e[1]) \in Nat /\ Len(e[2]) \in Nat
        /\ Len(e[1]) + Len(e[2]) + 3 <= Len(rest)
    <3>1. /\ e[1] \in Seq(F) /\ e[2] \in Seq(F)
          /\ Range(e[1]) \subseteq Range(rest) /\ Range(e[2]) \subseteq Range(rest)
          /\ Len(e[1]) + Len(e[2]) + 3 <= Len(rest)
      BY <1>3, EditSizes
    <3>2. Len(e[1]) \in Nat /\ Len(e[2]) \in Nat
      BY <3>1
    <3> QED BY <3>1, <3>2
  <2>5. /\ DOMAIN args = DOMAIN given \cup {a, b} /\ args[a] = e[1] /\ args[b] = e[2]
        /\ \A p \in DOMAIN given : p # a /\ p # b => args[p] = given[p]
    <3>1. spec.edit[1] # spec.edit[2]
      BY <2>1
    <3>2. EditRead(args, given, spec.edit, e)
      BY <2>3, <3>1, EditOfIs
    <3> QED BY <3>2 DEF EditRead
  <2>6. HeaderValues(spec, args)
    <3> HIDE DEF a, b
    <3> QED BY <1>2, <2>1, <2>5 DEF HeaderValues
  <2>7. ShownValues(spec, args, inner)
    <3> HIDE DEF a, b
    <3> QED BY <1>4, <2>2, <2>4, <2>5 DEF ShownValues, F
  <2>8. Len(e[1]) + Len(e[2]) + 3 <= Len(inner)
    <3>1. rest # EmptyText
      <4> DEFINE x == Len(e[1])
                 y == Len(e[2])
                 z == Len(rest)
      <4>1. rest = EmptyText => z = 1
        BY EmptyTextLen
      <4>2. x \in Nat /\ y \in Nat /\ x + y + 3 <= z
        BY <2>4
      <4> HIDE DEF x, y, z
      <4>3. z # 1
        BY <4>2
      <4> QED BY <4>1, <4>3
    <3>2. Len(rest) <= Len(inner) /\ Len(rest) \in Nat /\ Len(inner) \in Nat
      <4>1. Len(rest) <= Len(inner)
        BY <1>3, <3>1
      <4>2. Len(rest) \in Nat
        BY <1>3
      <4>3. Len(inner) \in Nat
        OBVIOUS
      <4> QED BY <4>1, <4>2, <4>3
    <3> DEFINE x == Len(e[1])
               y == Len(e[2])
               z == Len(rest)
               i == Len(inner)
    <3>3. x \in Nat /\ y \in Nat /\ x + y + 3 <= z /\ z \in Nat /\ i \in Nat /\ z <= i
      BY <2>4, <3>2
    <3> HIDE DEF x, y, z, i
    <3>4. x + y + 3 <= i
      BY <3>3
    <3> QED BY <3>4 DEF x, y, i
  <2>9. EditValues(spec, args, inner)
    BY <2>5, <2>8 DEF EditValues
  <2> QED BY <2>6, <2>7, <2>9
<1>6. CASE HasBody(spec)
  <2>1. args = With(given, spec.body, rest)
    BY <1>1, <1>6 DEF MeaningOf, HasBody
  <2>2. /\ DOMAIN args = DOMAIN given \cup {spec.body} /\ args[spec.body] = rest
        /\ \A p \in DOMAIN given : p # spec.body => args[p] = given[p]
    BY <2>1 DEF With
  <2>3. ShownIn(spec) = {spec.body}
    BY <1>6, EmptyRange DEF HasBody, ShownIn
  <2>4. HeaderValues(spec, args)
    <3>1. spec.body \notin Range(spec.headers)
      BY DEF FenceShape
    <3> QED BY <1>2, <2>2, <3>1 DEF HeaderValues
  <2>5. ShownValues(spec, args, inner)
    BY <1>4, <2>2, <2>3 DEF ShownValues, F
  <2>6. EditValues(spec, args, inner)
    BY <1>6 DEF EditValues, HasEdit, HasBody
  <2> QED BY <2>4, <2>5, <2>6
<1>7. CASE HasNeither(spec)
  <2>1. args = given
    BY <1>1, <1>7 DEF MeaningOf, HasNeither
  <2>2. ShownIn(spec) = {}
    BY <1>7, EmptyRange DEF HasNeither, ShownIn
  <2>3. EditValues(spec, args, inner)
    BY <1>7 DEF EditValues, HasEdit, HasNeither
  <2> QED BY <1>2, <2>1, <2>2, <2>3 DEF HeaderValues, ShownValues
<1>8. HasEdit(spec) \/ HasBody(spec) \/ HasNeither(spec)
  BY DEF HasEdit, HasBody, HasNeither
<1> QED BY <1>5, <1>6, <1>7, <1>8

\* The calls that a scan has from a line on are of fences there.
LEMMA ScanCalls ==
  ASSUME NEW E, NEW lines \in Seq(E), NEW specs, NEW F, ScanRun(F, lines, specs), NEW m \in 1..(Len(lines) + 1)
  PROVE  F[m].calls \in Seq(CallsFrom(lines, specs, m))
<1> DEFINE none == <<>>
           n == Len(lines)
           S == Seq(CallsFrom(lines, specs, m))
           G == [i \in 1..n + 1 |-> IF i >= m THEN F[i].calls ELSE none]
           N == [i \in 1..n |-> AfterAt(lines, specs, i)]
<1>1. n \in Nat
  OBVIOUS
<1>2. \A i \in 1..n : N[i] \in (i + 1)..(n + 1) /\ N[i] = AfterAt(lines, specs, i)
  BY AfterIsLater
<1>3. none \in S
  BY EmptySeq
<1>4. F[n + 1].calls = none
  BY DEF ScanRun
<1>5. \A i \in 1..n + 1 : G[i] = IF i >= m THEN F[i].calls ELSE none
  OBVIOUS
<1> HIDE DEF G, N, n, none
<1>6. G[n + 1] \in S
  <2>1. n + 1 \in 1..n + 1
    BY <1>1
  <2> QED BY <1>3, <1>4, <1>5, <2>1
<1>7. ASSUME NEW i \in 1..n, G[N[i]] \in S PROVE G[i] \in S
  <2>1. i \in 1..n + 1 /\ N[i] \in 1..n + 1 /\ N[i] > i
    BY <1>1, <1>2
  <2>2. CASE i < m
    BY <1>3, <1>5, <2>1, <2>2
  <2>3. CASE i >= m
    <3> DEFINE x == F[N[i]].calls
               call == CallAt(lines, specs, i)
    <3>1. x \in S
      BY <1>5, <1>7, <2>1, <2>3
    <3>2. G[i] = F[i].calls
      BY <1>5, <2>1, <2>3
    <3>3. F[i].calls = IF OpensAt(lines, specs, i) /\ FoundAt(lines, specs, i) # {} THEN <<call>> \o x ELSE x
      BY <1>2 DEF ScanRun, n
    <3>4. OpensAt(lines, specs, i) /\ FoundAt(lines, specs, i) # {} => call \in CallsFrom(lines, specs, m)
      BY <2>3 DEF CallsFrom, HitsFrom, n
    <3> HIDE DEF x, call
    <3>5. CASE OpensAt(lines, specs, i) /\ FoundAt(lines, specs, i) # {}
      BY <3>1, <3>2, <3>3, <3>4, <3>5, LineBefore
    <3>6. CASE ~(OpensAt(lines, specs, i) /\ FoundAt(lines, specs, i) # {})
      BY <3>1, <3>2, <3>3, <3>6
    <3> QED BY <3>5, <3>6
  <2> QED BY <1>1, <2>1, <2>2, <2>3
<1> HIDE DEF S
<1>8. \A i \in 1..(n + 1) : G[i] \in S
  BY <1>1, <1>2, <1>6, <1>7, ScanStays
<1>9. G[m] = F[m].calls /\ m \in 1..(n + 1)
  BY <1>1, <1>5 DEF n
<1> QED BY <1>8, <1>9 DEF S

-----------------------------------------------------------------------------
(* The fence in an answer. *)

\* A line that can close a fence opened with so many backticks.
Shuts(line, ticks) == Kind(line) = "close" /\ line[2] >= ticks

\* No fence is opened by the first lines: the scan has the same calls behind them.
LEMMA ScanSkips ==
  ASSUME NEW E, NEW lines \in Seq(E), NEW specs, NEW F, ScanRun(F, lines, specs), NEW a \in 0..Len(lines),
         \A i \in 1..a : Kind(lines[i]) # "open"
  PROVE  F[a + 1].calls = F[1].calls
<1> DEFINE T == {k \in Nat : k <= a => F[k + 1].calls = F[1].calls}
<1>1. 0 \in T
  OBVIOUS
<1>2. ASSUME NEW k \in Nat, k \in T PROVE k + 1 \in T
  <2> SUFFICES ASSUME k + 1 <= a PROVE F[(k + 1) + 1].calls = F[1].calls
    OBVIOUS
  <2>1. k + 1 \in 1..Len(lines) /\ k + 1 \in 1..a /\ k <= a
    OBVIOUS
  <2>2. ~OpensAt(lines, specs, k + 1)
    BY <2>1 DEF OpensAt
  <2>3. AfterAt(lines, specs, k + 1) = (k + 1) + 1
    BY <2>2 DEF AfterAt
  <2>4. F[k + 1].calls = F[AfterAt(lines, specs, k + 1)].calls
    BY <2>1, <2>2 DEF ScanRun
  <2>5. F[k + 1].calls = F[1].calls
    BY <1>2, <2>1
  <2> QED BY <2>3, <2>4, <2>5
<1>3. \A k \in Nat : k \in T
  <2> HIDE DEF T
  <2> QED BY <1>1, <1>2, Induction
<1>4. a \in T
  BY <1>3
<1> QED BY <1>4

\* The fence that is opened behind the first lines ends with its first line that can close
\* it, or at its own end.
FenceSeen(lines, specs, o, m, X, ticks, name) ==
  /\ OpensAt(lines, specs, o) /\ lines[o][3] = name
  /\ (\A j \in 1..m : ~Shuts(X[j], ticks)) => ClosesAt(lines, o) = o + m + 1
  /\ \A j \in 1..m : Shuts(X[j], ticks) => ClosesAt(lines, o) <= o + j
  /\ \A i \in (o + 1)..(ClosesAt(lines, o) - 1) : ~Shuts(lines[i], ticks)
  /\ Shuts(lines[ClosesAt(lines, o)], ticks)
  /\ ClosesAt(lines, o) \in (o + 1)..(o + m + 1)

LEMMA FenceIsSeen ==
  ASSUME NEW E, NEW lines \in Seq(E), NEW before, NEW X, NEW a \in Nat, NEW m \in Nat, NEW ticks \in Nat, NEW name,
         FenceText(lines, before, ticks, name, X, a, m), NEW specs, name \in DOMAIN specs
  PROVE  FenceSeen(lines, specs, a + 1, m, X, ticks, name)
<1> DEFINE o == a + 1
           S == Closings(lines, o)
           c == ClosesAt(lines, o)
           n == Len(lines)
<1>1. lines[o] = Open(ticks, name) /\ lines[o + m + 1] = Close(ticks) /\ n = o + m + 1 /\ \A j \in 1..m : lines[o + j] = X[j]
  <2>1. o + m + 1 = a + m + 2
    OBVIOUS
  <2> QED BY <2>1 DEF FenceText
<1>2. lines[o][2] = ticks /\ lines[o][3] = name /\ Kind(lines[o]) = "open"
  BY <1>1 DEF Open, Kind
<1>3. Shuts(lines[o + m + 1], ticks)
  BY <1>1 DEF Shuts, Close, Kind
<1>4. S = {j \in o + 1..n : Shuts(lines[j], ticks)}
  BY <1>2 DEF Closings, Shuts
<1> HIDE DEF S, c, n
<1>5. o \in Nat \ {0} /\ m \in Nat /\ n \in Nat
  BY DEF n
<1> HIDE DEF o
<1>6. o + m + 1 \in S /\ S \in SUBSET Nat
  BY <1>1, <1>3, <1>4, <1>5
<1>7. c \in S /\ \A j \in S : c <= j
  <2>1. S # {}
    BY <1>6
  <2>2. c = SmallestOf(S)
    BY DEF ClosesAt, c, S
  <2> QED BY <1>6, <2>1, <2>2, SmallestIs
<1>8. c \in (o + 1)..(o + m + 1) /\ Shuts(lines[c], ticks)
  BY <1>1, <1>4, <1>7
<1>9. OpensAt(lines, specs, o)
  BY <1>2, <1>6 DEF OpensAt, S
<1>10. \A i \in (o + 1)..(c - 1) : ~Shuts(lines[i], ticks)
  <2> SUFFICES ASSUME NEW i \in (o + 1)..(c - 1), Shuts(lines[i], ticks) PROVE FALSE
    OBVIOUS
  <2>1. i \in o + 1..n
    BY <1>1, <1>5, <1>8
  <2>2. i \in S
    BY <1>4, <2>1
  <2> QED BY <1>5, <1>7, <1>8, <2>2
<1>11. ASSUME NEW j \in 1..m, Shuts(X[j], ticks) PROVE c <= o + j
  <2>1. o + j \in o + 1..n /\ lines[o + j] = X[j]
    BY <1>1, <1>5
  <2>2. o + j \in S
    BY <1>4, <1>11, <2>1
  <2> QED BY <1>7, <2>2
<1>12. ASSUME \A j \in 1..m : ~Shuts(X[j], ticks) PROVE c = o + m + 1
  <2> SUFFICES ASSUME c # o + m + 1 PROVE FALSE
    OBVIOUS
  <2>1. c - o \in 1..m /\ o + (c - o) = c
    BY <1>5, <1>8
  <2>2. lines[c] = X[c - o]
    BY <1>1, <2>1
  <2> QED BY <1>8, <1>12, <2>1, <2>2
<1> QED BY <1>2, <1>8, <1>9, <1>10, <1>11, <1>12 DEF FenceSeen, c, o

\* What is in a fence, and how much.
LEMMA InsideIs ==
  ASSUME NEW E, NEW lines \in Seq(E), NEW specs, NEW i \in 1..Len(lines), OpensAt(lines, specs, i)
  PROVE  LET inner == InsideAt(lines, i)
         IN  /\ inner \in Seq(E \cup {Blank})
             /\ \A l \in Range(inner) : l = Blank \/ \E j \in (i + 1)..(ClosesAt(lines, i) - 1) : l = lines[j]
             /\ Len(inner) <= 1 \/ Len(inner) <= Len(lines) - i - 1
<1> DEFINE c == ClosesAt(lines, i)
           n == Len(lines)
           part == SubSeq(lines, i + 1, c - 1)
           inner == InsideAt(lines, i)
<1>1. c \in (i + 1)..n /\ n \in Nat /\ i \in Nat
  BY AfterIsLater
<1>2. inner = OrEmpty(part)
  BY DEF InsideAt
<1> HIDE DEF c, inner
<1>3. part \in Seq(E) /\ Len(part) = c - 1 - i /\ \A k \in 1..(c - 1 - i) : part[k] = lines[i + k]
  <2>1. i + 1 \in Nat \ {0} /\ c - 1 \in Nat /\ c - 1 <= Len(lines)
    BY <1>1 DEF n
  <2>2. part \in Seq(E)
    BY <2>1, PartIs
  <2>3. Len(part) = c - 1 - i /\ \A k \in 1..(c - 1 - i) : part[k] = lines[(i + 1) + k - 1]
    BY <1>1, <2>1, SubSeqProperties
  <2>4. \A k \in 1..(c - 1 - i) : (i + 1) + k - 1 = i + k
    BY <1>1
  <2> QED BY <2>2, <2>3, <2>4
<1> HIDE DEF part
<1>4. inner \in Seq(E \cup {Blank})
  BY <1>2, <1>3, OrEmptyIs
<1>5. inner = part \/ inner = EmptyText
  BY <1>2 DEF OrEmpty
<1>6. \A l \in Range(part) : \E j \in (i + 1)..(c - 1) : l = lines[j]
  <2> TAKE l \in Range(part)
  <2>1. PICK k \in 1..(c - 1 - i) : l = part[k]
    <3>1. DOMAIN part = 1..(c - 1 - i)
      BY <1>3
    <3> QED BY <3>1 DEF Range
  <2>2. l = lines[i + k] /\ i + k \in (i + 1)..(c - 1)
    BY <1>1, <1>3, <2>1
  <2> QED BY <2>2
<1>7. \A l \in Range(EmptyText) : l = Blank
  BY DEF EmptyText, Range
<1>8. \A l \in Range(inner) : l = Blank \/ \E j \in (i + 1)..(c - 1) : l = lines[j]
  BY <1>5, <1>6, <1>7
<1>9. Len(inner) <= 1 \/ Len(inner) <= n - i - 1
  <2> DEFINE z == Len(inner)
             y == Len(part)
  <2>1. inner = EmptyText => z = 1
    BY EmptyTextLen
  <2>2. inner = part => z = y
    OBVIOUS
  <2>3. y = c - 1 - i
    BY <1>3
  <2> HIDE DEF z, y, n
  <2>4. z = 1 \/ z = c - 1 - i
    BY <1>5, <2>1, <2>2, <2>3
  <2>5. z <= 1 \/ z <= n - i - 1
    BY <1>1, <2>4
  <2> QED BY <2>5 DEF z, n
<1> QED BY <1>4, <1>8, <1>9 DEF c, n, inner

\* Every fence that means a tool is read by one specification.
ReadBy(specs, spec) == FenceShape(spec) /\ \A n \in DOMAIN specs : specs[n].name = spec.name => specs[n] = spec

\* A call that is found is of arguments that a fence gives.
LEMMA HitReads ==
  ASSUME NEW E, NEW lines \in Seq(E), NEW specs, NEW spec, ReadBy(specs, spec), NEW args, NEW i \in 1..Len(lines),
         OpensAt(lines, specs, i), FoundAt(lines, specs, i) # {},
         CallAt(lines, specs, i) = [name |-> spec.name, args |-> args]
  PROVE  /\ HeaderValues(spec, args) /\ ShownValues(spec, args, InsideAt(lines, i)) /\ EditValues(spec, args, InsideAt(lines, i))
         /\ specs[lines[i][3]] = spec /\ args \in FoundAt(lines, specs, i)
<1> DEFINE n == lines[i][3]
           found == FoundAt(lines, specs, i)
           inner == InsideAt(lines, i)
<1>1. n \in DOMAIN specs /\ found = ParseFencedInner(specs[n], inner)
  BY DEF OpensAt, FoundAt
<1>2. CallAt(lines, specs, i) = [name |-> specs[n].name, args |-> CHOOSE x \in found : TRUE]
  BY DEF CallAt
<1>3. inner \in Seq(E \cup {Blank})
  BY InsideIs
<1> HIDE DEF n, found, inner
<1>4. specs[n].name = spec.name /\ args = CHOOSE x \in found : TRUE
  BY <1>2
<1>5. specs[n] = spec
  BY <1>1, <1>4 DEF ReadBy
<1>6. args \in found
  <2>1. found # {}
    BY DEF found
  <2> QED BY <1>4, <2>1
<1>7. HeaderValues(spec, args) /\ ShownValues(spec, args, inner) /\ EditValues(spec, args, inner)
  <2>1. FenceShape(spec) /\ args \in ParseFencedInner(spec, inner)
    BY <1>1, <1>5, <1>6 DEF ReadBy
  <2> QED BY <1>3, <2>1, ReadValues
<1> QED BY <1>5, <1>6, <1>7 DEF n, found, inner

\* The size of an edit's fence, and its header lines, which close no fence.
LEMMA EditFilled ==
  ASSUME NEW spec, FenceShape(spec), NEW args, AreArguments(args), ShortHeaders(spec, args), HasEdit(spec)
  PROVE  \E k \in Nat : /\ Len(FilledLines(spec, args)) = k + Len(Value(args, spec.edit[1])) + Len(Value(args, spec.edit[2])) + 3
                        /\ \A i \in 1..k : Kind(FilledLines(spec, args)[i]) = "pair"
<1> DEFINE old == Value(args, spec.edit[1])
           new == Value(args, spec.edit[2])
           t == EditLines(old, new)
           H == HeadPairs(spec, args)
           g == Heads(spec, args)
           E == Range(old) \cup Range(new) \cup {SearchMark, Separator, ReplaceMark}
           G == Range(H) \cup E
           u == H \o t
<1>1. FilledLines(spec, args) = OrEmpty(u)
  BY HeaderLinesAre DEF FilledLines, BehindHead, HasEdit
<1>2. Valued(old, args, spec.edit[1]) /\ Valued(new, args, spec.edit[2])
  BY ValueIs
<1>3. H \in Seq(Range(H)) /\ Len(H) = Len(g) /\ DOMAIN H = 1..Len(g) /\ \A i \in 1..Len(g) : H[i] = HeadPair(args, g[i])
  BY HeadPairsAre
<1>4. \A p : Kind(HeadPair(args, p)) = "pair"
  BY DEF HeadPair, Pair, Kind
<1> HIDE DEF old, new, t, H, g
<1>5. t \in Seq(E) /\ Len(t) = Len(old) + Len(new) + 3 /\ Len(old) \in Nat /\ Len(new) \in Nat
  <2> DEFINE F == Range(old) \cup Range(new)
  <2>1. old \in Seq(Range(old)) /\ new \in Seq(Range(new))
    BY <1>2 DEF Valued
  <2>2. Range(old) \subseteq F /\ Range(new) \subseteq F /\ E = F \cup {SearchMark, Separator, ReplaceMark}
    OBVIOUS
  <2> HIDE DEF F, E
  <2>3. old \in Seq(F) /\ new \in Seq(F)
    BY <2>1, <2>2, SeqWider
  <2>4. t \in Seq(E) /\ EditLaidOut(t, old, new, Len(old), Len(new))
    BY <2>2, <2>3, EditLinesAre DEF t
  <2>5. Len(t) = Len(old) + Len(new) + 3
    BY <2>4 DEF EditLaidOut
  <2>6. Len(old) \in Nat /\ Len(new) \in Nat
    BY <2>1
  <2> QED BY <2>4, <2>5, <2>6
<1>6. H \in Seq(G) /\ t \in Seq(G)
  <2>1. Range(H) \subseteq G /\ E \subseteq G
    OBVIOUS
  <2> HIDE DEF G, E
  <2> QED BY <1>3, <1>5, <2>1, SeqWider
<1> HIDE DEF E, G, u
<1>7. u \in Seq(G) /\ Joined(u, H, t)
  BY <1>6, JoinIs DEF u
<1>8. Len(u) = Len(H) + Len(t) /\ Len(H) \in Nat /\ \A i \in 1..Len(H) : u[i] = H[i]
  BY <1>3, <1>7 DEF Joined
<1>9. Len(u) = Len(H) + Len(old) + Len(new) + 3 /\ Len(u) > 0
  BY <1>5, <1>8
<1>10. u # <<>>
  BY <1>7, <1>9, NonEmpty
<1>11. FilledLines(spec, args) = u
  BY <1>1, <1>10 DEF OrEmpty
<1>12. \A i \in 1..Len(H) : Kind(u[i]) = "pair"
  BY <1>3, <1>4, <1>8
<1> QED BY <1>8, <1>9, <1>11, <1>12 DEF old, new

\* Lines that close a fence stay in a value as they are, and none is put into it.
LEMMA ValueShuts ==
  ASSUME NEW args, AreArguments(args), NEW p, NEW ticks, NEW l, Shuts(l, ticks)
  PROVE  l \in Range(Value(args, p)) <=> p \in DOMAIN args /\ l \in Range(args[p])
<1> DEFINE v == Value(args, p)
<1>1. Valued(v, args, p)
  BY ValueIs
<1> HIDE DEF v
<1>2. Kind(l) = "close"
  BY DEF Shuts
<1>3. l # Blank
  BY <1>2 DEF Kind, Blank
<1>4. DOMAIN v = 1..Len(v) /\ Range(v) = {v[i] : i \in 1..Len(v)}
  BY <1>1 DEF Valued, Range
<1>5. CASE p \notin DOMAIN args
  <2>1. v = EmptyText
    BY <1>1, <1>5 DEF Valued
  <2>2. Range(EmptyText) = {Blank}
    BY DEF EmptyText, Range
  <2> QED BY <1>3, <1>5, <2>1, <2>2 DEF v
<1>6. CASE p \in DOMAIN args
  <2> DEFINE w == args[p]
  <2>1. w \in Seq(Range(w)) /\ Len(v) = Len(w) /\ \A i \in 1..Len(v) : v[i] = w[i] \/ (Kind(v[i]) = "text" /\ Kind(w[i]) = "numeral")
    BY <1>1, <1>6 DEF Valued
  <2> HIDE DEF w
  <2>2. Range(w) = {w[i] : i \in 1..Len(v)}
    <3>1. DOMAIN w = 1..Len(v)
      BY <2>1
    <3> QED BY <3>1 DEF Range
  <2>3. l \in Range(v) => l \in Range(w)
    BY <1>2, <1>4, <2>1, <2>2
  <2>4. l \in Range(w) => l \in Range(v)
    BY <1>2, <1>4, <2>1, <2>2
  <2> QED BY <1>6, <2>3, <2>4 DEF v, w
<1> QED BY <1>5, <1>6

\* A value that is shown has a line that closes the fence.
Cut(spec, args, ticks) == \E p \in ShownIn(spec) \cap DOMAIN args : \E l \in Range(args[p]) : Shuts(l, ticks)

LEMMA FilledCut ==
  ASSUME NEW spec, FenceShape(spec), NEW args, AreArguments(args), ShortHeaders(spec, args), NEW ticks
  PROVE  Cut(spec, args, ticks) <=> \E j \in 1..Len(FilledLines(spec, args)) : Shuts(FilledLines(spec, args)[j], ticks)
<1> DEFINE X == FilledLines(spec, args)
           K == ShownLines(spec, args)
           E == FenceMarks \cup Headed(spec, args) \cup K
<1>1. X \in Seq(E) /\ K \subseteq Range(X)
  BY FilledShort
<1>2. \A l \in FenceMarks \cup Headed(spec, args) : ~Shuts(l, ticks)
  BY DEF FenceMarks, Headed, HeadPair, Pair, Blank, SearchMark, Separator, ReplaceMark, Shuts, Kind
<1>3. \A l : Shuts(l, ticks) => (l \in K <=> \E p \in ShownIn(spec) \cap DOMAIN args : l \in Range(args[p]))
  <2> SUFFICES ASSUME NEW l, Shuts(l, ticks) PROVE l \in K <=> \E p \in ShownIn(spec) \cap DOMAIN args : l \in Range(args[p])
    OBVIOUS
  <2>1. \A p : l \in Range(Value(args, p)) <=> p \in DOMAIN args /\ l \in Range(args[p])
    BY ValueShuts
  <2> QED BY <2>1 DEF ShownLines
<1> HIDE DEF X, K
<1>4. Cut(spec, args, ticks) <=> \E l \in K : Shuts(l, ticks)
  BY <1>3 DEF Cut
<1>5. DOMAIN X = 1..Len(X) /\ Range(X) \subseteq E
  <2> HIDE DEF E
  <2> QED BY <1>1 DEF Range
<1>6. (\E l \in K : Shuts(l, ticks)) => \E j \in 1..Len(X) : Shuts(X[j], ticks)
  BY <1>1, <1>5 DEF Range
<1>7. ASSUME NEW j \in 1..Len(X), Shuts(X[j], ticks) PROVE \E l \in K : Shuts(l, ticks)
  <2>1. X[j] \in E
    <3> HIDE DEF E
    <3> QED BY <1>5 DEF Range
  <2>2. X[j] \in K
    BY <1>2, <1>7, <2>1
  <2> QED BY <1>7, <2>2
<1> QED BY <1>4, <1>6, <1>7 DEF X

\* When the calls of an answer are the call that its fence was laid out for.
ComesBack(spec, args, ticks) == Returns(spec, args) /\ ShortHeaders(spec, args) /\ ~Cut(spec, args, ticks)

\* An answer: no fence is opened before the one the call is in.
Laid(lines, specs, before, spec, args, ticks, a) ==
  /\ a \in Nat /\ ticks \in Nat
  /\ ReadBy(specs, spec) /\ spec.name \in DOMAIN specs /\ specs[spec.name] = spec
  /\ AreArguments(args) /\ DOMAIN args \subseteq PlacesOf(spec)
  /\ FenceText(lines, before, ticks, spec.name, FilledLines(spec, args), a, Len(FilledLines(spec, args)))
  /\ \A i \in 1..a : Kind(lines[i]) # "open"

\* Where the call's fence is in it, and what the scan has from there on.
LEMMA LaidIs ==
  ASSUME NEW E, NEW lines \in Seq(E), NEW specs, NEW before, NEW spec, NEW args, NEW ticks, NEW a,
         Laid(lines, specs, before, spec, args, ticks, a), NEW F, ScanRun(F, lines, specs)
  PROVE  LET X == FilledLines(spec, args)
             o == a + 1
         IN  /\ Len(X) \in Nat /\ o \in 1..Len(lines) /\ Len(lines) = o + Len(X) + 1
             /\ FenceSeen(lines, specs, o, Len(X), X, ticks, spec.name)
             /\ F[1].calls = F[o].calls
<1> DEFINE X == FilledLines(spec, args)
           m == Len(X)
           o == a + 1
<1>1. m \in Nat
  <2>1. X \in Seq(FenceLines(spec, args))
    BY FilledIsLines DEF Laid, ReadBy
  <2> QED BY <2>1
<1>2. Len(lines) = a + m + 2
  BY DEF Laid, FenceText
<1> HIDE DEF m
<1>3. a \in Nat /\ ticks \in Nat
  BY DEF Laid
<1>4. o \in 1..Len(lines) /\ Len(lines) = o + m + 1 /\ a \in 0..Len(lines)
  BY <1>1, <1>2, <1>3
<1>5. FenceSeen(lines, specs, o, m, X, ticks, spec.name)
  <2>1. FenceText(lines, before, ticks, spec.name, X, a, m) /\ spec.name \in DOMAIN specs
    BY DEF Laid, m
  <2> HIDE DEF X
  <2> QED BY <1>1, <1>3, <2>1, FenceIsSeen
<1>6. F[1].calls = F[o].calls
  <2>1. \A i \in 1..a : Kind(lines[i]) # "open"
    BY DEF Laid
  <2> QED BY <1>4, <2>1, ScanSkips
<1> QED BY <1>1, <1>4, <1>5, <1>6 DEF m

\* A call that is carried is the one that is found.
LEMMA CarriedFound ==
  ASSUME NEW E, NEW lines \in Seq(E), NEW specs, NEW before, NEW spec, NEW args, NEW ticks, NEW a,
         Laid(lines, specs, before, spec, args, ticks, a), NEW F, ScanRun(F, lines, specs),
         ComesBack(spec, args, ticks)
  PROVE  F[1].calls = <<[name |-> spec.name, args |-> args]>>
<1> DEFINE X == FilledLines(spec, args)
           m == Len(X)
           o == a + 1
           call == [name |-> spec.name, args |-> args]
           n == Len(lines)
<1>0. FenceShape(spec) /\ AreArguments(args) /\ DOMAIN args \subseteq PlacesOf(spec) /\ specs[spec.name] = spec
  BY DEF Laid, ReadBy
<1>1. /\ m \in Nat /\ o \in 1..n /\ n = o + m + 1 /\ FenceSeen(lines, specs, o, m, X, ticks, spec.name)
      /\ F[1].calls = F[o].calls
  BY LaidIs
<1>2. X # <<>>
  BY <1>0, FilledIsLines
<1>3. \A j \in 1..m : ~Shuts(X[j], ticks)
  BY <1>0, FilledCut DEF ComesBack
<1>4. ParseFencedInner(spec, X) = {args}
  BY <1>0, InnerReturns DEF ComesBack
<1>5. SubSeq(lines, a + 2, a + m + 1) = X
  BY DEF Laid, FenceText
<1> HIDE DEF X, m, n
<1>6. OpensAt(lines, specs, o) /\ lines[o][3] = spec.name /\ ClosesAt(lines, o) = o + m + 1
  BY <1>1, <1>3 DEF FenceSeen
<1>7. InsideAt(lines, o) = X
  <2>1. o + 1 = a + 2 /\ (o + m + 1) - 1 = a + m + 1
    BY <1>1 DEF Laid
  <2> QED BY <1>2, <1>5, <1>6, <2>1 DEF InsideAt, OrEmpty
<1>8. FoundAt(lines, specs, o) = {args}
  BY <1>0, <1>4, <1>6, <1>7 DEF FoundAt
<1>9. CallAt(lines, specs, o) = call
  <2>1. (CHOOSE x \in {args} : TRUE) = args
    OBVIOUS
  <2> QED BY <1>0, <1>6, <1>8, <2>1 DEF CallAt
<1>10. AfterAt(lines, specs, o) = n + 1
  BY <1>1, <1>6 DEF AfterAt
<1> DEFINE rest == F[n + 1].calls
<1>11. rest = <<>> /\ F[o].calls = <<call>> \o rest
  <2>1. F[o].calls = <<CallAt(lines, specs, o)>> \o F[AfterAt(lines, specs, o)].calls
    BY <1>1, <1>6, <1>8 DEF ScanRun, n
  <2>2. rest = <<>>
    BY DEF ScanRun, n
  <2> HIDE DEF call
  <2> QED BY <1>9, <1>10, <2>1, <2>2
<1>12. <<call>> \o <<>> = <<call>>
  <2> HIDE DEF call
  <2>1. <<call>> \in Seq({call})
    BY SingletonSeq
  <2> QED BY <2>1, ConcatEmptySeq
<1> HIDE DEF call, rest
<1> QED BY <1>1, <1>11, <1>12 DEF call

\* An edit that is found behind another fence has less room than the one that was cut.
LEMMA CutEditGone ==
  ASSUME NEW E, NEW lines \in Seq(E), NEW specs, NEW before, NEW spec, NEW args, NEW ticks, NEW a,
         Laid(lines, specs, before, spec, args, ticks, a), ShortHeaders(spec, args), HasEdit(spec),
         NEW j \in 1..Len(FilledLines(spec, args)), Shuts(FilledLines(spec, args)[j], ticks),
         NEW F, ScanRun(F, lines, specs),
         NEW i \in 1..Len(lines), i > ClosesAt(lines, a + 1), OpensAt(lines, specs, i), FoundAt(lines, specs, i) # {},
         CallAt(lines, specs, i) = [name |-> spec.name, args |-> args]
  PROVE  FALSE
<1> DEFINE X == FilledLines(spec, args)
           m == Len(X)
           o == a + 1
           c == ClosesAt(lines, o)
           n == Len(lines)
           inner == InsideAt(lines, i)
           z == Len(inner)
           old == Value(args, spec.edit[1])
           new == Value(args, spec.edit[2])
           x == Len(old)
           y == Len(new)
<1>0. FenceShape(spec) /\ AreArguments(args) /\ ReadBy(specs, spec)
  BY DEF Laid, ReadBy
<1>1. m \in Nat /\ o \in 1..n /\ n = o + m + 1 /\ FenceSeen(lines, specs, o, m, X, ticks, spec.name)
  BY LaidIs
<1>2. PICK k \in Nat : m = k + x + y + 3 /\ \A q \in 1..k : Kind(X[q]) = "pair"
  BY <1>0, EditFilled
<1>3. EditValues(spec, args, inner)
  BY <1>0, HitReads
<1>4. z \in Nat /\ (z <= 1 \/ z <= n - i - 1)
  <2>1. inner \in Seq(E \cup {Blank}) /\ (z <= 1 \/ z <= n - i - 1)
    BY InsideIs
  <2> HIDE DEF inner
  <2> QED BY <2>1
<1>5. Valued(old, args, spec.edit[1]) /\ Valued(new, args, spec.edit[2])
  BY <1>0, ValueIs
<1>6. i > c
  OBVIOUS
<1> HIDE DEF X, m, c, n, inner, z, old, new
<1>7. x \in Nat /\ y \in Nat /\ x + y + 3 <= z
  <2>1. spec.edit[1] \in DOMAIN args /\ spec.edit[2] \in DOMAIN args
        /\ Len(args[spec.edit[1]]) + Len(args[spec.edit[2]]) + 3 <= z
    BY <1>3 DEF EditValues, z
  <2>2. x = Len(args[spec.edit[1]]) /\ y = Len(args[spec.edit[2]]) /\ x \in Nat /\ y \in Nat
    BY <1>5, <2>1 DEF Valued
  <2> HIDE DEF x, y
  <2> QED BY <2>1, <2>2
<1> HIDE DEF x, y
<1>8. c \in (o + 1)..(o + m + 1) /\ Shuts(lines[c], ticks) /\ c <= o + j
  BY <1>1 DEF FenceSeen, c, X, m
<1>9. j \in 1..m
  BY DEF m, X
<1>10. \A q \in 1..m : lines[o + q] = X[q]
  BY DEF Laid, FenceText, X, m
<1>11. c > o + k
  <2> SUFFICES ASSUME c <= o + k PROVE FALSE
    BY <1>1, <1>8
  <2> HIDE DEF o
  <2>1. c - o \in 1..k /\ c - o \in 1..m /\ o + (c - o) = c
    <3>1. o \in Nat /\ m \in Nat /\ j \in Nat /\ j <= m /\ c \in Nat /\ o + 1 <= c
      BY <1>1, <1>8, <1>9
    <3>2. c <= o + k /\ c <= o + j
      BY <1>8
    <3> QED BY <3>1, <3>2
  <2>2. Kind(lines[c]) = "pair"
    BY <1>2, <1>10, <2>1
  <2> QED BY <1>8, <2>2 DEF Shuts
<1> HIDE DEF o
<1> QED BY <1>1, <1>2, <1>4, <1>6, <1>7, <1>8, <1>11

\* A call that is found is the one of its fence, and carried.
LEMMA FoundCarried ==
  ASSUME NEW E, NEW lines \in Seq(E), NEW specs, NEW before, NEW spec, NEW args, NEW ticks, NEW a,
         Laid(lines, specs, before, spec, args, ticks, a), NEW F, ScanRun(F, lines, specs),
         F[1].calls = <<[name |-> spec.name, args |-> args]>>
  PROVE  ComesBack(spec, args, ticks)
<1> DEFINE X == FilledLines(spec, args)
           m == Len(X)
           o == a + 1
           call == [name |-> spec.name, args |-> args]
           n == Len(lines)
           c == ClosesAt(lines, o)
           found == FoundAt(lines, specs, o)
<1>0. FenceShape(spec) /\ AreArguments(args) /\ DOMAIN args \subseteq PlacesOf(spec) /\ ReadBy(specs, spec) /\ specs[spec.name] = spec
  BY DEF Laid, ReadBy
<1>1. /\ m \in Nat /\ o \in 1..n /\ n = o + m + 1 /\ FenceSeen(lines, specs, o, m, X, ticks, spec.name)
      /\ F[1].calls = F[o].calls
  BY LaidIs
<1>2. OpensAt(lines, specs, o) /\ lines[o][3] = spec.name /\ c \in (o + 1)..n
  BY <1>1 DEF FenceSeen
<1>3. AfterAt(lines, specs, o) = c + 1
  BY <1>2 DEF AfterAt
\* The first call from a line on is of a fence there.
<1>4. ASSUME NEW q \in 1..(n + 1), F[q].calls = <<call>>
      PROVE  \E i \in q..n : OpensAt(lines, specs, i) /\ FoundAt(lines, specs, i) # {} /\ CallAt(lines, specs, i) = call
  <2> HIDE DEF call
  <2>1. F[q].calls \in Seq(CallsFrom(lines, specs, q))
    BY ScanCalls DEF n
  <2>2. call \in CallsFrom(lines, specs, q)
    <3> DEFINE S == CallsFrom(lines, specs, q)
    <3>1. <<call>> \in Seq(S)
      BY <1>4, <2>1
    <3> HIDE DEF S
    <3>2. <<call>>[1] \in S
      BY <3>1
    <3> QED BY <3>2 DEF S
  <2> QED BY <2>2 DEF CallsFrom, HitsFrom, n
<1>5. \A i \in 1..n : OpensAt(lines, specs, i) /\ FoundAt(lines, specs, i) # {} /\ CallAt(lines, specs, i) = call =>
        HeaderValues(spec, args) /\ ShownValues(spec, args, InsideAt(lines, i)) /\ args \in FoundAt(lines, specs, i)
  BY <1>0, HitReads
<1>6. F[1].calls = <<call>> /\ F[o].calls = <<call>>
  BY <1>1
<1> HIDE DEF X, m, call, n, c, found
<1>7. ShortHeaders(spec, args)
  <2>1. PICK i \in 1..n : OpensAt(lines, specs, i) /\ FoundAt(lines, specs, i) # {} /\ CallAt(lines, specs, i) = call
    <3>1. 1 \in 1..(n + 1)
      BY <1>1
    <3> QED BY <1>4, <1>6, <3>1
  <2>2. HeaderValues(spec, args)
    BY <1>5, <2>1
  <2> QED BY <2>2 DEF HeaderValues, ShortHeaders
<1>8. found # {} => CallAt(lines, specs, o) = call
  <2> HAVE found # {}
  <2> DEFINE rest == F[c + 1].calls
             here == CallAt(lines, specs, o)
             S == CallsFrom(lines, specs, 1)
  <2>1. F[o].calls = <<here>> \o rest
    BY <1>1, <1>2, <1>3 DEF ScanRun, n, found
  <2>2. rest \in Seq(S) /\ here \in S
    <3>1. c + 1 \in 1..(n + 1)
      BY <1>1, <1>2
    <3>2. rest \in Seq(S)
      BY <3>1 DEF ScanRun, n
    <3>3. o \in HitsFrom(lines, specs, 1)
      BY <1>1, <1>2 DEF HitsFrom, n, found
    <3> QED BY <3>2, <3>3 DEF CallsFrom
  <2> HIDE DEF rest, here, S
  <2>3. (<<here>> \o rest)[1] = here
    BY <2>2, LineBefore
  <2>4. <<call>>[1] = call
    OBVIOUS
  <2> QED BY <1>6, <2>1, <2>3, <2>4 DEF here
<1>9. ~Cut(spec, args, ticks)
  <2> SUFFICES ASSUME Cut(spec, args, ticks) PROVE FALSE
    OBVIOUS
  <2>1. PICK j \in 1..m : Shuts(X[j], ticks)
    BY <1>0, <1>7, FilledCut DEF m, X
  <2>2. CASE found # {}
    <3>1. ShownValues(spec, args, InsideAt(lines, o))
      BY <1>1, <1>2, <1>5, <1>8, <2>2 DEF found
    <3>2. PICK p \in ShownIn(spec) \cap DOMAIN args : \E l \in Range(args[p]) : Shuts(l, ticks)
      BY DEF Cut
    <3>3. PICK l \in Range(args[p]) : Shuts(l, ticks)
      BY <3>2
    <3>4. l \in Range(InsideAt(lines, o)) \/ l = Blank
      BY <3>1 DEF ShownValues
    <3>5. l # Blank
      BY <3>3 DEF Shuts, Kind, Blank
    <3>6. PICK q \in (o + 1)..(c - 1) : l = lines[q]
      <4>1. \A k \in Range(InsideAt(lines, o)) : k = Blank \/ \E q \in (o + 1)..(c - 1) : k = lines[q]
        BY <1>1, <1>2, InsideIs DEF n, c
      <4> QED BY <3>4, <3>5, <4>1
    <3>7. ~Shuts(lines[q], ticks)
      BY <1>1 DEF FenceSeen, c
    <3> QED BY <3>3, <3>6, <3>7
  <2>3. CASE found = {}
    <3>1. HasEdit(spec)
      <4>1. \A given, rest : spec.edit = <<>> => MeaningOf(spec, given, rest) # {}
        BY DEF MeaningOf
      <4>2. found = ParseFencedInner(spec, InsideAt(lines, o))
        BY <1>0, <1>2 DEF found, FoundAt
      <4>3. spec.edit = <<>> => found # {}
        BY <4>1, <4>2, InnerIs
      <4> QED BY <2>3, <4>3 DEF HasEdit
    <3>2. F[c + 1].calls = <<call>>
      <4>1. F[o].calls = F[c + 1].calls
        BY <1>1, <1>3, <2>3 DEF ScanRun, n, found
      <4> QED BY <1>6, <4>1
    <3>3. c + 1 \in 1..(n + 1)
      BY <1>1, <1>2
    <3>4. PICK i \in (c + 1)..n : OpensAt(lines, specs, i) /\ FoundAt(lines, specs, i) # {} /\ CallAt(lines, specs, i) = call
      BY <1>4, <3>2, <3>3
    <3>5. i \in 1..n /\ i > c
      BY <1>1, <1>2
    <3> QED BY <1>7, <2>1, <3>1, <3>4, <3>5, CutEditGone DEF n, m, X, c, call
  <2> QED BY <2>2, <2>3
<1>10. Returns(spec, args)
  <2>1. \A j \in 1..m : ~Shuts(X[j], ticks)
    BY <1>0, <1>7, <1>9, FilledCut DEF m, X
  <2>2. c = n
    BY <1>1, <2>1 DEF FenceSeen, c
  <2>3. found # {}
    <3> SUFFICES ASSUME found = {} PROVE FALSE
      OBVIOUS
    <3>1. F[o].calls = F[n + 1].calls
      BY <1>1, <1>3, <2>2 DEF ScanRun, n, found
    <3> DEFINE none == F[n + 1].calls
    <3>2. none = <<>>
      BY DEF ScanRun, n
    <3> HIDE DEF none
    <3>3. <<call>> # <<>>
      OBVIOUS
    <3> QED BY <1>6, <3>1, <3>2, <3>3 DEF none
  <2>4. args \in found
    BY <1>1, <1>2, <1>5, <1>8, <2>3 DEF found
  <2>5. InsideAt(lines, o) = X
    <3>1. X # <<>>
      BY <1>0, FilledIsLines DEF X
    <3>2. SubSeq(lines, a + 2, a + m + 1) = X
      BY DEF Laid, FenceText, X, m
    <3>3. o + 1 = a + 2 /\ c - 1 = a + m + 1
      BY <1>1, <2>2 DEF Laid
    <3> QED BY <3>1, <3>2, <3>3 DEF InsideAt, OrEmpty, c
  <2>6. args \in ParseFencedInner(spec, X)
    BY <1>0, <1>2, <2>4, <2>5 DEF found, FoundAt
  <2> QED BY <1>0, <1>7, <2>6, InnerReturns DEF X
<1> QED BY <1>7, <1>9, <1>10 DEF ComesBack

-----------------------------------------------------------------------------
(* Fences carry calls. *)

\* What FenceCarries says is what comes back.
LEMMA CarriesIs ==
  ASSUME NEW spec, FenceShape(spec), NEW args, AreArguments(args), DOMAIN args \subseteq PlacesOf(spec), NEW ticks \in Nat,
         \A p \in DOMAIN args : \A l \in Range(args[p]) : Kind(l) = "close" => l[2] \in Nat
  PROVE  FenceCarries(spec, args, ticks) <=> ComesBack(spec, args, ticks)
<1> DEFINE whole == \A p \in DOMAIN args \cap ({spec.body} \cup Range(spec.edit)) : NoClose(args[p], ticks)
           short == \A i \in DOMAIN spec.headers : spec.headers[i] \in DOMAIN args => Len(args[spec.headers[i]]) = 1
           bodied == spec.edit = <<>> /\ spec.body # "" => spec.body \in DOMAIN args /\ ~Mistaken(spec, args)
           edited == spec.edit # <<>> => EditSurvives(spec, args)
<1>1. FenceCarries(spec, args, ticks) <=> Unchanged(args) /\ whole /\ short /\ bodied /\ edited
  <2>1. Mistaken(spec, args) <=>
          /\ spec.headers # <<>> /\ \A i \in DOMAIN spec.headers : spec.headers[i] \notin DOMAIN args
          /\ \/ Head(Value(args, spec.body)) = Blank /\ Len(Value(args, spec.body)) > 1
             \/ Kind(Head(Value(args, spec.body))) = "pair" /\ \E i \in DOMAIN spec.headers : spec.headers[i] = Head(Value(args, spec.body))[2]
    BY DEF Mistaken, IsHeaderOf
  <2>2. EditSurvives(spec, args) <=>
          /\ \A k \in 1..2 : spec.edit[k] \in DOMAIN args /\ WithoutLead(args[spec.edit[k]]) = args[spec.edit[k]]
          /\ \A i \in 2..Len(Value(args, spec.edit[1])) : Value(args, spec.edit[1])[i] # Separator
          /\ \A i \in 2..Len(Value(args, spec.edit[2])) : Value(args, spec.edit[2])[i] # ReplaceMark
    <3>1. 1..2 = {1, 2}
      OBVIOUS
    <3>2. (\A k \in 1..2 : spec.edit[k] \in DOMAIN args /\ WithoutLead(args[spec.edit[k]]) = args[spec.edit[k]]) <=>
            /\ spec.edit[1] \in DOMAIN args /\ WithoutLead(args[spec.edit[1]]) = args[spec.edit[1]]
            /\ spec.edit[2] \in DOMAIN args /\ WithoutLead(args[spec.edit[2]]) = args[spec.edit[2]]
      BY <3>1
    <3> QED BY <3>2, Zenon DEF EditSurvives
  <2> HIDE DEF whole, short
  <2> QED BY <2>1, <2>2, Zenon DEF FenceCarries, Unchanged, whole, short
<1>2. short <=> ShortHeaders(spec, args)
  BY DEF ShortHeaders, Range
<1>3. whole <=> ~Cut(spec, args, ticks)
  <2>1. "" \notin DOMAIN args
    <3>1. "" \notin Range(spec.headers)
      BY DEF FenceShape
    <3>2. "" \notin Range(spec.edit)
      <4>1. CASE spec.edit = <<>>
        BY <4>1, EmptyRange
      <4>2. CASE HasEdit(spec)
        <5>1. Range(spec.edit) = {spec.edit[1], spec.edit[2]}
          <6>1. spec.edit = <<spec.edit[1], spec.edit[2]>>
            BY <4>2 DEF FenceShape, HasEdit
          <6> QED BY <6>1, PairOf
        <5> QED BY <4>2, <5>1 DEF FenceShape, HasEdit
      <4> QED BY <4>1, <4>2 DEF HasEdit
    <3> QED BY <3>1, <3>2 DEF PlacesOf
  <2>2. DOMAIN args \cap ({spec.body} \cup Range(spec.edit)) = ShownIn(spec) \cap DOMAIN args
    BY <2>1 DEF ShownIn
  <2>3. ASSUME NEW p \in DOMAIN args PROVE NoClose(args[p], ticks) <=> \A l \in Range(args[p]) : ~Shuts(l, ticks)
    <3>1. NoClose(args[p], ticks) <=> \A l \in Range(args[p]) : Kind(l) = "close" => l[2] < ticks
      BY DEF NoClose, Range
    <3>2. \A l \in Range(args[p]) : (Kind(l) = "close" => l[2] < ticks) <=> ~Shuts(l, ticks)
      <4> TAKE l \in Range(args[p])
      <4>1. Kind(l) = "close" => l[2] \in Nat
        OBVIOUS
      <4>2. Kind(l) = "close" => (l[2] < ticks <=> ~(l[2] >= ticks))
        BY <4>1
      <4> QED BY <4>2 DEF Shuts
    <3> QED BY <3>1, <3>2
  <2> QED BY <2>2, <2>3 DEF Cut
<1> HIDE DEF whole, short
<1> QED BY <1>1, <1>2, <1>3 DEF ComesBack, Returns

\* With no stray JSON call for the arguments, the calls of an answer are its fences'.
LEMMA StrayIs ==
  ASSUME NEW E, NEW lines \in Seq(E), NEW tools, NEW name, NEW args,
         \A l \in E : Kind(l) = "json" => l[4] # args, tools # <<>>
  PROVE  LET call == [name |-> name, args |-> args]
         IN  ParseToolCalls(lines, tools).calls = <<call>> <=> ParseFencedToolCalls(lines, SpecMap(tools)).calls = <<call>>
<1> DEFINE specs == SpecMap(tools)
           fenced == ParseFencedToolCalls(lines, specs)
           Json(key) == Only(lines, {l \in Range(lines) : Kind(l) = "json" /\ l[2] = key})
           stray == IF Json("tool") # <<>> THEN Json("tool") ELSE Json("name")
           Resolved(n) == IF n \in DOMAIN specs THEN specs[n].name ELSE n
           calls == [i \in DOMAIN stray |-> [name |-> Resolved(stray[i][3]), args |-> stray[i][4]]]
           call == [name |-> name, args |-> args]
           parsed == ParseToolCalls(lines, tools).calls
<1>1. IF fenced.calls # <<>> THEN parsed = fenced.calls ELSE parsed = calls
  <2> HIDE DEF fenced, calls
  <2>1. \/ fenced.calls # <<>> /\ parsed = fenced.calls
        \/ fenced.calls = <<>> /\ calls = <<>> /\ parsed = <<>>
        \/ fenced.calls = <<>> /\ parsed = calls
    BY DEF ParseToolCalls, fenced, calls
  <2> QED BY <2>1
<1>2. \A key : Range(Json(key)) \subseteq {l \in Range(lines) : Kind(l) = "json"}
  <2> TAKE key
  <2> DEFINE wanted == {l \in Range(lines) : Kind(l) = "json" /\ l[2] = key}
  <2>1. Range(Only(lines, wanted)) = Range(lines) \cap wanted
    <3> HIDE DEF wanted
    <3> QED BY OnlySound
  <2> QED BY <2>1
<1>3. Range(stray) \subseteq {l \in Range(lines) : Kind(l) = "json"}
  <2> HIDE DEF Json
  <2> QED BY <1>2
<1>4. Range(lines) \subseteq E
  BY DEF Range
<1> HIDE DEF stray, Resolved
<1>5. \A i \in DOMAIN calls : calls[i].args # args
  <2> TAKE i \in DOMAIN calls
  <2>1. stray[i] \in Range(stray) /\ calls[i].args = stray[i][4]
    BY DEF Range
  <2> QED BY <1>3, <1>4, <2>1
<1> HIDE DEF calls, fenced
<1>6. calls # <<call>>
  <2> SUFFICES ASSUME calls = <<call>> PROVE FALSE
    OBVIOUS
  <2>1. 1 \in DOMAIN <<call>> /\ <<call>>[1].args = args
    OBVIOUS
  <2> HIDE DEF call
  <2> QED BY <1>5, <2>1
<1>7. fenced.calls = <<>> => fenced.calls # <<call>>
  <2> DEFINE none == <<>>
  <2>1. none # <<call>>
    OBVIOUS
  <2> HIDE DEF none, call
  <2>2. fenced.calls = none => fenced.calls # <<call>>
    BY <2>1
  <2> QED BY <2>2 DEF none
<1> HIDE DEF call, parsed
<1> QED BY <1>1, <1>6, <1>7 DEF fenced, parsed, call

LEMMA LinesAssumed ==
  \A lines \in Prefaces \cup UNION {Range(args) : args \in Meant} : \A l \in Range(lines) :
    (Kind(l) = "close" => l[2] \in Nat) /\ (Kind(l) = "json" => l[4] \notin Meant)
BY FencesAssumption, Zenon

LEMMA NoneOpened == \A lines \in Prefaces : \A l \in Range(lines) : Kind(l) # "open"
BY FencesAssumption, Zenon

\* What is assumed of what the model may mean, at one catalog and one call.
LEMMA CatalogIs ==
  ASSUME NEW tools \in Catalogs, NEW tool \in Range(tools), NEW args \in Arguments[tool.name]
  PROVE  /\ IsCatalog(tools) /\ IsDeclared(tool) /\ AreArguments(args) /\ DOMAIN args \subseteq Range(tool.props)
         /\ args \in Meant
<1>1. /\ tools \in Seq(Range(tools)) /\ \A i, j \in DOMAIN tools : tools[i].name = tools[j].name => i = j
      /\ \A t \in Range(tools) : IsInjective(t.props) /\ "" \notin Range(t.props)
      /\ DOMAIN args \subseteq Range(tool.props)
  BY FencesAssumption
<1>2. (\A t \in Range(tools) : IsTool(t)) /\ tool.name \in DOMAIN Arguments
  BY ExchangeAssumption
<1>3. IsArgs(args) /\ \A p \in DOMAIN args : IsText(args[p]) /\ args[p] # <<>>
  BY <1>2, ExchangeAssumption
<1>4. AreArguments(args)
  BY <1>3 DEF AreArguments
<1>5. IsCatalog(tools) /\ IsDeclared(tool)
  BY <1>1, <1>2 DEF IsCatalog, IsDeclared
<1>6. args \in Meant
  BY <1>2 DEF Meant
<1> QED BY <1>1, <1>4, <1>5, <1>6

\* No line of an answer is a stray JSON call for what is meant.
LEMMA LinesAreOthers ==
  ASSUME NEW tools \in Catalogs, NEW tool \in Range(tools), NEW args \in Arguments[tool.name]
  PROVE  /\ \A l \in FenceLines(FenceSpec(tool), args) : Kind(l) = "json" => l[4] # args
         /\ \A p \in DOMAIN args : \A l \in Range(args[p]) : Kind(l) = "close" => l[2] \in Nat
<1> DEFINE spec == FenceSpec(tool)
<1>1. AreArguments(args) /\ args \in Meant
  BY CatalogIs
<1>2. \A p \in DOMAIN args : \A l \in Range(args[p]) : (Kind(l) = "close" => l[2] \in Nat) /\ (Kind(l) = "json" => l[4] # args)
  <2>1. \A p \in DOMAIN args : args[p] \in UNION {Range(x) : x \in Meant}
    BY <1>1 DEF Range
  <2>2. \A p \in DOMAIN args : \A l \in Range(args[p]) : (Kind(l) = "close" => l[2] \in Nat) /\ (Kind(l) = "json" => l[4] \notin Meant)
    BY <2>1, LinesAssumed, Zenon
  <2> QED BY <1>1, <2>2, Zenon
<1>3. \A l \in FenceMarks \cup Headed(spec, args) : Kind(l) # "json"
  BY DEF FenceMarks, Headed, HeadPair, Pair, Blank, SearchMark, Separator, ReplaceMark, Kind
<1>4. ASSUME NEW p, NEW l \in Range(Value(args, p)), Kind(l) = "json" PROVE l[4] # args
  <2> DEFINE v == Value(args, p)
  <2>1. Valued(v, args, p)
    BY <1>1, ValueIs
  <2>2. l \in Range(v)
    OBVIOUS
  <2> HIDE DEF v
  <2>3. PICK i \in 1..Len(v) : l = v[i]
    BY <2>1, <2>2 DEF Valued, Range
  <2>4. p \in DOMAIN args
    <3> SUFFICES ASSUME p \notin DOMAIN args PROVE FALSE
      OBVIOUS
    <3>1. v = EmptyText
      BY <2>1 DEF Valued
    <3>2. \A k \in Range(EmptyText) : Kind(k) # "json"
      BY DEF EmptyText, Range, Blank, Kind
    <3> QED BY <1>4, <2>2, <3>1, <3>2
  <2> DEFINE w == args[p]
  <2>5. w \in Seq(Range(w)) /\ Len(v) = Len(w) /\ v[i] = w[i]
    BY <1>4, <2>1, <2>3, <2>4 DEF Valued
  <2>6. l \in Range(w)
    <3> HIDE DEF w
    <3>1. i \in DOMAIN w
      BY <2>3, <2>5
    <3> QED BY <2>3, <2>5, <3>1 DEF Range
  <2> QED BY <1>2, <1>4, <2>4, <2>6
<1>5. \A l \in FenceLines(spec, args) : Kind(l) = "json" => l[4] # args
  BY <1>3, <1>4 DEF FenceLines
<1> QED BY <1>2, <1>5

\* M365's answer with a call has that call, and no other, if the fence carries it.
LEMMA AnswerCarried ==
  ASSUME NEW tools \in Catalogs, NEW preface \in Prefaces, NEW ticks \in 3..4, NEW tool \in Range(tools),
         NEW args \in Arguments[tool.name]
  PROVE  LET lines == preface \o WithTicks(RenderFencedCall(FenceSpec(tool), args), ticks)
         IN  ParseToolCalls(lines, tools).calls = <<[name |-> tool.name, args |-> args]>> <=>
               FenceCarries(FenceSpec(tool), args, ticks)
<1> DEFINE spec == FenceSpec(tool)
           specs == SpecMap(tools)
           lines == preface \o WithTicks(RenderFencedCall(spec, args), ticks)
           E == Range(preface) \cup FenceLines(spec, args) \cup {Open(ticks, spec.name), Close(ticks)}
           X == FilledLines(spec, args)
           a == Len(preface)
           call == [name |-> tool.name, args |-> args]
<1>1. IsCatalog(tools) /\ IsDeclared(tool) /\ AreArguments(args) /\ DOMAIN args \subseteq Range(tool.props) /\ args \in Meant
  BY CatalogIs
<1>2. FenceShape(spec) /\ spec.name = tool.name /\ DOMAIN args \subseteq PlacesOf(spec)
  BY <1>1, FenceShapes
<1>3. spec.name \in DOMAIN specs /\ specs[spec.name] = spec /\ ReadBy(specs, spec)
  <2>1. /\ tool.name \in DOMAIN specs /\ specs[tool.name] = spec
        /\ \A n \in DOMAIN specs : specs[n].name = tool.name => specs[n] = spec
    BY <1>1, SpecMapIs
  <2> HIDE DEF spec, specs
  <2> QED BY <1>2, <2>1 DEF ReadBy
<1>4. /\ preface \in Seq(Range(preface)) /\ a \in Nat
      /\ \A l \in Range(preface) : Kind(l) # "open" /\ (Kind(l) = "json" => l[4] # args)
  <2>1. IsText(preface)
    BY ExchangeAssumption
  <2>2. preface \in Seq(Range(preface))
    BY <2>1 DEF IsText
  <2>3. \A l \in Range(preface) : Kind(l) # "open"
    BY NoneOpened
  <2>4. \A l \in Range(preface) : Kind(l) = "json" => l[4] \notin Meant
    BY LinesAssumed
  <2>5. a \in Nat
    BY <2>2
  <2> QED BY <1>1, <2>2, <2>3, <2>4, <2>5, Zenon
<1>5. /\ \A l \in FenceLines(spec, args) : Kind(l) = "json" => l[4] # args
      /\ \A p \in DOMAIN args : \A l \in Range(args[p]) : Kind(l) = "close" => l[2] \in Nat
  BY LinesAreOthers
<1> HIDE DEF spec, specs
<1>6. \A l \in E : Kind(l) = "json" => l[4] # args
  <2>1. Kind(Open(ticks, spec.name)) # "json" /\ Kind(Close(ticks)) # "json"
    BY DEF Open, Close, Kind
  <2> QED BY <1>4, <1>5, <2>1
<1>7. preface \in Seq(E) /\ FenceLines(spec, args) \subseteq E /\ Open(ticks, spec.name) \in E /\ Close(ticks) \in E
  <2>1. Range(preface) \subseteq E /\ FenceLines(spec, args) \subseteq E /\ Open(ticks, spec.name) \in E /\ Close(ticks) \in E
    OBVIOUS
  <2> HIDE DEF E
  <2> QED BY <1>4, <2>1, SeqWider
<1> HIDE DEF E
<1>8. lines \in Seq(E) /\ FenceText(lines, preface, ticks, spec.name, X, a, Len(X))
  BY <1>1, <1>2, <1>7, TextIs
<1> HIDE DEF lines, X
<1>9. Laid(lines, specs, preface, spec, args, ticks, a)
  <2>1. ASSUME NEW i \in 1..a PROVE Kind(lines[i]) # "open"
    <3>1. lines[i] = preface[i]
      BY <1>8 DEF FenceText
    <3>2. preface[i] \in Range(preface)
      BY <1>4 DEF Range
    <3> QED BY <1>4, <3>1, <3>2
  <2>2. ticks \in Nat
    OBVIOUS
  <2> QED BY <1>1, <1>2, <1>3, <1>4, <1>8, <2>1, <2>2 DEF Laid, X
<1>10. PICK F : ParseFencedToolCalls(lines, specs) = F[1] /\ ScanRun(F, lines, specs)
  BY <1>8, FencedRun
<1> DEFINE named == [name |-> spec.name, args |-> args]
<1>11. F[1].calls = <<named>> <=> ComesBack(spec, args, ticks)
  <2>1. ComesBack(spec, args, ticks) => F[1].calls = <<named>>
    BY <1>8, <1>9, <1>10, CarriedFound
  <2>2. F[1].calls = <<named>> => ComesBack(spec, args, ticks)
    BY <1>8, <1>9, <1>10, FoundCarried
  <2> QED BY <2>1, <2>2
<1>12. ComesBack(spec, args, ticks) <=> FenceCarries(spec, args, ticks)
  BY <1>1, <1>2, <1>5, CarriesIs
<1>13. tools # <<>>
  <2> SUFFICES ASSUME tools = <<>> PROVE FALSE
    OBVIOUS
  <2>1. Range(tools) = {}
    BY EmptyRange
  <2> QED BY <2>1
<1>14. ParseToolCalls(lines, tools).calls = <<call>> <=> ParseFencedToolCalls(lines, specs).calls = <<call>>
  BY <1>6, <1>8, <1>13, StrayIs DEF specs
<1>15. named = call
  BY <1>2
<1> HIDE DEF named, call
<1> QED BY <1>10, <1>11, <1>12, <1>14, <1>15 DEF lines, spec, call

\* Only a call that M365 means is compared with what is found, and it is set as the
\* answer is parsed: what the model meant in its fence is what the client is asked to run,
\* but for the kinds of arguments that FenceCarries names, which never come back.
THEOREM FencesAreCarried == Spec => []FencesCarry
<1>1. Init => FencesCarry
  BY DEF Init, FencesCarry
<1>2. FencesCarry /\ [Next]_vars => FencesCarry'
  <2> SUFFICES ASSUME FencesCarry, [Next]_vars PROVE FencesCarry'
    OBVIOUS
  <2>1. ASSUME NEW tools, NEW lines, NEW parsed, Parsed(tools, lines, <<>>, parsed) PROVE FencesCarry'
    <3>1. data'.meant = <<>>
      BY <2>1 DEF Parsed, To
    <3> QED BY <3>1 DEF FencesCarry
  <2>2. CASE AnswerCall
    <3>1. PICK tools \in Catalogs, preface \in Prefaces, ticks \in 3..4 : \E tool \in Range(tools) :
            \E args \in Arguments[tool.name] :
              LET lines == preface \o WithTicks(RenderFencedCall(FenceSpec(tool), args), ticks)
              IN  Parsed(tools, lines, <<[tool |-> tool, args |-> args, ticks |-> ticks]>>, ParseToolCalls(lines, tools))
      BY <2>2 DEF AnswerCall
    <3>2. PICK tool \in Range(tools) : \E args \in Arguments[tool.name] :
              LET lines == preface \o WithTicks(RenderFencedCall(FenceSpec(tool), args), ticks)
              IN  Parsed(tools, lines, <<[tool |-> tool, args |-> args, ticks |-> ticks]>>, ParseToolCalls(lines, tools))
      BY <3>1
    <3>3. PICK args \in Arguments[tool.name] :
              LET lines == preface \o WithTicks(RenderFencedCall(FenceSpec(tool), args), ticks)
              IN  Parsed(tools, lines, <<[tool |-> tool, args |-> args, ticks |-> ticks]>>, ParseToolCalls(lines, tools))
      BY <3>2
    <3> DEFINE lines == preface \o WithTicks(RenderFencedCall(FenceSpec(tool), args), ticks)
               meant == [tool |-> tool, args |-> args, ticks |-> ticks]
               parsed == ParseToolCalls(lines, tools)
    <3>4. parsed.calls = <<[name |-> tool.name, args |-> args]>> <=> FenceCarries(FenceSpec(tool), args, ticks)
      BY AnswerCarried
    <3>5. meant.tool = tool /\ meant.args = args /\ meant.ticks = ticks
      OBVIOUS
    <3>6. Parsed(tools, lines, <<meant>>, parsed)
      BY <3>3
    <3> HIDE DEF lines, meant, parsed
    <3>7. data'.meant = <<meant>> /\ data'.parsed = parsed
      BY <3>6 DEF Parsed, To
    <3>8. data'.meant[1] = meant
      BY <3>7
    <3> QED BY <3>4, <3>5, <3>7, <3>8 DEF FencesCarry
  <2>3. CASE AnswerFreely
    BY <2>1, <2>3 DEF AnswerFreely
  <2>4. CASE Orient
    BY <2>1, <2>4 DEF Orient
  <2>5. ASSUME stage' # "parsed" PROVE FencesCarry'
    BY <2>5 DEF FencesCarry
  <2>6. CASE Arrive
    BY <2>5, <2>6 DEF Arrive, To, Answered
  <2>7. CASE Choose
    BY <2>5, <2>7 DEF Choose, To, Answered
  <2>8. CASE Format
    BY <2>5, <2>8 DEF Format, Prompted, To
  <2>9. CASE Ship \/ Done
    BY <2>5, <2>9 DEF Ship, Done, To
  <2>10. CASE Fail
    BY <2>5, <2>10 DEF Fail, To
  <2>11. CASE Deliver
    BY <2>5, <2>11 DEF Deliver, To, Answered
  <2>12. CASE UpstreamAnswers \/ Chunk \/ UpstreamEnds
    BY <2>5, <2>12 DEF UpstreamAnswers, Chunk, UpstreamEnds, To, Answered
  <2>13. CASE UNCHANGED vars
    BY <2>13 DEF vars, FencesCarry
  <2> QED BY <2>2, <2>3, <2>4, <2>6, <2>7, <2>8, <2>9, <2>10, <2>11, <2>12, <2>13 DEF Next
<1> QED BY <1>1, <1>2, PTL DEF Spec
=============================================================================
