---------------------------- MODULE CallRepair ----------------------------
(***************************************************************************)
(* What a parsed call goes through before the client gets it: the guards   *)
(* of produceCompletion (packages/proxy-lib/src/handler.ts) and the tool   *)
(* registry (packages/proxy-lib/src/tool-registry.ts).                     *)
(*                                                                         *)
(* A tool is [name, props, required, types, closed]: sequences of property *)
(* names, a function from some of them to "text" or "number", and whether  *)
(* other properties are refused and the schema compiles.  A call is        *)
(* [name, args].  A value is a sequence of lines (ToolFence), a number one *)
(* line of its own kind, and arguments that are no JSON are Malformed.     *)
(* Names are in lower case.                                                *)
(***************************************************************************)
EXTENDS Selection

CONSTANTS
  Spelling,       \* names to what is left of them without punctuation
  ShellToolNames, \* SHELL_TOOL_NAME
  ListToolNames   \* LIST_TOOL_NAME

Numeral(n) == <<<<"numeral", n>>>>
IsNumeral(v) == Len(v) = 1 /\ v[1][1] = "numeral"
Malformed == [malformed |-> <<<<"blank">>>>]

AliasGroups ==
  {{"path", "file_path", "filepath"}, {"command", "cmd", "script"},
   {"pattern", "regex", "query"}, {"directory", "dir", "folder"}}

\* aliasScore: the same spelling is better than the same meaning.
AliasScore(source, target) ==
  IF Spelling[source] = Spelling[target] THEN 2
  ELSE IF \E g \in AliasGroups : {source, target} \subseteq g THEN 1 ELSE 0

\* The constructor of ToolSchemaRegistry: names are unique, schemas compile.
DefinitionErrors(tools) ==
  {i \in DOMAIN tools : \/ \E j \in 1..i - 1 : tools[j].name = tools[i].name
                        \/ ~tools[i].compiles}

\* What ajv says of arguments.
Validates(tool, args) ==
  /\ args # Malformed
  /\ Range(tool.required) \subseteq DOMAIN args
  /\ \A p \in DOMAIN args \cap DOMAIN tool.types : IsNumeral(args[p]) <=> tool.types[p] = "number"
  /\ tool.closed => DOMAIN args \subseteq Range(tool.props)

Renamed(args, source, target) ==
  [p \in (DOMAIN args \ {source}) \cup {target} |-> IF p = target THEN args[source] ELSE args[p]]

Missing_Any(tool, args) == tool.required
Missing(tool, args) == Only(tool.required, Range(tool.required) \ DOMAIN args)

\* repairPropertyAliases: each missing property takes the one unknown property that may
\* be meant, unless none or several may.
Candidates(tool, args, known, target) ==
  {p \in DOMAIN known \ Range(tool.props) : p \in DOMAIN args /\ AliasScore(p, target) > 0}

Take(tool, args, known, target) ==
  LET candidates == Candidates(tool, args, known, target) IN
  IF Cardinality(candidates) # 1 THEN known ELSE Renamed(known, CHOOSE p \in candidates : TRUE, target)

RepairPropertyAliases(tool, args) ==
  LET missing == Missing(tool, args)
      taken[i \in 0..Len(missing)] == IF i = 0 THEN args ELSE Take(tool, args, taken[i - 1], missing[i])
  IN  taken[Len(missing)]

\* validateAndRepair: the call as it is or repaired, or nothing.
ValidateAndRepair(tools, call) ==
  LET declared == {i \in DOMAIN tools : tools[i].name = call.name}
      tool == tools[CHOOSE i \in declared : TRUE]
      repaired == RepairPropertyAliases(tool, call.args)
  IN  IF declared = {} \/ call.args = Malformed THEN {}
      ELSE IF Validates(tool, call.args) THEN {call}
      ELSE IF repaired # call.args /\ Validates(tool, repaired) THEN {[call EXCEPT !.args = repaired]}
      ELSE {}
-----------------------------------------------------------------------------
\* repairBashCommands: a carriage return is a line <<"return">> after the line it ends.
\* All go, and the first here-document, if it has a next line, is closed.
RepairedCommand(lines) ==
  LET fixed == SelectSeq(lines, LAMBDA l : l # <<"return">>)
      openings == {i \in 1..Len(fixed) - 1 : fixed[i][1] = "heredoc"}
      opening == CHOOSE i \in openings : \A j \in openings : i <= j
      tag == <<"tag", fixed[opening][2]>>
      whole == IF Last(fixed) = <<"blank">> THEN Front(fixed) ELSE fixed
  IN  IF openings = {} \/ \E i \in opening + 1..Len(fixed) : fixed[i] = tag THEN fixed
      ELSE whole \o <<tag, <<"blank">>>>

RepairBash(call) ==
  IF call.name # "bash" \/ call.args = Malformed \/ "command" \notin DOMAIN call.args THEN call
  ELSE IF IsNumeral(call.args["command"]) THEN call
  ELSE [call EXCEPT !.args["command"] = RepairedCommand(@)]
-----------------------------------------------------------------------------
\* makeOrientationToolCall: a read-only look around with a tool the client has.
CommandParams == <<"command", "cmd", "script", "input">>
PathParams == {"path", "dir", "directory", "pattern", "glob"}
FirstAmong(s, S) == LET hits == Only(s, S) IN IF hits = <<>> THEN <<>> ELSE <<hits[1]>>

FindShellTool(tools) ==
  LET named == SelectSeq(tools, LAMBDA t : t.name \in ShellToolNames)
      lone == SelectSeq(tools, LAMBDA t : Len(t.props) = 1 /\ t.props[1] \in Range(CommandParams))
  IN  IF named # <<>> THEN <<named[1]>> ELSE IF lone # <<>> THEN <<lone[1]>> ELSE <<>>

ShellCommandParam(tool) ==
  LET known == FirstAmong(CommandParams, Range(tool.props)) IN
  IF known # <<>> THEN known ELSE IF Len(tool.props) = 1 THEN tool.props ELSE <<>>

Call(name, param, lines) == {[name |-> name, args |-> [p \in {param} |-> lines]]}

OrientationCall(tools, choice) ==
  LET shell == FindShellTool(tools)
      elsewhere == choice[1] = "function" /\ choice[2] # shell[1].name /\ choice[2] \notin ShellToolNames
      list == SelectSeq(tools, LAMBDA t : t.name \in ListToolNames)
      at == FirstAmong(list[1].props, PathParams) \o list[1].props
      target == <<<<"text", IF at[1] \in {"pattern", "glob"} THEN "*" ELSE ".">>>>
  IN  IF tools = <<>> \/ (shell # <<>> /\ elsewhere) THEN {}
      ELSE IF shell # <<>> /\ ShellCommandParam(shell[1]) # <<>>
           THEN Call(shell[1].name, ShellCommandParam(shell[1])[1], <<<<"text", "pwd && ls -la">>>>)
      ELSE IF list # <<>>
           THEN IF list[1].props = <<>> THEN {[name |-> list[1].name, args |-> <<>>]}
                ELSE Call(list[1].name, at[1], target)
      ELSE IF tools[1].required # <<>> THEN {}
      ELSE {[name |-> tools[1].name, args |-> <<>>]}
-----------------------------------------------------------------------------
\* isProseDocument, as produceCompletion calls it: without the names of the tools.
IsProseDocument(parsed) ==
  /\ Len(parsed.calls) >= 2
  /\ Len(parsed.calls) >= 4 \/ \E i \in DOMAIN parsed.text : parsed.text[i][1] \in {"heading", "essay"}

\* The text of a lone reply call, or the whole answer if it has none.
ReplyText(call, full) ==
  LET said == IF call.args = Malformed THEN <<>>
              ELSE FirstAmong(<<"text", "message", "content">>, {p \in DOMAIN call.args : call.args[p] # <<<<"blank">>>>})
  IN  IF said = <<>> THEN full ELSE call.args[said[1]]

Text(lines) == [kind |-> "text", text |-> lines]
ToolCalls(calls) == [kind |-> "tools", calls |-> calls]
Refusal(status) == [kind |-> "error", status |-> status]

\* The end of produce: documents and replies are text, else what is left of the calls is
\* repaired, and one call the registry refuses refuses them all.
Produced(parsed, full, tools, single) ==
  LET replies == Only(parsed.calls, {c \in Range(parsed.calls) : c.name = "reply"})
      real == Only(parsed.calls, {c \in Range(parsed.calls) : c.name # "reply"})
      kept == IF single THEN <<RepairBash(real[1])>> ELSE [i \in DOMAIN real |-> RepairBash(real[i])]
      checked == [i \in DOMAIN kept |-> ValidateAndRepair(tools, kept[i])]
  IN  IF parsed.calls = <<>> \/ IsProseDocument(parsed) THEN Text(full)
      ELSE IF real = <<>> THEN Text(ReplyText(replies[1], full))
      ELSE IF \E i \in DOMAIN checked : checked[i] = {} THEN Refusal(422)
      ELSE ToolCalls([i \in DOMAIN checked |-> CHOOSE c \in checked[i] : TRUE])
-----------------------------------------------------------------------------
\* One call is another with some values under other names that were missing: every
\* value is there, none is new, and what was given under a declared name stayed.
OnlyRenamed(tool, before, after) ==
  /\ after.name = before.name
  /\ \A p \in DOMAIN before.args \cap Range(tool.props) : p \in DOMAIN after.args /\ after.args[p] = before.args[p]
  /\ Cardinality(DOMAIN after.args) = Cardinality(DOMAIN before.args)
  /\ \A p \in DOMAIN after.args \ DOMAIN before.args :
       p \in Range(tool.required) /\ \E q \in DOMAIN before.args \ Range(tool.props) :
         AliasScore(q, p) > 0 /\ before.args[q] = after.args[p]
=============================================================================
