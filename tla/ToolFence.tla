----------------------------- MODULE ToolFence -----------------------------
(***************************************************************************)
(* The tool-call format (packages/core/src/fenced.ts): how a call is put   *)
(* into a Markdown fence and found again in what M365 answers, and the     *)
(* stray JSON calls that are tolerated (packages/core/src/tools.ts).       *)
(*                                                                         *)
(* A text is a sequence of lines, and a line is what the parser tells      *)
(* apart.  A string argument is the non-empty sequence of its lines, a     *)
(* number one <<"numeral", n>>; the first line of a header's value is part *)
(* of the header line.  Carriage returns end lines and are not lines here. *)
(***************************************************************************)
EXTENDS Selection

CONSTANTS
  BodyNames, SearchNames, ReplaceNames,  \* property names with a role
  CommandNames,                          \* names of a lone property that make a tool the shell
  ShellNames, ShellLangs                 \* names of shell tools, and fences that mean one

ASSUME FenceAssumption == SearchNames \cap ReplaceNames = {}

Blank == <<"blank">>
Plain(t) == <<"text", t>>
Pair(key, first) == <<"pair", key, first>>
Open(ticks, info) == <<"open", ticks, info>>
Close(ticks) == <<"close", ticks>>
SearchMark == <<"search">>
Separator == <<"separator">>
ReplaceMark == <<"replace">>
\* key "tool", or "name" in a tool_call fence, whose arguments may be no JSON
JsonCall(key, name, args) == <<"json", key, name, args>>
Confidence == <<"confidence">>
Final(t) == <<"final", t>>

Kind(line) == line[1]
EmptyText == <<Blank>>
-----------------------------------------------------------------------------
(* A tool is [name, props, required, types]; its spec is how a call of it is laid out. *)

FirstIn(names, S) == LET hits == Only(names, S) IN
  IF hits = <<>> THEN "" ELSE hits[1]

\* deriveFencedSpec: an old and a new property make an edit, else a property is the body.
FenceSpec(tool) ==
  LET search == FirstIn(tool.props, SearchNames)
      replace == FirstIn(tool.props, ReplaceNames)
      body == FirstIn(tool.props, BodyNames)
      alone == IF body = "" /\ Len(tool.props) = 1 THEN tool.props[1] ELSE body
      edit == search # "" /\ replace # ""
      used == IF edit THEN {search, replace} ELSE {alone}
  IN  [name |-> tool.name, edit |-> IF edit THEN <<search, replace>> ELSE <<>>,
       body |-> IF edit THEN "" ELSE alone,
       headers |-> Only(tool.props, Range(tool.props) \ used)]

\* The tool that runs commands: by its name, or by its only property.
Shells(tools) ==
  LET named == Only(tools, {t \in Range(tools) : t.name \in ShellNames})
      lone == Only(tools, {t \in Range(tools) : Len(t.props) = 1 /\ t.props[1] \in CommandNames})
  IN  named \o lone

\* buildSpecMap: the tools by name, and the shell by every fence that means a script
\* unless a tool has that name.
SpecMap(tools) ==
  LET names == {tools[i].name : i \in DOMAIN tools}
      routed == IF Shells(tools) = <<>> THEN {} ELSE ShellLangs \ names
      named(n) == tools[CHOOSE i \in DOMAIN tools : tools[i].name = n]
  IN  [n \in names \cup routed |-> FenceSpec(IF n \in names THEN named(n) ELSE Shells(tools)[1])]
-----------------------------------------------------------------------------
(* Rendering: args is a function from some of the properties to their values. *)

\* scalarToString: a number is written as its digits.
ScalarToString(v) == [i \in DOMAIN v |-> IF Kind(v[i]) = "numeral" THEN Plain(v[i][2]) ELSE v[i]]
Value(args, p) == IF p \in DOMAIN args THEN ScalarToString(args[p]) ELSE EmptyText

HeaderLines(spec, args) ==
  LET given == Only(spec.headers, DOMAIN args) IN
  FlattenSeq([i \in DOMAIN given |-> <<Pair(given[i], Head(Value(args, given[i])))>> \o Tail(Value(args, given[i]))])

RenderFencedCall(spec, args) ==
  LET headers == HeaderLines(spec, args)
      lines ==
        IF spec.edit # <<>>
        THEN headers \o <<SearchMark>> \o Value(args, spec.edit[1])
             \o <<Separator>> \o Value(args, spec.edit[2]) \o <<ReplaceMark>>
        ELSE IF spec.body = "" THEN headers
        ELSE headers \o (IF headers = <<>> THEN <<>> ELSE <<Blank>>) \o Value(args, spec.body)
  IN  <<Open(3, spec.name)>> \o (IF lines = <<>> THEN EmptyText ELSE lines) \o <<Close(3)>>
-----------------------------------------------------------------------------
(* Parsing. *)

SmallestOf(S) == CHOOSE n \in S : \A k \in S : n <= k
OrEmpty(lines) == IF lines = <<>> THEN EmptyText ELSE lines
From(lines, i) == OrEmpty(SubSeq(lines, i, Len(lines)))

\* The white space after a marker takes the blank lines below it along, but the last
\* line before the next marker.
WithoutLead(lines) ==
  LET solid == {i \in DOMAIN lines : lines[i] # Blank \/ i = Len(lines)} IN
  SubSeq(lines, SmallestOf(solid), Len(lines))

\* The first search mark that can be completed, each part as short as possible: the
\* two arguments, or nothing if marks are missing.
ParseEdit(rest) ==
  LET places == DOMAIN rest
      fits == {m \in places \X places \X places :
                 /\ rest[m[1]] = SearchMark /\ rest[m[2]] = Separator /\ rest[m[3]] = ReplaceMark
                 /\ m[1] + 1 < m[2] /\ m[2] + 1 < m[3]}
      s == SmallestOf({m[1] : m \in fits})
      p == SmallestOf({m[2] : m \in {f \in fits : f[1] = s}})
      r == SmallestOf({m[3] : m \in {f \in fits : f[1] = s /\ f[2] = p}})
  IN  IF fits = {} THEN {}
      ELSE {<<WithoutLead(SubSeq(rest, s + 1, p - 1)), WithoutLead(SubSeq(rest, p + 1, r - 1))>>}

\* parseFencedInner: known "key: value" lines, the blank line after them, and the rest.
ParseFencedInner(spec, inner) ==
  LET IsHeader(line) == Kind(line) = "pair" /\ \E i \in DOMAIN spec.headers : spec.headers[i] = line[2]
      stops == {i \in DOMAIN inner : ~IsHeader(inner[i])} \cup {Len(inner) + 1}
      stop == IF spec.headers = <<>> THEN 1 ELSE SmallestOf(stops)
      blank == spec.headers # <<>> /\ stop <= Len(inner) /\ inner[stop] = Blank
      keys == {inner[i][2] : i \in 1..stop - 1}
      last(k) == CHOOSE i \in 1..stop - 1 : inner[i][2] = k /\ \A j \in i + 1..stop - 1 : inner[j][2] # k
      given == [k \in keys |-> <<inner[last(k)][3]>>]
      rest == From(inner, IF blank THEN stop + 1 ELSE stop)
  IN  CASE spec.edit # <<>> -> {With(With(given, spec.edit[2], e[2]), spec.edit[1], e[1]) : e \in ParseEdit(rest)}
        [] spec.edit = <<>> /\ spec.body # "" -> {With(given, spec.body, rest)}
        [] OTHER -> {given}

Closings_AnyLength(lines, i) == {j \in i + 1..Len(lines) : Kind(lines[j]) = "close"}

\* The lines that can close the fence opened at i: runs of at least as many backticks.
Closings(lines, i) ==
  {j \in i + 1..Len(lines) : Kind(lines[j]) = "close" /\ lines[j][2] >= lines[i][2]}

\* parseFencedToolCalls: the calls of a text, and what is left of it.
ParseFencedToolCalls(lines, specs) ==
  LET IsOpen(i) == Kind(lines[i]) = "open" /\ lines[i][3] \in DOMAIN specs /\ Closings(lines, i) # {}
      scan[i \in 1..Len(lines) + 1] ==
        IF i > Len(lines) THEN [calls |-> <<>>, left |-> <<>>]
        ELSE IF ~IsOpen(i) THEN [scan[i + 1] EXCEPT !.left = <<lines[i]>> \o @]
        ELSE LET c == SmallestOf(Closings(lines, i))
                 spec == specs[lines[i][3]]
                 found == ParseFencedInner(spec, OrEmpty(SubSeq(lines, i + 1, c - 1)))
             IN  IF found = {} THEN [scan[c + 1] EXCEPT !.left = SubSeq(lines, i, c) \o @]
                 ELSE [scan[c + 1] EXCEPT !.calls =
                         <<[name |-> spec.name, args |-> CHOOSE args \in found : TRUE]>> \o @]
  IN  scan[1]

\* cleanLooseText: invented confidences go, a final answer is unwrapped.
CleanLooseText(lines) ==
  LET kept == SelectSeq(lines, LAMBDA l : Kind(l) # "confidence") IN
  [i \in DOMAIN kept |-> IF Kind(kept[i]) = "final" THEN Plain(kept[i][2]) ELSE kept[i]]

\* parseToolCalls: fences first; only without any, stray JSON calls, the ones with "tool"
\* before the ones in a tool_call fence.  JSON calls take final answers along.
ParseToolCalls(lines, tools) ==
  LET specs == SpecMap(tools)
      fenced == ParseFencedToolCalls(lines, specs)
      Json(key) == Only(lines, {l \in Range(lines) : Kind(l) = "json" /\ l[2] = key})
      stray == IF Json("tool") # <<>> THEN Json("tool") ELSE Json("name")
      Resolved(name) == IF name \in DOMAIN specs THEN specs[name].name ELSE name
      calls == [i \in DOMAIN stray |-> [name |-> Resolved(stray[i][3]), args |-> stray[i][4]]]
  IN  IF tools # <<>> /\ fenced.calls # <<>>
      THEN [calls |-> fenced.calls, text |-> CleanLooseText(fenced.left)]
      ELSE IF calls = <<>> THEN [calls |-> <<>>, text |-> CleanLooseText(lines)]
      ELSE [calls |-> calls, text |-> SelectSeq(lines, LAMBDA l : Kind(l) \notin {"json", "confidence", "final"})]
-----------------------------------------------------------------------------
(* What a fence carries. *)

NoClose(lines, ticks) == \A i \in DOMAIN lines : Kind(lines[i]) = "close" => lines[i][2] < ticks

\* M365 may fence a call with more backticks than it was shown.
WithTicks(call, ticks) == <<Open(ticks, call[1][3])>> \o SubSeq(call, 2, Len(call) - 1) \o <<Close(ticks)>>

\* An argument survives the fence unless it is cut short by a run of backticks, taken
\* for a header or a marker, or loses the lines below its first, its leading blanks or its
\* being a number.
FenceCarries(spec, args, ticks) ==
  LET headerless == \A i \in DOMAIN spec.headers : spec.headers[i] \notin DOMAIN args
      first == Head(Value(args, spec.body))
      mistaken == /\ spec.headers # <<>> /\ headerless
                  /\ \/ first = Blank /\ Len(Value(args, spec.body)) > 1
                     \/ Kind(first) = "pair" /\ \E i \in DOMAIN spec.headers : spec.headers[i] = first[2]
      old == Value(args, spec.edit[1])
      new == Value(args, spec.edit[2])
  IN  /\ \A p \in DOMAIN args : ScalarToString(args[p]) = args[p]
      /\ \A p \in DOMAIN args \cap ({spec.body} \cup Range(spec.edit)) : NoClose(args[p], ticks)
      /\ \A i \in DOMAIN spec.headers : spec.headers[i] \in DOMAIN args => Len(args[spec.headers[i]]) = 1
      /\ spec.edit = <<>> /\ spec.body # "" => spec.body \in DOMAIN args /\ ~mistaken
      /\ spec.edit # <<>> =>
           /\ \A k \in 1..2 : spec.edit[k] \in DOMAIN args /\ WithoutLead(args[spec.edit[k]]) = args[spec.edit[k]]
           /\ \A i \in 2..Len(old) : old[i] # Separator
           /\ \A i \in 2..Len(new) : new[i] # ReplaceMark
=============================================================================
