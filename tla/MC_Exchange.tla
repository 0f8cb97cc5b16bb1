---------------------------- MODULE MC_Exchange ----------------------------
EXTENDS Exchange

T(s) == <<Plain(s)>>
N(s) == <<<<"numeral", s>>>>
-----------------------------------------------------------------------------
MCHttpRequests ==
  [method : {"GET", "POST", "OPTIONS"}, path : Reads \cup Turns \cup {"prompt", "elsewhere", "/v1/messages/count_tokens"},
   browser : BOOLEAN, key : BOOLEAN, json : BOOLEAN, valid : BOOLEAN, profile : {"", "claude-wide", "unknown"}]

MCClaudeNames == {"claude-sonnet", "claude-opus", "claude-opus-5", "claude-fable", "claude-next"}
MCHaikuNames == {"haiku", "claude-haiku"}

\* No aliases, a broken file before a good one with the environment over it, and an
\* alias that hides a model.
MCSettings ==
  LET setting == [files |-> <<>>, aliases |-> <<>>, profile |-> "", prompt |-> NoSpec, corpora |-> <<>>, disk |-> <<>>, routes |-> <<>>]
      corpora == << <<>>, "codex-cli" :> "You are Codex." >>
  IN  {setting,
       [setting EXCEPT !.files = << <<"broken">>, <<"object", "work" :> "codex" @@ "mine" :> "claude-opus">> >>,
                       !.aliases = "work" :> "gpt-5.4" @@ "lost" :> "nothing", !.profile = "claude-diagnose",
                       !.corpora = corpora, !.prompt = <<"name", "codex-cli">>],
       [setting EXCEPT !.aliases = "gpt-5.5" :> "claude-opus" @@ "work" :> "gpt-5.5", !.profile = "unknown", !.corpora = corpora,
                       !.disk = "/etc/prompt" :> "Be brief.",
                       !.routes = <<[names |-> {"codex", "work"}, candidates |-> <<"codex", "codex-cli">>]>>]}

Tool(name, props, required, types) ==
  [name |-> name, props |-> props, required |-> required, types |-> types, closed |-> TRUE, compiles |-> TRUE]
Bash == Tool("bash", <<"command", "timeout">>, <<"command">>, "command" :> "text" @@ "timeout" :> "number")
Write == Tool("write", <<"file_path", "content">>, <<"file_path", "content">>, "file_path" :> "text" @@ "content" :> "text")
Edit == Tool("edit", <<"path", "old_string", "new_string">>, <<"path", "old_string", "new_string">>,
             "path" :> "text" @@ "old_string" :> "text" @@ "new_string" :> "text")
Glob == [Tool("glob", <<"pattern">>, <<"pattern">>, "pattern" :> "text") EXCEPT !.closed = FALSE]
Todo == Tool("todoread", <<>>, <<>>, <<>>)
SubAgent == Tool("Task", <<"prompt">>, <<"prompt">>, "prompt" :> "text")
Terse == Tool("terminal", <<"script">>, <<"script">>, "script" :> "text")
ReplyTool == Tool("reply", <<"text">>, <<"text">>, "text" :> "text")
MCCatalogs == {<<Bash, Write>>, <<Edit, Glob>>, <<Todo>>, <<Terse, ReplyTool>>, <<Glob, Bash, Edit, ReplyTool>>}

Ask(name, tools, prompt, vision) == [name |-> name, tools |-> tools, prompt |-> prompt, vision |-> vision]
Names == DOMAIN CANONICAL_MODELS \cup DOMAIN MODEL_ALIASES \cup {"", "claude-fable", "claude-next", "work", "mine", "lost", "other"}

\* All is well; a first fallback serves, or a whole chain is out; a second one serves.
MCOutages ==
  {{}, {"claude-opus", "claude-sonnet-think-deeper", "gpt-5.5"},
   {"claude-opus", "claude-sonnet-think-deeper", "claude-sonnet"}}
MCAsks ==
  {Ask(name, <<Bash, Write>>, NoSpec, FALSE) : name \in Names}
  \cup {Ask("codex", <<Glob, Glob>>, NoSpec, FALSE), Ask("codex", <<[Todo EXCEPT !.compiles = FALSE]>>, NoSpec, FALSE),
        Ask("work", <<>>, <<"bare", "">>, TRUE)}
  \cup {Ask("codex", <<Bash, SubAgent>>, prompt, TRUE) :
          prompt \in {EmptyHeader, <<"bare", "">>, <<"bare", "/etc/prompt">>, <<"name", "codex-cli">>, <<"path", "/none">>}}
-----------------------------------------------------------------------------
Turn(role, content) == [role |-> role, content |-> content]
Use(id, name) == <<"use", id, name>>
Result(id) == <<"result", id, "out of " \o id>>
Say(t) == <<"text", t>>

\* Results in time, late, doubled, orphaned, in parallel, between texts and images.
Contents == {<<Result("a")>>, <<Result("a"), Result("b")>>, <<Result("b"), Say("and"), Result("a")>>,
             <<Say("look"), Result("a")>>, <<<<"other">>, Result("b"), <<"image", "png">>>>, <<>>}
Calling == {<<Use("a", "bash")>>, <<Say("so"), Use("a", "bash"), Use("b", "glob")>>}
Answering == Calling \cup {<<<<"thinking", "hm">>, Say("no")>>, <<>>}
MCHistories ==
  {<<Turn("user", <<Say("do")>>), Turn("assistant", a), Turn("user", u)>> : a \in Answering, u \in Contents}
  \cup {<<Turn("assistant", a), Turn("user", u), Turn("user", v)>> : a \in Calling, u \in Contents, v \in {<<Say("go on")>>, <<Result("b")>>}}
  \cup {<<Turn("system", <<Say("be")>>), Turn("user", <<Say("do")>>)>>}
MCMessages ==
  {<<Message("user", <<"do">>, <<>>, NoId), Message("assistant", <<>>, <<[id |-> "a", name |-> "bash"]>>, NoId),
     Message("tool", <<"out">>, <<>>, id)>> : id \in {"a", "z"}}
MCToolChoices == {<<"auto">>, <<"any">>, <<"none">>, <<"tool", "bash">>}
MCFramings == {"softened", "delegating", "claude-code", "reply_tool"}
-----------------------------------------------------------------------------
\* Values with several lines, blank lines, backticks, and lines like headers and markers.
Values ==
  {T("x"), <<Plain("x"), Blank, Plain("y")>>, <<Blank, Plain("x")>>, <<Blank>>,
   <<Plain("x"), Close(3), Plain("y")>>, <<Pair("file_path", Plain("x")), Plain("y")>>,
   <<Pair("timeout", Plain("x"))>>, <<Plain("x"), Separator>>, <<ReplaceMark, SearchMark, Plain("y")>>, <<Open(3, "bash"), Plain("y")>>}
Brief == {T("x"), <<Plain("x"), Plain("y")>>, N("7")}
MCArguments ==
  [name \in {"bash", "write", "edit", "glob", "todoread", "terminal", "reply"} |->
    CASE name = "bash" -> {"command" :> v : v \in Values} \cup {"command" :> v @@ "timeout" :> w : v \in Values, w \in {T("5"), N("5")}}
      [] name = "write" -> {"file_path" :> v @@ "content" :> w : v \in Brief, w \in Values} \cup {"content" :> w : w \in Values} \cup {"file_path" :> T("x")}
      [] name = "edit" -> {"path" :> T("x") @@ "old_string" :> v @@ "new_string" :> w : v \in Values, w \in Values}
                          \cup {"path" :> T("x") @@ "old_string" :> v : v \in Values}
      [] name = "glob" -> {"pattern" :> v : v \in Values}
      [] name = "todoread" -> {<<>>}
      [] name = "terminal" -> {"script" :> v : v \in Values}
      [] name = "reply" -> {"text" :> v : v \in Values}]

Json(name, args) == JsonCall("tool", name, args)
MCPrefaces == {<<>>, <<Plain("I will"), Blank>>, <<Json("bash", "cmd" :> T("ls")), Confidence>>}

\* Prose, documents, calls in the fence of a shell, unclosed and mistaken fences, stray
\* JSON calls with other names for the properties, and replies.
MCAnswers ==
  LET script == <<Open(3, "sh"), Plain("ls"), Close(3)>>
      long == <<Open(4, "bash"), Plain("ls"), Close(3), Close(4)>>
      heredoc == <<<<"heredoc", "EOF">>, Plain("x")>>
      closed == heredoc \o <<<<"tag", "EOF">>>>
  IN  {T("done"), <<Final("done")>>, <<Confidence, Plain("done")>>,
       script, long, script \o long, <<<<"heading", "Use">>>> \o script \o script, script \o script \o script \o script,
       <<Open(3, "bash"), Plain("ls")>>, <<Open(3, "python"), Plain("x"), Close(3)>>,
       <<Open(3, "bash")>> \o heredoc \o <<Close(3)>>, <<Open(3, "bash")>> \o closed \o <<Close(3)>>,
       <<Open(3, "edit"), Pair("path", Plain("x")), SearchMark, Plain("x"), Close(3)>>,
       <<Open(3, "reply"), Plain("hello"), Close(3)>>, <<Open(3, "reply"), Plain("hello"), Close(3)>> \o script,
       <<Json("bash", "cmd" :> T("ls"))>>, <<Json("bash", "cmd" :> T("ls") @@ "script" :> T("pwd"))>>,
       <<Json("bash", "command" :> <<<<"heredoc", "EOF">>, <<"return">>, Plain("x"), <<"return">>, Blank>>)>>,
       <<Json("bash", "command" :> N("5"))>>, <<JsonCall("name", "bash", Malformed)>>, <<JsonCall("name", "reply", Malformed)>>, <<Json("bash", <<>>)>>, <<Json("sh", "command" :> T("ls"))>>,
       <<Json("bash", "command" :> T("ls") @@ "cmd" :> T("pwd"))>>,
       <<Json("write", "path" :> T("x") @@ "content" :> T("y"))>>, <<Json("write", "filepath" :> T("x") @@ "content" :> T("y"))>>,
       <<Json("glob", "pattern" :> T("x") @@ "regex" :> T("y"))>>, <<Json("glob", "query" :> T("x"))>>,
       <<Json("unknown", <<>>)>>, <<JsonCall("name", "todoread", <<>>)>>, <<Json("reply", "message" :> T("hi")), Plain("so")>>}
-----------------------------------------------------------------------------
MCSignals ==
  [content : {FALSE}, message : {"Disengaged", "ReferencesListComplete", "none"}, throttle : {"none", "below", "full"},
   failed : BOOLEAN, elapsed : {"instant", "fast", "slow"}]
MCCodes == DOMAIN ProxyErrors \cup {"none"}

Piece(slot, name, args) == [slot |-> slot, name |-> name, args |-> args]
MCChunks ==
  {[text |-> <<"p">>, calls |-> <<>>, finish |-> ""], [text |-> <<>>, calls |-> <<>>, finish |-> "tool_calls"],
   [text |-> <<"q">>, calls |-> <<Piece(1, "bash", <<"c">>)>>, finish |-> "length"]}
  \cup {[text |-> <<>>, calls |-> <<Piece(slot, name, args)>>, finish |-> ""] :
          slot \in 0..1, name \in {Unnamed, "glob"}, args \in {<<>>, <<"w">>, <<"k", "p">>}}

MCSpelling ==
  [n \in {"command", "timeout", "path", "content", "old_string", "new_string", "pattern", "script", "text",
          "cmd", "regex", "query", "message", "filepath"} |-> n] @@ "file_path" :> "filepath"
MCBodyNames == {"command", "content", "code", "body", "script", "text", "query", "input", "patch", "cmd", "data", "contents"}
MCSearchNames == {"old", "search", "find", "old_str", "old_string", "target"}
MCReplaceNames == {"new", "replace", "replacement", "new_str", "new_string"}
MCCommandNames == {"command", "cmd", "script", "input"}
MCShellNames == {"bash", "sh", "shell", "run", "terminal"}
MCShellLangs == {"bash", "sh", "shell", "console"}
MCListToolNames == {"glob", "ls"}
=============================================================================
