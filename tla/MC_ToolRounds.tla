---------------------------- MODULE MC_ToolRounds ----------------------------
EXTENDS ToolRounds

MCCatalog == <<"Read", "Bash", "Grep", "Glob", "Todo">>
MCAllowed == {"Read", "Bash", "Glob", "Todo"}
MCControl == {"Todo"}

Kind(s, t, r, b, y) ==
  [NoReply EXCEPT !.search = s, !.task = t, !.real = r, !.bad = b, !.reply = y]
\* One of each sort, the mixtures the loops must sort out, documents, moods.
MCReplies ==
  {NoReply, [NoReply EXCEPT !.mood = "confab"], [NoReply EXCEPT !.mood = "halluc"],
   Kind(1, 0, 0, 0, 0), Kind(1, 0, 1, 0, 0), Kind(1, 2, 0, 0, 0), Kind(0, 1, 0, 1, 0),
   Kind(0, 0, 1, 0, 1), Kind(0, 0, 0, 0, 1), [Kind(0, 0, 2, 0, 0) EXCEPT !.long = TRUE]}

\* A fence that arrives in pieces, white space at the start, a header without
\* its fence.
MCFirstTexts ==
  {<<"p", "w", "k", "k", "k", "q">>, <<"w", "p", "q", "p">>, <<"q", "w", "p", "w", "c", "q">>}
MCLaterTexts == {<<"p">>, <<"q", "k", "k", "k", "p">>}

\* Nothing yet, or a tool whose neighbour a search may find and one never shown.
MCFound == {{}, {"Bash", "Grep"}}

Request(live, single, tools, acted, orient, stops) ==
  [live |-> live, single |-> single, tools |-> tools, acted |-> acted, orient |-> orient, stops |-> stops]
MCRequests ==
  {Request(TRUE, FALSE, TRUE, FALSE, FALSE, {}), Request(TRUE, TRUE, TRUE, TRUE, TRUE, {}),
   Request(TRUE, FALSE, FALSE, FALSE, FALSE, {}), Request(FALSE, FALSE, TRUE, FALSE, FALSE, {"q"})}
=============================================================================
