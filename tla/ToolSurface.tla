---------------------------- MODULE ToolSurface ----------------------------
(***************************************************************************)
(* Which of a client's tools M365 is shown: the part of produceCompletion  *)
(* (packages/proxy-lib/src/handler.ts) that filters, promotes, caps and    *)
(* exempts, and what is left over for ToolSearch.  A tool is its name, a   *)
(* catalog a sequence of distinct names: ToolSchemaRegistry has refused    *)
(* duplicates before.                                                      *)
(***************************************************************************)
EXTENDS Selection

CONSTANTS
  Catalog,     \* body.tools
  Allowed,     \* names the profile or M365_ALLOWED_TOOLS lets be advertised; {} for all
  MaxVisible,  \* profile.maxVisibleTools or M365_MAX_TOOLS
  Control,     \* names of Catalog that match CONTROL_TOOL_RE
  SearchLimit  \* profile.toolSearchLimit

ASSUME SurfaceAssumption ==
  /\ Catalog \in Seq(Range(Catalog)) /\ IsInjective(Catalog)
  /\ Allowed \subseteq Range(Catalog) /\ Control \subseteq Range(Catalog)
  /\ MaxVisible \in Nat \ {0} /\ SearchLimit \in Nat

\* dedupeByName: the first of every name.
DedupeByName(s) ==
  LET upto[i \in 0..Len(s)] ==
        IF i = 0 THEN <<>>
        ELSE LET before == upto[i - 1] IN IF Contains(before, s[i]) THEN before ELSE Append(before, s[i])
  IN  upto[Len(s)]

\* The profile's or the operator's allow-list.
Kept == IF Allowed = {} THEN Catalog ELSE Only(Catalog, Allowed)

\* The loop that moves promoted tools to the front: i counts down, while
\* each move shifts everything before i by one.
MovedToFront(kept, promoted) ==
  LET move(s, i) == IF s[i] \in promoted THEN <<s[i]>> \o RemoveAt(s, i) ELSE s
      after[n \in 0..Len(kept)] == IF n = 0 THEN kept ELSE move(after[n - 1], Len(kept) + 1 - n)
  IN  after[Len(kept)]

\* The cap, and the promoted tools behind it.
Capped(kept, promoted) ==
  IF Len(kept) <= MaxVisible THEN kept
  ELSE LET tail == Only(SubSeq(kept, MaxVisible + 1, Len(kept)), promoted)
           both == SubSeq(kept, 1, MaxVisible) \o tail
       IN  SubSeq(both, 1, IF Len(tail) > MaxVisible THEN Len(tail) ELSE MaxVisible)

\* The control tools take their slots out of the cap of the others.
WithControl_NoTrim(advertised) ==
  DedupeByName(Only(Catalog, Control) \o advertised)
WithControl(advertised) ==
  IF Control = {} THEN advertised
  ELSE LET merged == DedupeByName(Only(Catalog, Control) \o advertised)
           others == Only(merged, Range(merged) \ Control)
           slots == MaxVisible - Cardinality(Control)
           keep == {others[i] : i \in {j \in DOMAIN others : j <= slots}}
       IN  Only(merged, Control \cup keep)

Advertised(promoted) ==
  WithControl(Capped(DedupeByName(MovedToFront(Kept, promoted)), promoted))

Deferred(promoted) == Range(Catalog) \ Range(Advertised(promoted))

\* searchDeferredCatalog: the best matches of some query.
Matches(deferred) == {M \in SUBSET deferred : Cardinality(M) <= SearchLimit}
-----------------------------------------------------------------------------
\* The promoted tools the loop never steps over: what follows them in the catalog
\* is not promoted.
Reached(promoted) ==
  {Kept[i] : i \in {j \in DOMAIN Kept :
                      Kept[j] \in promoted /\ (j = Len(Kept) \/ Kept[j + 1] \notin promoted)}}

\* Control tools are always visible, and only they can take the advertised
\* tools above the cap ("the cap applies to the rest"); where there are none,
\* what searches found can, once it is more than the cap.  What they found keeps
\* its slot while the slots suffice, but for the first of two neighbours, and is
\* never cut off altogether, unless the control tools fill the cap.
SurfaceSoundFor(promoted) ==
  LET shown == Advertised(promoted)
      wanted == promoted \cap Range(Kept)
  IN
  /\ Control \subseteq Range(shown)
  /\ IsInjective(shown) /\ Range(shown) \subseteq Range(Catalog)
  /\ \/ Len(shown) <= MaxVisible \/ Range(shown) = Control
     \/ Control = {} /\ Len(shown) <= Cardinality(promoted)
  /\ Cardinality(wanted \cup Control) <= MaxVisible => Reached(promoted) \subseteq Range(shown)
  /\ wanted # {} /\ Cardinality(Control) < MaxVisible => wanted \cap Range(shown) # {}

(* What the comments say, and the code does not do. *)

\* "Promoted (previously discovered) tools always keep their slot": as long as
\* the slots suffice.  Two neighbours that are both promoted do not, since the
\* move of the second shifts the first past the index that comes next.
PromotedShownFor(promoted) ==
  LET wanted == promoted \cap Range(Kept) IN
    Cardinality(wanted \cup Control) <= MaxVisible
      => wanted \subseteq Range(Advertised(promoted))
=============================================================================
