------------------------- MODULE ConversationProofs -------------------------
(***************************************************************************)
(* What the pool believes M365 was told, it was told, and an answer has    *)
(* the whole history behind it, for any number of overlapping requests,    *)
(* restarts and lost writes, if the requests carry no tools: no turn is    *)
(* rotated and no agent swallows a prompt.  The second part is about       *)
(* requests with tools that do not overlap: what was moved or swallowed is *)
(* told again.                                                             *)
(***************************************************************************)
EXTENDS Conversation, SequenceTheorems, TLAPS

(* What is carried along: how much of the history of a request its M365    *)
(* conversation has been told, or will have been once the prompt is sent.  *)
ToldIn(K, cid, n) == \A i \in 1..n : \E v \in Versions : <<i, v>> \in K[cid]

HeardIn(K, C, q) ==
  /\ q.stage # "idle" => q.mine \in 1..Len(C)
  /\ q.stage = "ready" =>
       \A i \in 1..Len(q.history) : \E v \in Versions : <<i, v>> \in K[C[q.mine].cid] \cup q.text
  /\ q.stage = "streaming" => q.ran = C[q.mine].cid
  /\ q.stage \in {"streaming", "refreshing"} => ToldIn(K, C[q.mine].cid, Len(q.history))
  /\ q.stage = "answered" => q.ran \in 1..MaxCids /\ ToldIn(K, q.ran, Len(q.history))

ToldInv == RecordSound /\ \A r \in Slots : HeardIn(known, conv, req[r])

(* Data. *)

LEMMA HistoryShape ==
  ASSUME NEW h \in Histories
  PROVE  /\ Len(h) \in 1..MaxLen /\ Len(h) \in Nat /\ DOMAIN h = 1..Len(h)
         /\ \A i \in 1..Len(h) : h[i] \in Versions
         /\ Content(h) \subseteq Messages
<1>1. PICK n \in 1..MaxLen : h \in [1..n -> Versions]
  BY DEF Histories
<1>2. n \in Nat
  BY ConversationAssumption
<1>3. h \in Seq(Versions)
  BY <1>1, <1>2, SeqDef
<1>4. DOMAIN h = 1..Len(h) /\ Len(h) \in Nat
  BY <1>3, LenProperties
<1>5. Len(h) = n
  BY <1>1, <1>2, <1>4
<1>6. \A i \in 1..Len(h) : h[i] \in Versions
  BY <1>1, <1>5
<1>7. Content(h) \subseteq Messages
  <2>1. \A i \in 1..Len(h) : i \in 1..MaxLen
    BY <1>1, <1>4, <1>5, ConversationAssumption
  <2> QED
    BY <1>4, <1>6, <2>1 DEF Content, Messages
<1> QED
  BY <1>1, <1>4, <1>5, <1>6, <1>7

LEMMA NothingIsRequest == Nothing \in Requests /\ Nothing.stage = "idle"
<1>1. <<0>> \in Histories
  <2>1. <<0>> \in [1..1 -> Versions]
    BY ConversationAssumption
  <2>2. 1 \in 1..MaxLen
    BY ConversationAssumption
  <2> QED
    BY <2>1, <2>2 DEF Histories
<1>2. 0 \in 0..MaxRetries /\ 0 \in 0..MaxConvs /\ 0 \in 0..MaxCids
  BY ConversationAssumption, RetryAssumption
<1> QED
  BY <1>1, <1>2 DEF Nothing, Requests, Stages, NoConv

\* A prompt is part of the history, and with what was told makes all of it.
LEMMA PromptShape ==
  ASSUME NEW c \in Conversations, NEW h \in Histories
  PROVE  /\ Prompt(c, h) \subseteq Messages
         /\ \A i \in 1..Len(h) : i > c.sent \/ ~c.begun \/ c.sent = 0 => <<i, h[i]>> \in Prompt(c, h)
<1>1. /\ DOMAIN h = 1..Len(h) /\ Content(h) \subseteq Messages
      /\ \A i \in 1..Len(h) : h[i] \in Versions
  BY HistoryShape
<1>2. Prompt(c, h) \subseteq Content(h)
  BY DEF Prompt, Content
<1>3. \A i \in 1..Len(h) : i > c.sent \/ ~c.begun \/ c.sent = 0 => <<i, h[i]>> \in Prompt(c, h)
  BY <1>1 DEF Prompt, Content
<1> QED
  BY <1>1, <1>2, <1>3

LEMMA StoreShape ==
  ASSUME TypeOK
  PROVE  /\ Loaded \in Records \cup {NoRecord} /\ NotLoaded # NoRecord
         /\ NoRecord \notin Records /\ NotLoaded \notin Records
<1>1. \A record \in Records : record.cid # 0
  BY ConversationAssumption DEF Records
<1>2. NoRecord.cid = 0 /\ NotLoaded.cid = 0 /\ NotLoaded.fresh = TRUE /\ NoRecord.fresh = FALSE
  BY DEF NoRecord, NotLoaded
<1> QED
  BY <1>1, <1>2 DEF TypeOK, Loaded

(* Types. *)

\* A conversation that changes in place stays one.
LEMMA ConvExcept ==
  ASSUME TypeOK, NEW k \in 1..Len(conv), NEW c \in Conversations, conv' = [conv EXCEPT ![k] = c]
  PROVE  /\ conv' \in Seq(Conversations) /\ Len(conv') = Len(conv)
         /\ \A j \in 1..Len(conv) : conv'[j] = IF j = k THEN c ELSE conv[j]
BY ExceptSeq DEF TypeOK

LEMMA ConvAppend ==
  ASSUME TypeOK, NEW c \in Conversations, conv' = Append(conv, c)
  PROVE  /\ conv' \in Seq(Conversations) /\ Len(conv') = Len(conv) + 1
         /\ \A j \in 1..Len(conv) : conv'[j] = conv[j]
         /\ conv'[Len(conv) + 1] = c
BY AppendProperties DEF TypeOK

LEMMA TypeFacts ==
  ASSUME TypeOK
  PROVE  /\ Len(conv) \in Nat /\ DOMAIN conv = 1..Len(conv) /\ Len(conv) <= MaxConvs
         /\ \A k \in 1..Len(conv) : /\ conv[k] \in Conversations
                                    /\ conv[k].cid \in 1..MaxCids /\ conv[k].sent \in 0..MaxLen
         /\ \A r \in Slots : /\ req[r] \in Requests /\ req[r].history \in Histories
                             /\ req[r].text \in SUBSET Messages /\ req[r].original \in SUBSET Messages
<1>1. Len(conv) \in Nat /\ DOMAIN conv = 1..Len(conv) /\ Len(conv) <= MaxConvs
  BY LenProperties DEF TypeOK
<1>2. \A k \in 1..Len(conv) : conv[k] \in Conversations
  BY ElementOfSeq DEF TypeOK
<1>3. \A k \in 1..Len(conv) : conv[k].cid \in 1..MaxCids /\ conv[k].sent \in 0..MaxLen
  BY <1>2 DEF Conversations
<1>4. \A r \in Slots : req[r] \in Requests
  BY DEF TypeOK
<1>5. \A r \in Slots : /\ req[r].history \in Histories
                       /\ req[r].text \in SUBSET Messages /\ req[r].original \in SUBSET Messages
  BY <1>4 DEF Requests
<1> QED
  BY <1>1, <1>2, <1>3, <1>4, <1>5

\* A request changes, and nothing of the pool and the store.
LEMMA TypeOfRequest ==
  ASSUME TypeOK, NEW r \in Slots, NEW q \in Requests, req' = [req EXCEPT ![r] = q],
         UNCHANGED <<pool, known, store>>, astray' \in BOOLEAN
  PROVE  TypeOK'
BY DEF TypeOK, pool, store

\* A request begins with a conversation of the pool.
LEMMA UsesType ==
  ASSUME TypeOK, NEW r \in Slots, NEW k \in 1..MaxConvs, NEW h \in Histories, Uses(r, k, h),
         conv'[k] \in Conversations
  PROVE  /\ req' \in [Slots -> Requests] /\ UNCHANGED <<known, astray>>
         /\ req'[r].stage = "ready" /\ req'[r].history = h /\ req'[r].mine = k
         /\ req'[r].text = Prompt(conv'[k], h) /\ req'[r].original = Prompt(conv'[k], h)
         /\ ~req'[r].rotated
         /\ \A s \in Slots \ {r} : req'[s] = req[s]
<1> DEFINE p == Prompt(conv'[k], h)
           q == Started([Nothing EXCEPT !.history = h, !.mine = k], p)
<1>1. p \subseteq Messages
  BY PromptShape
<1>2. k \in 0..MaxConvs /\ 0 \in 0..MaxRetries
  BY ConversationAssumption, RetryAssumption
<1> HIDE DEF p
<1>3. [Nothing EXCEPT !.history = h, !.mine = k] \in Requests
  BY <1>2, NothingIsRequest DEF Requests
<1>4. /\ q \in Requests /\ q.stage = "ready" /\ q.history = h /\ q.mine = k /\ q.text = p
      /\ q.original = p /\ ~q.rotated
  <2> DEFINE b == [Nothing EXCEPT !.history = h, !.mine = k]
  <2>1. b \in Requests /\ b.history = h /\ b.mine = k
    BY <1>3, NothingIsRequest DEF Requests
  <2> HIDE DEF b
  <2>2. Started(b, p) \in Requests /\ Started(b, p).stage = "ready" /\ Started(b, p).text = p
        /\ Started(b, p).history = b.history /\ Started(b, p).mine = b.mine
        /\ Started(b, p).original = p /\ ~Started(b, p).rotated
    BY <1>1, <1>2, <2>1 DEF Started, Requests, Stages
  <2> QED
    BY <2>1, <2>2 DEF b
<1>5. req' = [req EXCEPT ![r] = q] /\ UNCHANGED <<known, astray>>
  BY DEF Uses, p
<1> HIDE DEF q
<1> QED
  BY <1>4, <1>5 DEF TypeOK, p

(* What was told. *)

\* The belief of the pool, the store and its file.
Believed(K, C, a, d) ==
  /\ \A k \in 1..Len(C) : ToldIn(K, C[k].cid, C[k].sent)
  /\ a \in Records => ToldIn(K, a.cid, a.sent)
  /\ d \in Records => ToldIn(K, d.cid, d.sent)

LEMMA ToldInvIs ==
  /\ ToldInv => TypeOK /\ Believed(known, conv, cache, disk) /\ \A r \in Slots : HeardIn(known, conv, req[r])
  /\ TypeOK' /\ Believed(known', conv', cache', disk') /\ (\A r \in Slots : HeardIn(known', conv', req'[r]))
       => ToldInv'
<1>1. ToldInv => TypeOK /\ Believed(known, conv, cache, disk) /\ \A r \in Slots : HeardIn(known, conv, req[r])
  <2> SUFFICES ASSUME ToldInv PROVE TypeOK /\ Believed(known, conv, cache, disk)
    BY DEF ToldInv
  <2>1. TypeOK /\ DOMAIN conv = 1..Len(conv)
    BY TypeFacts DEF ToldInv, RecordSound
  <2> QED
    BY <2>1 DEF ToldInv, RecordSound, Believed, Told, ToldIn
<1>2. ASSUME TypeOK', Believed(known', conv', cache', disk'), \A r \in Slots : HeardIn(known', conv', req'[r])
      PROVE  ToldInv'
  <2>1. DOMAIN conv' = 1..Len(conv')
    BY <1>2, LenProperties DEF TypeOK
  <2> QED
    BY <1>2, <2>1 DEF ToldInv, RecordSound, Believed, Told, ToldIn
<1> QED
  BY <1>1, <1>2

\* A conversation forgets nothing.
LEMMA ToldStays ==
  ASSUME NEW K, NEW L, NEW cid, NEW n, K[cid] \subseteq L[cid], ToldIn(K, cid, n)
  PROVE  ToldIn(L, cid, n)
BY DEF ToldIn

\* A request that does not change keeps what it has, if its conversation does.
LEMMA HeardStays ==
  ASSUME TypeOK, NEW L, NEW C, NEW r \in Slots, HeardIn(known, conv, req[r]),
         \A cid \in 1..MaxCids : known[cid] \subseteq L[cid],
         \A k \in 1..Len(conv) : k \in 1..Len(C) /\ C[k].cid = conv[k].cid
  PROVE  HeardIn(L, C, req[r])
<1> DEFINE q == req[r]
<1>1. q.stage # "idle" => /\ q.mine \in 1..Len(C) /\ C[q.mine].cid = conv[q.mine].cid
                          /\ conv[q.mine].cid \in 1..MaxCids
  BY TypeFacts DEF HeardIn
<1> QED
  BY <1>1 DEF HeardIn, ToldIn

\* One request changes, the pool only forgets what it no longer uses.
LEMMA Preserved ==
  ASSUME ToldInv, TypeOK', Believed(known', conv', cache', disk'), NEW r \in Slots,
         \A cid \in 1..MaxCids : known[cid] \subseteq known'[cid],
         \A k \in 1..Len(conv) : k \in 1..Len(conv') /\ conv'[k].cid = conv[k].cid,
         \A s \in Slots \ {r} : req'[s] = req[s],
         HeardIn(known', conv', req'[r])
  PROVE  ToldInv'
<1>1. TypeOK /\ \A s \in Slots : HeardIn(known, conv, req[s])
  BY ToldInvIs
<1>2. \A s \in Slots \ {r} : HeardIn(known', conv', req[s])
  BY <1>1, HeardStays
<1>3. \A s \in Slots : HeardIn(known', conv', req'[s])
  BY <1>2
<1> QED
  BY <1>3, ToldInvIs

LEMMA HeardBegin ==
  ASSUME TypeOK, NEW r \in Slots, NEW k \in 1..MaxConvs, NEW h \in Histories, Uses(r, k, h),
         k \in 1..Len(conv'), conv'[k] \in Conversations, ToldIn(known, conv'[k].cid, conv'[k].sent)
  PROVE  HeardIn(known', conv', req'[r])
<1>1. /\ known' = known /\ req'[r].stage = "ready" /\ req'[r].history = h /\ req'[r].mine = k
      /\ req'[r].text = Prompt(conv'[k], h)
  BY UsesType
<1>2. \A i \in 1..Len(h) : \E v \in Versions : <<i, v>> \in known[conv'[k].cid] \cup Prompt(conv'[k], h)
  <2> SUFFICES ASSUME NEW i \in 1..Len(h)
               PROVE  \E v \in Versions : <<i, v>> \in known[conv'[k].cid] \cup Prompt(conv'[k], h)
    OBVIOUS
  <2>1. h[i] \in Versions /\ Len(h) \in Nat
    BY HistoryShape
  <2>2. conv'[k].sent \in Nat
    BY ConversationAssumption DEF Conversations
  <2>3. CASE i > conv'[k].sent
    BY <2>1, <2>3, PromptShape
  <2>4. CASE i \in 1..conv'[k].sent
    BY <2>4 DEF ToldIn
  <2>5. i > conv'[k].sent \/ i \in 1..conv'[k].sent
    BY <2>1, <2>2
  <2> QED
    BY <2>3, <2>4, <2>5
<1> QED
  BY <1>1, <1>2 DEF HeardIn

LEMMA BeginKnownTold ==
  ASSUME ToldInv, NEW r \in Slots, NEW h \in Histories, BeginKnown(r, h)
  PROVE  ToldInv'
<1> DEFINE c == [conv[current] EXCEPT !.idle = FALSE]
<1>1. TypeOK /\ Believed(known, conv, cache, disk)
  BY ToldInvIs
<1>2. current \in 1..Len(conv) /\ current \in 1..MaxConvs /\ Len(conv) \in Nat
  BY <1>1, TypeFacts, ConversationAssumption DEF BeginKnown, NoConv, TypeOK
<1>3. c \in Conversations /\ c.cid = conv[current].cid /\ c.sent = conv[current].sent
  BY <1>1, <1>2, TypeFacts DEF Conversations
<1>4. conv' = [conv EXCEPT ![current] = c]
  BY DEF BeginKnown
<1> HIDE DEF c
<1>5. /\ conv' \in Seq(Conversations) /\ Len(conv') = Len(conv)
      /\ \A j \in 1..Len(conv) : conv'[j] = IF j = current THEN c ELSE conv[j]
  BY <1>1, <1>2, <1>3, <1>4, ConvExcept
<1>6. Uses(r, current, h) /\ UNCHANGED <<current, cids, cache, disk>>
  BY DEF BeginKnown, store
<1>7. ToldIn(known, conv'[current].cid, conv'[current].sent)
  BY <1>1, <1>2, <1>3, <1>5 DEF Believed
<1>8. HeardIn(known', conv', req'[r])
  BY <1>1, <1>2, <1>3, <1>5, <1>6, <1>7, HeardBegin
<1>9. /\ req' \in [Slots -> Requests] /\ UNCHANGED <<known, astray>>
      /\ \A s \in Slots \ {r} : req'[s] = req[s]
  BY <1>1, <1>2, <1>3, <1>5, <1>6, UsesType
<1>10. TypeOK'
  BY <1>1, <1>5, <1>6, <1>9 DEF TypeOK
<1>11. Believed(known', conv', cache', disk')
  BY <1>1, <1>3, <1>5, <1>6, <1>9 DEF Believed
<1> QED
  BY <1>3, <1>5, <1>8, <1>9, <1>10, <1>11, Preserved

LEMMA BeginShrunkTold ==
  ASSUME ToldInv, NEW r \in Slots, NEW h \in Histories, BeginShrunk(r, h)
  PROVE  ToldInv'
<1> DEFINE c == [conv[current] EXCEPT !.begun = FALSE, !.sent = 0, !.idle = FALSE]
<1>1. TypeOK /\ Believed(known, conv, cache, disk)
  BY ToldInvIs
<1>2. current \in 1..Len(conv) /\ current \in 1..MaxConvs /\ Len(conv) \in Nat
  BY <1>1, TypeFacts, ConversationAssumption DEF BeginShrunk, NoConv, TypeOK
<1>3. c \in Conversations /\ c.cid = conv[current].cid /\ c.sent = 0
  <2>1. conv[current] \in Conversations
    BY <1>1, <1>2, TypeFacts
  <2>2. 0 \in 0..MaxLen
    BY ConversationAssumption
  <2> QED
    BY <2>1, <2>2 DEF Conversations
<1>4. conv' = [conv EXCEPT ![current] = c] /\ Persist(conv'[current])
  BY DEF BeginShrunk
<1> HIDE DEF c
<1>5. /\ conv' \in Seq(Conversations) /\ Len(conv') = Len(conv)
      /\ \A j \in 1..Len(conv) : conv'[j] = IF j = current THEN c ELSE conv[j]
  BY <1>1, <1>2, <1>3, <1>4, ConvExcept
<1>6. Uses(r, current, h) /\ UNCHANGED <<current, cids>>
  BY DEF BeginShrunk
<1>7. \A K, cid : ToldIn(K, cid, 0)
  BY DEF ToldIn
<1>8. HeardIn(known', conv', req'[r])
  BY <1>1, <1>2, <1>3, <1>5, <1>6, <1>7, HeardBegin
<1>9. /\ req' \in [Slots -> Requests] /\ UNCHANGED <<known, astray>>
      /\ \A s \in Slots \ {r} : req'[s] = req[s]
  BY <1>1, <1>2, <1>3, <1>5, <1>6, UsesType
<1>10. /\ cache' \in Records /\ cache'.sent = 0 /\ (disk' = disk \/ disk' = cache')
  <2>1. cache' = [cid |-> c.cid, sent |-> c.sent, fresh |-> TRUE]
    BY <1>2, <1>4, <1>5 DEF Persist
  <2>2. c.cid \in 1..MaxCids /\ c.sent \in 0..MaxLen
    BY <1>3 DEF Conversations
  <2> QED
    BY <1>2, <1>3, <1>4, <1>5, <2>1, <2>2 DEF Persist, Records
<1>11. TypeOK'
  BY <1>1, <1>5, <1>6, <1>9, <1>10 DEF TypeOK
<1>12. Believed(known', conv', cache', disk')
  BY <1>1, <1>3, <1>5, <1>6, <1>7, <1>9, <1>10 DEF Believed
<1> QED
  BY <1>3, <1>5, <1>8, <1>9, <1>11, <1>12, Preserved

\* A new ConversationState, resumed or not.
LEMMA BeginAppended ==
  ASSUME ToldInv, NEW r \in Slots, NEW h \in Histories, NEW c \in Conversations,
         conv' = Append(conv, c), current' = Len(conv) + 1, Len(conv) < MaxConvs,
         Uses(r, Len(conv) + 1, h), cids' \in 0..MaxCids, disk' = disk,
         cache' = Loaded \/ cache' = NoRecord,
         ToldIn(known, c.cid, c.sent)
  PROVE  ToldInv'
<1>1. TypeOK /\ Believed(known, conv, cache, disk) /\ Loaded \in Records \cup {NoRecord} /\ NoRecord \notin Records
  BY ToldInvIs, StoreShape
<1>2. Len(conv) \in Nat /\ Len(conv) + 1 \in 1..MaxConvs
  BY <1>1, TypeFacts, ConversationAssumption
<1>3. /\ conv' \in Seq(Conversations) /\ Len(conv') = Len(conv) + 1
      /\ \A j \in 1..Len(conv) : conv'[j] = conv[j]
      /\ conv'[Len(conv) + 1] = c
  BY <1>1, ConvAppend
<1>4. HeardIn(known', conv', req'[r])
  BY <1>1, <1>2, <1>3, HeardBegin
<1>5. /\ req' \in [Slots -> Requests] /\ UNCHANGED <<known, astray>>
      /\ \A s \in Slots \ {r} : req'[s] = req[s]
  BY <1>1, <1>2, <1>3, UsesType
<1>6. TypeOK'
  BY <1>1, <1>2, <1>3, <1>5 DEF TypeOK
<1>7. cache' \in Records => ToldIn(known, cache'.cid, cache'.sent)
  BY <1>1, StoreShape DEF Believed, Loaded
<1>8. \A j \in 1..Len(conv') : ToldIn(known, conv'[j].cid, conv'[j].sent)
  <2> SUFFICES ASSUME NEW j \in 1..Len(conv') PROVE ToldIn(known, conv'[j].cid, conv'[j].sent)
    OBVIOUS
  <2>1. j \in 1..Len(conv) \/ j = Len(conv) + 1
    BY <1>2, <1>3
  <2> QED
    BY <1>1, <1>3, <2>1 DEF Believed
<1>9. Believed(known', conv', cache', disk')
  BY <1>1, <1>5, <1>7, <1>8 DEF Believed
<1>10. \A k \in 1..Len(conv) : k \in 1..Len(conv') /\ conv'[k].cid = conv[k].cid
  BY <1>2, <1>3
<1> QED
  BY <1>4, <1>5, <1>6, <1>9, <1>10, Preserved

LEMMA BeginHydratedTold ==
  ASSUME ToldInv, NEW r \in Slots, NEW h \in Histories, BeginHydrated(r, h)
  PROVE  ToldInv'
<1> DEFINE c == Hydrated(Loaded)
<1>1. TypeOK /\ Believed(known, conv, cache, disk) /\ Loaded \in Records
  BY ToldInvIs, StoreShape DEF BeginHydrated
<1>2. c \in Conversations /\ c.cid = Loaded.cid /\ c.sent = Loaded.sent
  BY <1>1 DEF Hydrated, Records, Conversations, Agents
<1>3. ToldIn(known, Loaded.cid, Loaded.sent)
  BY <1>1, StoreShape DEF Believed, Loaded
<1>4. /\ conv' = Append(conv, c) /\ current' = Len(conv) + 1 /\ Len(conv) < MaxConvs
      /\ Uses(r, Len(conv) + 1, h) /\ cids' = cids /\ disk' = disk /\ cache' = Loaded
  BY DEF BeginHydrated
<1>5. cids' \in 0..MaxCids
  BY <1>1, <1>4 DEF TypeOK
<1> HIDE DEF c
<1> QED
  BY <1>2, <1>3, <1>4, <1>5, BeginAppended

LEMMA BeginFreshTold ==
  ASSUME ToldInv, NEW r \in Slots, NEW h \in Histories, BeginFresh(r, h)
  PROVE  ToldInv'
<1>1. TypeOK
  BY ToldInvIs
<1>2. cids + 1 \in 1..MaxCids /\ cids + 1 \in 0..MaxCids /\ 0 \in 0..MaxLen
  BY <1>1, ConversationAssumption DEF BeginFresh, TypeOK
<1>3. Fresh \in Conversations /\ Fresh.sent = 0
  BY <1>2 DEF Fresh, Conversations, Agents
<1>4. ToldIn(known, Fresh.cid, Fresh.sent)
  BY <1>3 DEF ToldIn
<1>5. /\ conv' = Append(conv, Fresh) /\ current' = Len(conv) + 1 /\ Len(conv) < MaxConvs
      /\ Uses(r, Len(conv) + 1, h) /\ cids' = cids + 1 /\ disk' = disk /\ cache' = NoRecord
  BY DEF BeginFresh
<1> QED
  BY <1>2, <1>3, <1>4, <1>5, BeginAppended

\* Only the request changes.
LEMMA RequestTold ==
  ASSUME ToldInv, NEW r \in Slots, NEW q \in Requests, req' = [req EXCEPT ![r] = q],
         UNCHANGED <<pool, known, store>>, astray' \in BOOLEAN, HeardIn(known, conv, q)
  PROVE  ToldInv'
<1>1. TypeOK /\ Believed(known, conv, cache, disk)
  BY ToldInvIs
<1>2. TypeOK'
  BY <1>1, TypeOfRequest
<1>3. UNCHANGED <<conv, known, cache, disk>>
  BY DEF pool, store
<1>4. req'[r] = q /\ \A s \in Slots \ {r} : req'[s] = req[s]
  BY <1>1 DEF TypeOK
<1> QED
  BY <1>1, <1>2, <1>3, <1>4, Preserved

LEMMA FailTold == ASSUME ToldInv, NEW r \in Slots, Fail(r) PROVE ToldInv'
<1>1. astray' \in BOOLEAN
  BY ToldInvIs, TypeFacts DEF Fail, TypeOK, Requests
<1>2. HeardIn(known, conv, Nothing)
  BY DEF HeardIn, Nothing
<1> QED
  BY <1>1, <1>2, NothingIsRequest, RequestTold DEF Fail

LEMMA EmptyTold == ASSUME ToldInv, NEW r \in Slots, Empty(r) PROVE ToldInv'
<1> DEFINE q == [req[r] EXCEPT !.stage = IF req[r].refreshed THEN "ready" ELSE "refreshing",
                               !.text = {}, !.attempt = req[r].attempt + 1, !.refreshed = TRUE]
<1>1. TypeOK /\ req[r] \in Requests /\ HeardIn(known, conv, req[r]) /\ req[r].stage = "streaming"
  BY ToldInvIs, TypeFacts DEF Empty, Ends
<1>2. req[r].attempt < MaxRetries
  BY DEF Empty, Ends, Verdict
<1>3. req[r].attempt + 1 \in 0..MaxRetries
  BY <1>1, <1>2, RetryAssumption DEF Requests
<1>4. q \in Requests /\ q.mine = req[r].mine /\ q.history = req[r].history /\ q.stage \in {"ready", "refreshing"}
  BY <1>1, <1>3 DEF Requests, Stages
<1>5. req' = [req EXCEPT ![r] = q] /\ UNCHANGED <<pool, known, store, astray>>
  BY DEF Empty
<1> HIDE DEF q
<1>6. HeardIn(known, conv, q)
  BY <1>1, <1>4 DEF HeardIn, ToldIn
<1>7. astray' \in BOOLEAN
  BY <1>1, <1>5 DEF TypeOK
<1> QED
  BY <1>4, <1>5, <1>6, <1>7, RequestTold

LEMMA AgentUnchangedTold == ASSUME ToldInv, NEW r \in Slots, AgentUnchanged(r) PROVE ToldInv'
<1> DEFINE q == [req[r] EXCEPT !.stage = "ready"]
<1>1. TypeOK /\ req[r] \in Requests /\ HeardIn(known, conv, req[r]) /\ req[r].stage = "refreshing"
  BY ToldInvIs, TypeFacts DEF AgentUnchanged
<1>2. q \in Requests /\ q.mine = req[r].mine /\ q.history = req[r].history /\ q.stage = "ready"
  BY <1>1 DEF Requests, Stages
<1>3. req' = [req EXCEPT ![r] = q] /\ UNCHANGED <<pool, known, store, astray>>
  BY DEF AgentUnchanged
<1> HIDE DEF q
<1>4. HeardIn(known, conv, q)
  BY <1>1, <1>2 DEF HeardIn, ToldIn
<1>5. astray' \in BOOLEAN
  BY <1>1, <1>3 DEF TypeOK
<1> QED
  BY <1>2, <1>3, <1>4, <1>5, RequestTold

\* A conversation of the pool changes in place and keeps its id.
LEMMA ConvTold ==
  ASSUME ToldInv, NEW r \in Slots, NEW q \in Requests, req' = [req EXCEPT ![r] = q],
         NEW k \in 1..Len(conv), NEW c \in Conversations, conv' = [conv EXCEPT ![k] = c],
         c.cid = conv[k].cid, UNCHANGED <<current, cids>>, astray' \in BOOLEAN,
         known' \in [1..MaxCids -> SUBSET Messages],
         \A cid \in 1..MaxCids : known[cid] \subseteq known'[cid],
         ToldIn(known', c.cid, c.sent),
         cache' = cache \/ (cache' \in Records /\ ToldIn(known', cache'.cid, cache'.sent)),
         disk' = disk \/ disk' = cache', disk' \in Records \cup {NoRecord},
         HeardIn(known', conv', q)
  PROVE  ToldInv'
<1>1. TypeOK /\ Believed(known, conv, cache, disk) /\ Len(conv) \in Nat
  BY ToldInvIs, TypeFacts
<1>2. /\ conv' \in Seq(Conversations) /\ Len(conv') = Len(conv)
      /\ \A j \in 1..Len(conv) : conv'[j] = IF j = k THEN c ELSE conv[j]
  BY <1>1, ConvExcept
<1>3. req'[r] = q /\ req' \in [Slots -> Requests] /\ \A s \in Slots \ {r} : req'[s] = req[s]
  BY <1>1 DEF TypeOK
<1>4. TypeOK'
  BY <1>1, <1>2, <1>3 DEF TypeOK
<1>5. \A record \in Records : ToldIn(known, record.cid, record.sent) => ToldIn(known', record.cid, record.sent)
  BY ToldStays DEF Records
<1>6. \A j \in 1..Len(conv) : ToldIn(known', conv'[j].cid, conv'[j].sent)
  <2> SUFFICES ASSUME NEW j \in 1..Len(conv), j # k PROVE ToldIn(known', conv[j].cid, conv[j].sent)
    BY <1>2
  <2> QED
    BY <1>1, TypeFacts, ToldStays DEF Believed
<1>7. Believed(known', conv', cache', disk')
  BY <1>1, <1>2, <1>5, <1>6 DEF Believed
<1>8. \A j \in 1..Len(conv) : j \in 1..Len(conv') /\ conv'[j].cid = conv[j].cid
  BY <1>2
<1> QED
  BY <1>3, <1>4, <1>7, <1>8, Preserved

LEMMA SendTold == ASSUME ToldInv, ~Tools, NEW r \in Slots, Send(r) PROVE ToldInv'
<1> DEFINE k == req[r].mine
           cid == conv[k].cid
           q == [req[r] EXCEPT !.stage = "streaming", !.text = {}, !.ran = cid, !.lost = FALSE]
<1>1. /\ TypeOK /\ req[r] \in Requests /\ HeardIn(known, conv, req[r]) /\ req[r].stage = "ready"
      /\ Believed(known, conv, cache, disk) /\ req[r].text \in SUBSET Messages
  BY ToldInvIs, TypeFacts DEF Send
<1>2. k \in 1..Len(conv) /\ conv[k] \in Conversations /\ cid \in 1..MaxCids
  BY <1>1, TypeFacts DEF HeardIn
<1>3. PICK agent \in AgentFor(conv[k]) :
        /\ conv' = [conv EXCEPT ![k] = [@ EXCEPT !.begun = TRUE, !.agent = agent]]
        /\ known' = [known EXCEPT ![cid] = @ \cup req[r].text]
        /\ req' = [req EXCEPT ![r] = q]
        /\ UNCHANGED <<current, cids, store, astray>>
  BY DEF Send, WantAgent
<1> DEFINE c == [conv[k] EXCEPT !.begun = TRUE, !.agent = agent]
<1>4. agent = conv[k].agent
  BY DEF AgentFor, WantAgent
<1>5. c \in Conversations /\ c.cid = cid /\ c.sent = conv[k].sent
  BY <1>2, <1>4 DEF Conversations
<1>6. conv' = [conv EXCEPT ![k] = c]
  BY <1>3
<1>7. q \in Requests /\ q.mine = k /\ q.history = req[r].history /\ q.stage = "streaming" /\ q.ran = cid
  <2>1. cid \in 0..MaxCids
    BY <1>2, ConversationAssumption
  <2> HIDE DEF cid
  <2> QED
    BY <1>1, <2>1 DEF Requests, Stages
<1>8. /\ known' \in [1..MaxCids -> SUBSET Messages] /\ known'[cid] = known[cid] \cup req[r].text
      /\ \A d \in 1..MaxCids : known[d] \subseteq known'[d]
  <2>1. known \in [1..MaxCids -> SUBSET Messages]
    BY <1>1 DEF TypeOK
  <2> HIDE DEF cid
  <2> QED
    BY <1>1, <1>2, <1>3, <2>1
<1> HIDE DEF c, q
<1>9. ToldIn(known', c.cid, c.sent)
  BY <1>1, <1>2, <1>5, <1>8, ToldStays DEF Believed
<1>10. ToldIn(known', cid, Len(req[r].history))
  BY <1>1, <1>8 DEF HeardIn, ToldIn
<1>11. conv'[k].cid = cid /\ Len(conv') = Len(conv)
  BY <1>1, <1>2, <1>5, <1>6, ConvExcept
<1>12. HeardIn(known', conv', q)
  BY <1>2, <1>7, <1>10, <1>11 DEF HeardIn
<1>13. /\ UNCHANGED <<current, cids, cache, disk>> /\ astray' \in BOOLEAN
       /\ disk \in Records \cup {NoRecord} /\ req' = [req EXCEPT ![r] = q]
  BY <1>1, <1>3 DEF TypeOK, store
<1> QED
  BY <1>2, <1>5, <1>6, <1>7, <1>8, <1>9, <1>12, <1>13, ConvTold

LEMMA AnswerTold == ASSUME ToldInv, NEW r \in Slots, Answer(r) PROVE ToldInv'
<1> DEFINE k == req[r].mine
           h == req[r].history
           c == [conv[k] EXCEPT !.sent = Len(h)]
           q == [Nothing EXCEPT !.stage = "answered", !.history = h, !.mine = k, !.ran = req[r].ran]
<1>1. /\ TypeOK /\ req[r] \in Requests /\ HeardIn(known, conv, req[r]) /\ req[r].stage = "streaming"
      /\ h \in Histories
  BY ToldInvIs, TypeFacts DEF Answer, Ends
<1>2. k \in 1..Len(conv) /\ conv[k] \in Conversations /\ conv[k].cid \in 1..MaxCids
  BY <1>1, TypeFacts DEF HeardIn
<1>3. req[r].ran = conv[k].cid /\ ToldIn(known, conv[k].cid, Len(h))
  BY <1>1 DEF HeardIn
<1>4. Len(h) \in 0..MaxLen
  BY <1>1, HistoryShape, ConversationAssumption
<1>5. c \in Conversations /\ c.cid = conv[k].cid /\ c.sent = Len(h)
  BY <1>2, <1>4 DEF Conversations
<1>6. q \in Requests /\ q.stage = "answered" /\ q.history = h /\ q.ran = req[r].ran /\ q.mine = k
  BY <1>1, NothingIsRequest DEF Requests, Stages
<1>7. /\ conv' = [conv EXCEPT ![k] = c] /\ req' = [req EXCEPT ![r] = q] /\ Persist(conv'[k])
      /\ UNCHANGED <<current, cids, known, astray>>
  BY DEF Answer
<1> HIDE DEF c, q, h
<1>8. conv'[k] = c /\ Len(conv') = Len(conv)
  BY <1>1, <1>2, <1>5, <1>7, ConvExcept
<1>9. cache' \in Records /\ cache'.cid = c.cid /\ cache'.sent = c.sent /\ disk' \in {cache', disk}
  <2>1. c.cid \in 1..MaxCids /\ c.sent \in 0..MaxLen
    BY <1>2, <1>4, <1>5
  <2> QED
    BY <1>7, <1>8, <2>1 DEF Persist, Records
<1>10. HeardIn(known', conv', q)
  BY <1>2, <1>3, <1>6, <1>7, <1>8 DEF HeardIn, h
<1>11. /\ known' \in [1..MaxCids -> SUBSET Messages] /\ astray' \in BOOLEAN
       /\ disk' \in Records \cup {NoRecord} /\ \A d \in 1..MaxCids : known[d] \subseteq known'[d]
  BY <1>1, <1>7, <1>9 DEF TypeOK
<1>12. ToldIn(known', c.cid, c.sent)
  BY <1>3, <1>5, <1>7
<1> QED
  BY <1>2, <1>5, <1>6, <1>7, <1>9, <1>10, <1>11, <1>12, ConvTold

LEMMA AgentChangedTold == ASSUME ToldInv, NEW r \in Slots, AgentChanged(r) PROVE ToldInv'
<1> DEFINE k == req[r].mine
           q == [req[r] EXCEPT !.stage = "ready", !.text = req[r].original]
<1>1. /\ TypeOK /\ req[r] \in Requests /\ HeardIn(known, conv, req[r]) /\ req[r].stage = "refreshing"
      /\ Believed(known, conv, cache, disk)
  BY ToldInvIs, TypeFacts DEF AgentChanged
<1>2. k \in 1..Len(conv) /\ conv[k] \in Conversations
  BY <1>1, TypeFacts DEF HeardIn
<1>3. PICK id \in AgentIds : conv' = [conv EXCEPT ![k].agent = id]
  BY DEF AgentChanged
<1> DEFINE c == [conv[k] EXCEPT !.agent = id]
<1>4. c \in Conversations /\ c.cid = conv[k].cid /\ c.sent = conv[k].sent
  BY <1>2 DEF Conversations, AgentIds, Agents
<1>5. conv' = [conv EXCEPT ![k] = c]
  BY <1>3
<1>6. q \in Requests /\ q.mine = k /\ q.history = req[r].history /\ q.stage = "ready"
  BY <1>1 DEF Requests, Stages
<1>7. req' = [req EXCEPT ![r] = q] /\ UNCHANGED <<current, cids, known, cache, disk>>
  BY DEF AgentChanged, store
<1> HIDE DEF c, q
<1>8. conv'[k] = c /\ Len(conv') = Len(conv)
  BY <1>1, <1>2, <1>4, <1>5, ConvExcept
<1>9. HeardIn(known', conv', q)
  BY <1>1, <1>2, <1>4, <1>6, <1>7, <1>8 DEF HeardIn, ToldIn
<1>10. /\ known' \in [1..MaxCids -> SUBSET Messages] /\ astray' \in BOOLEAN
       /\ disk \in Records \cup {NoRecord} /\ \A d \in 1..MaxCids : known[d] \subseteq known'[d]
  BY <1>1, <1>7 DEF TypeOK, AgentChanged, Requests
<1>11. ToldIn(known', c.cid, c.sent)
  BY <1>1, <1>2, <1>4, <1>7 DEF Believed
<1> QED
  BY <1>2, <1>4, <1>5, <1>6, <1>7, <1>9, <1>10, <1>11, ConvTold

LEMMA RestTold == ASSUME ToldInv, Rest PROVE ToldInv'
<1>1. TypeOK /\ Believed(known, conv, cache, disk) /\ \A s \in Slots : HeardIn(known, conv, req[s])
  BY ToldInvIs
<1>2. DOMAIN conv = 1..Len(conv) /\ Len(conv) \in Nat /\ \A k \in 1..Len(conv) : conv[k] \in Conversations
  BY <1>1, TypeFacts
<1>3. /\ conv' \in Seq(Conversations) /\ Len(conv') = Len(conv)
      /\ \A k \in 1..Len(conv) : conv'[k].cid = conv[k].cid /\ conv'[k].sent = conv[k].sent
  <2>1. conv' = [k \in 1..Len(conv) |-> [conv[k] EXCEPT !.idle = TRUE]]
    BY <1>2 DEF Rest
  <2>2. \A k \in 1..Len(conv) : /\ [conv[k] EXCEPT !.idle = TRUE] \in Conversations
                                /\ [conv[k] EXCEPT !.idle = TRUE].cid = conv[k].cid
                                /\ [conv[k] EXCEPT !.idle = TRUE].sent = conv[k].sent
    BY <1>2 DEF Conversations
  <2>3. conv' \in [1..Len(conv) -> Conversations]
    BY <2>1, <2>2
  <2>4. conv' \in Seq(Conversations)
    BY <1>2, <2>3, SeqDef
  <2>5. Len(conv') = Len(conv)
    BY <1>2, <2>3, <2>4, LenProperties
  <2> QED
    BY <2>1, <2>2, <2>4, <2>5
<1>4. \A record \in Records : /\ Stale(record) \in Records
                              /\ Stale(record).cid = record.cid /\ Stale(record).sent = record.sent
  BY DEF Stale, Records
<1>5. \A record : record \notin Records => Stale(record) = record
  BY DEF Stale
<1>6. cache' = Stale(cache) /\ disk' = Stale(disk) /\ UNCHANGED <<current, cids, known, req, astray>>
  BY DEF Rest
<1>7. TypeOK'
  BY <1>1, <1>3, <1>4, <1>5, <1>6 DEF TypeOK
<1>8. Believed(known', conv', cache', disk')
  BY <1>1, <1>3, <1>4, <1>5, <1>6 DEF Believed
<1>9. \A s \in Slots : HeardIn(known', conv', req'[s])
  BY <1>1, <1>3, <1>6, HeardStays
<1> QED
  BY <1>7, <1>8, <1>9, ToldInvIs

LEMMA OtherFlushedTold == ASSUME ToldInv, OtherFlushed PROVE ToldInv'
<1>1. TypeOK /\ Believed(known, conv, cache, disk) /\ \A s \in Slots : HeardIn(known, conv, req[s])
  BY ToldInvIs
<1>2. UNCHANGED <<conv, current, cids, known, cache, req, astray>> /\ disk' = cache /\ cache # NotLoaded
  BY DEF OtherFlushed, pool
<1>3. TypeOK'
  BY <1>1, <1>2 DEF TypeOK
<1>4. Believed(known', conv', cache', disk')
  BY <1>1, <1>2 DEF Believed
<1> QED
  BY <1>1, <1>2, <1>3, <1>4, ToldInvIs

LEMMA RestartTold == ASSUME ToldInv, Restart PROVE ToldInv'
<1>1. TypeOK /\ Believed(known, conv, cache, disk) /\ NotLoaded \notin Records
  BY ToldInvIs, StoreShape
<1>2. /\ conv' = <<>> /\ current' = 0 /\ cache' = NotLoaded /\ req' = [r \in Slots |-> Nothing]
      /\ UNCHANGED <<cids, known, disk, astray>>
  BY DEF Restart, NoConv
<1>3. conv' \in Seq(Conversations) /\ Len(conv') = 0
  BY <1>2, EmptySeq
<1>4. TypeOK'
  BY <1>1, <1>2, <1>3, NothingIsRequest, ConversationAssumption DEF TypeOK
<1>5. Believed(known', conv', cache', disk')
  BY <1>1, <1>2, <1>3 DEF Believed
<1>6. \A K, C : HeardIn(K, C, Nothing)
  BY DEF HeardIn, Nothing
<1> QED
  BY <1>2, <1>4, <1>5, <1>6, ToldInvIs

LEMMA ToldInit == Init => ToldInv
<1> SUFFICES ASSUME Init PROVE ToldInv
  OBVIOUS
<1>1. conv \in Seq(Conversations) /\ Len(conv) = 0 /\ DOMAIN conv = {}
  BY EmptySeq, LenProperties DEF Init
<1>2. known \in [1..MaxCids -> SUBSET Messages] /\ req \in [Slots -> Requests]
  BY NothingIsRequest DEF Init
<1>3. TypeOK
  <2>1. Len(conv) <= MaxConvs /\ current \in 0..Len(conv) /\ cids \in 0..MaxCids
    BY <1>1, ConversationAssumption DEF Init, NoConv
  <2>2. cache \in Records \cup {NoRecord, NotLoaded} /\ disk \in Records \cup {NoRecord} /\ astray \in BOOLEAN
    BY DEF Init
  <2> QED
    BY <1>1, <1>2, <2>1, <2>2 DEF TypeOK
<1>4. cache \notin Records /\ disk \notin Records
  BY <1>3, StoreShape DEF Init
<1>5. \A r \in Slots : HeardIn(known, conv, req[r])
  BY DEF Init, HeardIn, Nothing
<1> QED
  BY <1>1, <1>3, <1>4, <1>5 DEF ToldInv, RecordSound

LEMMA ToldStep == ~Tools /\ ToldInv /\ [Next]_vars => ToldInv'
<1> SUFFICES ASSUME ~Tools, ToldInv, [Next]_vars PROVE ToldInv'
  OBVIOUS
<1>1. \A r \in Slots : ~NextRound(r) /\ ~Rotate(r)
  BY DEF NextRound, Rotate, Ends, Verdict
<1>2. \A k : ~AgentDeleted(k)
  BY DEF AgentDeleted, WantAgent
<1>3. ASSUME NEW r \in Slots, NEW h \in Histories, Begin(r, h) PROVE ToldInv'
  BY <1>3, BeginKnownTold, BeginShrunkTold, BeginHydratedTold, BeginFreshTold DEF Begin
<1>4. ASSUME NEW r \in Slots, Send(r) PROVE ToldInv'
  BY <1>4, SendTold
<1>5. ASSUME NEW r \in Slots, Refused(r) PROVE ToldInv'
  BY <1>5, FailTold DEF Refused
<1>6. ASSUME NEW r \in Slots, Answer(r) PROVE ToldInv'
  BY <1>6, AnswerTold
<1>7. ASSUME NEW r \in Slots, Empty(r) PROVE ToldInv'
  BY <1>7, EmptyTold
<1>8. ASSUME NEW r \in Slots, NEW outcome \in Outcomes, GiveUp(r, outcome) PROVE ToldInv'
  BY <1>8, FailTold DEF GiveUp
<1>9. ASSUME NEW r \in Slots, AgentChanged(r) PROVE ToldInv'
  BY <1>9, AgentChangedTold
<1>10. ASSUME NEW r \in Slots, AgentUnchanged(r) PROVE ToldInv'
  BY <1>10, AgentUnchangedTold
<1>11. CASE UNCHANGED vars
  BY <1>11 DEF vars, pool, store, ToldInv, RecordSound, TypeOK, Told, ToldIn, HeardIn
<1> QED
  BY <1>1, <1>2, <1>3, <1>4, <1>5, <1>6, <1>7, <1>8, <1>9, <1>10, <1>11, RestTold, OtherFlushedTold,
     RestartTold DEF Next

LEMMA ToldInvariant == ~Tools => (Spec => []ToldInv)
<1>1. CASE Tools
  BY <1>1
<1>2. ASSUME ~Tools PROVE Spec => []ToldInv
  BY <1>2, ToldInit, ToldStep, PTL DEF Spec
<1> QED
  BY <1>1, <1>2

(* Without tools, what the pool, the store and its file count as sent was    *)
(* told to that very conversation, whatever overlaps, restarts, resets or    *)
(* fails to be written.                                                      *)
THEOREM RecordsAreSound == ~Tools => (Spec => []RecordSound)
<1>1. ToldInv => RecordSound
  BY DEF ToldInv
<1> QED
  BY <1>1, ToldInvariant, PTL

(* If besides no message of a history is edited, the conversation that       *)
(* answers a request was told its whole history: the premise of prompts that *)
(* carry only what is new.                                                   *)
THEOREM ContextIsComplete == ~Tools /\ Versions = {0} => (Spec => []ContextComplete)
<1> SUFFICES ASSUME ~Tools, Versions = {0} PROVE Spec => []ContextComplete
  OBVIOUS
<1>1. ToldInv => ContextComplete
  <2> SUFFICES ASSUME ToldInv, NEW r \in Slots, req[r].stage = "answered"
               PROVE  Content(req[r].history) \subseteq known[req[r].ran]
    BY DEF ContextComplete
  <2>1. req[r].history \in Histories /\ HeardIn(known, conv, req[r])
    BY ToldInvIs, TypeFacts
  <2>2. ToldIn(known, req[r].ran, Len(req[r].history))
    BY <2>1 DEF HeardIn
  <2>3. /\ DOMAIN req[r].history = 1..Len(req[r].history)
        /\ \A i \in 1..Len(req[r].history) : req[r].history[i] = 0
    BY <2>1, HistoryShape
  <2> QED
    BY <2>2, <2>3 DEF Content, ToldIn
<1> QED
  BY <1>1, ToldInvariant, PTL

-----------------------------------------------------------------------------
(* With tools: what a rotation moved and what a deleted agent swallowed.    *)

Busy(q) == q.stage \in {"ready", "streaming", "refreshing"}
Moved(q, k) == Busy(q) /\ q.rotated /\ q.mine = k

\* The request's conversation has its whole history, once it is told S as well.
Reaches(K, C, q, S) ==
  \A i \in 1..Len(q.history) : \E v \in Versions : <<i, v>> \in K[C[q.mine].cid] \cup S

\* The next turn of the request goes to a deleted agent, and so did the last.
Swallowed(C, q) == WantAgent /\ C[q.mine].agent = "dead"

\* How much of its history is behind a request.
Awaits(K, C, q) ==
  /\ Busy(q) /\ ~q.rotated => Reaches(K, C, q, q.original)
  /\ q.stage = "ready" => Reaches(K, C, q, q.text) \/ (Swallowed(C, q) /\ q.refreshed)
  /\ q.stage = "streaming" =>
       q.ran = C[q.mine].cid /\ (IF q.lost THEN Swallowed(C, q) ELSE Reaches(K, C, q, {}))
  /\ q.stage = "refreshing" => Reaches(K, C, q, {}) \/ (Swallowed(C, q) /\ q.refreshed)
  /\ q.stage = "answered" => q.ran = C[q.mine].cid /\ Reaches(K, C, q, {})

\* What was told, but for a conversation that a rotated request has just left.
Mended ==
  /\ \A k \in 1..Len(conv) :
       (\E r \in Slots : Moved(req[r], k)) \/ ToldIn(known, conv[k].cid, conv[k].sent)
  /\ cache \in Records => ToldIn(known, cache.cid, cache.sent)
  /\ disk \in Records => ToldIn(known, disk.cid, disk.sent)
  /\ \A r \in Slots : req[r].stage # "idle" => Awaits(known, conv, req[r])

Repaired == ~astray => Mended

Holds(C, q) == q.stage # "idle" => q.mine \in 1..Len(C)
TypeInv == TypeOK /\ \A r \in Slots : Holds(conv, req[r])

Alone(r) == \A s \in Slots : s = r

(* What a step of one request has to keep. *)

LEMMA ReachesStays ==
  ASSUME NEW K, NEW L, NEW C, NEW D, NEW q, NEW p, NEW S, NEW T, p.history = q.history,
         K[C[q.mine].cid] \cup S \subseteq L[D[p.mine].cid] \cup T, Reaches(K, C, q, S)
  PROVE  Reaches(L, D, p, T)
BY DEF Reaches

LEMMA StepTypes ==
  ASSUME TypeInv, NEW r \in Slots, NEW q \in Requests, req' = [req EXCEPT ![r] = q],
         conv' \in Seq(Conversations), Len(conv) <= Len(conv'), Len(conv') <= MaxConvs,
         current' \in 0..Len(conv'), cids' \in 0..MaxCids,
         known' \in [1..MaxCids -> SUBSET Messages],
         cache' \in Records \cup {NoRecord, NotLoaded}, disk' \in Records \cup {NoRecord},
         astray' \in BOOLEAN, Holds(conv', q)
  PROVE  TypeInv' /\ req'[r] = q
<1>1. /\ req' \in [Slots -> Requests] /\ req'[r] = q /\ \A s \in Slots \ {r} : req'[s] = req[s]
      /\ Len(conv) \in Nat /\ Len(conv') \in Nat
  BY LenProperties DEF TypeInv, TypeOK
<1>2. \A s \in Slots : Holds(conv', req'[s])
  <2>1. ASSUME NEW s \in Slots \ {r} PROVE Holds(conv', req[s])
    BY <1>1 DEF TypeInv, Holds
  <2> QED
    BY <1>1, <2>1
<1> QED
  BY <1>1, <1>2 DEF TypeInv, TypeOK

\* The conversation k of the only request may change, and what it holds.
LEMMA RepairStep ==
  ASSUME TypeInv, TypeInv', NEW r \in Slots, Alone(r), Repaired, astray => astray', NEW k,
         \A j \in 1..Len(conv') :
           \/ j = k
           \/ /\ j \in 1..Len(conv) /\ conv'[j].cid = conv[j].cid /\ conv'[j].sent = conv[j].sent
              /\ ~astray' => ~Moved(req[r], j),
         \A cid \in 1..MaxCids : known[cid] \subseteq known'[cid],
         ~astray' /\ Mended /\ k \in 1..Len(conv') =>
           Moved(req'[r], k) \/ ToldIn(known', conv'[k].cid, conv'[k].sent),
         ~astray' /\ Mended /\ cache' \in Records =>
           cache' \in {cache, disk} \/ ToldIn(known', cache'.cid, cache'.sent),
         disk' \in {cache', disk},
         ~astray' /\ Mended /\ req'[r].stage # "idle" => Awaits(known', conv', req'[r])
  PROVE  Repaired'
<1> SUFFICES ASSUME ~astray' PROVE Mended'
  BY DEF Repaired
<1>1. Mended
  BY DEF Repaired
<1>2. \A record \in Records : ToldIn(known, record.cid, record.sent) => ToldIn(known', record.cid, record.sent)
  BY ToldStays DEF Records
<1>3. cache' \in Records => ToldIn(known', cache'.cid, cache'.sent)
  BY <1>1, <1>2 DEF Mended
<1>4. disk' \in Records => ToldIn(known', disk'.cid, disk'.sent)
  BY <1>1, <1>2, <1>3 DEF Mended
<1>5. \A s \in Slots : req'[s].stage # "idle" => Awaits(known', conv', req'[s])
  BY <1>1 DEF Alone
<1>6. ASSUME NEW j \in 1..Len(conv')
      PROVE  (\E s \in Slots : Moved(req'[s], j)) \/ ToldIn(known', conv'[j].cid, conv'[j].sent)
  <2>1. CASE j = k
    BY <1>1, <2>1
  <2>2. CASE j # k
    <3>1. /\ j \in 1..Len(conv) /\ conv'[j].cid = conv[j].cid /\ conv'[j].sent = conv[j].sent
          /\ ~Moved(req[r], j)
      BY <2>2
    <3>2. ToldIn(known, conv[j].cid, conv[j].sent)
      BY <1>1, <3>1 DEF Mended, Alone
    <3>3. conv[j].cid \in 1..MaxCids
      BY <3>1, TypeFacts DEF TypeInv
    <3> QED
      BY <3>1, <3>2, <3>3, ToldStays
  <2> QED
    BY <2>1, <2>2
<1> QED
  BY <1>3, <1>4, <1>5, <1>6 DEF Mended

\* Only the request changes.
LEMMA RequestRepairs ==
  ASSUME TypeInv, NEW r \in Slots, NEW q \in Requests, req' = [req EXCEPT ![r] = q],
         UNCHANGED <<pool, known, store>>, astray' \in BOOLEAN, astray => astray',
         q.stage = "idle" \/ q.mine = req[r].mine, q.stage # "idle" => req[r].stage # "idle",
         ~astray' => (\A k : Moved(req[r], k) => Moved(q, k)),
         ~astray' /\ Mended /\ q.stage # "idle" => Awaits(known, conv, q)
  PROVE  TypeInv' /\ (Alone(r) /\ Repaired => Repaired')
<1>1. UNCHANGED <<conv, current, cids, known, cache, disk>>
  BY DEF pool, store
<1>2. Holds(conv', q)
  BY <1>1 DEF TypeInv, Holds
<1>3. TypeInv' /\ req'[r] = q
  BY <1>1, <1>2, StepTypes, TypeFacts DEF TypeInv, TypeOK
<1>4. ASSUME Alone(r), Repaired PROVE Repaired'
  <2>1. \A j \in 1..Len(conv') : \/ j = req[r].mine
                                 \/ ~Moved(req[r], j)
    BY DEF Moved
  <2>2. ASSUME ~astray', Mended, req[r].mine \in 1..Len(conv')
        PROVE  Moved(q, req[r].mine) \/ ToldIn(known', conv'[req[r].mine].cid, conv'[req[r].mine].sent)
    BY <1>1, <1>4, <2>2 DEF Mended, Alone
  <2> QED
    BY <1>1, <1>3, <1>4, <2>1, <2>2, RepairStep
<1> QED
  BY <1>3, <1>4

\* A conversation of the pool and its request change.
LEMMA ConvRepairs ==
  ASSUME TypeInv, NEW r \in Slots, NEW q \in Requests, req' = [req EXCEPT ![r] = q],
         NEW k \in 1..Len(conv), NEW c \in Conversations, conv' = [conv EXCEPT ![k] = c],
         q.mine = k, req[r].mine = k, current' = current, cids' \in 0..MaxCids,
         known' \in [1..MaxCids -> SUBSET Messages],
         \A cid \in 1..MaxCids : known[cid] \subseteq known'[cid],
         astray' \in BOOLEAN, astray => astray',
         Alone(r) /\ ~astray' /\ Mended => Moved(q, k) \/ ToldIn(known', c.cid, c.sent),
         cache' = cache \/ (cache' \in Records /\ cache'.cid = c.cid /\ cache'.sent = c.sent
                            /\ (~astray' /\ Mended => ToldIn(known', c.cid, c.sent))),
         disk' \in {cache', disk}, disk' \in Records \cup {NoRecord},
         conv'[k] = c /\ ~astray' /\ Mended /\ q.stage # "idle" => Awaits(known', conv', q)
  PROVE  TypeInv' /\ (Alone(r) /\ Repaired => Repaired')
<1>1. /\ conv' \in Seq(Conversations) /\ Len(conv') = Len(conv)
      /\ \A j \in 1..Len(conv) : conv'[j] = IF j = k THEN c ELSE conv[j]
      /\ Len(conv) \in Nat /\ Len(conv) <= MaxConvs
  BY ConvExcept, TypeFacts DEF TypeInv
<1>2. Holds(conv', q)
  BY <1>1 DEF Holds
<1>3. TypeInv' /\ req'[r] = q
  <2>1. cache' \in Records \cup {NoRecord, NotLoaded} /\ current' \in 0..Len(conv')
    BY <1>1 DEF TypeInv, TypeOK
  <2>2. Len(conv) <= Len(conv') /\ Len(conv') <= MaxConvs
    BY <1>1
  <2> QED
    BY <1>1, <1>2, <2>1, <2>2, StepTypes
<1>4. \A j \in 1..Len(conv') :
        \/ j = k
        \/ /\ j \in 1..Len(conv) /\ conv'[j].cid = conv[j].cid /\ conv'[j].sent = conv[j].sent
           /\ ~Moved(req[r], j)
  BY <1>1 DEF Moved
<1>5. ASSUME Alone(r), Repaired PROVE Repaired'
  <2>1. conv'[k] = c
    BY <1>1
  <2>2. ~astray' /\ Mended => Moved(req'[r], k) \/ ToldIn(known', conv'[k].cid, conv'[k].sent)
    BY <1>3, <1>5, <2>1
  <2>3. ~astray' /\ Mended /\ cache' \in Records =>
          cache' \in {cache, disk} \/ ToldIn(known', cache'.cid, cache'.sent)
    OBVIOUS
  <2>4. ~astray' /\ Mended /\ req'[r].stage # "idle" => Awaits(known', conv', req'[r])
    BY <1>3, <2>1
  <2>5. \A j \in 1..Len(conv') :
          \/ j = k
          \/ /\ j \in 1..Len(conv) /\ conv'[j].cid = conv[j].cid /\ conv'[j].sent = conv[j].sent
             /\ ~astray' => ~Moved(req[r], j)
    BY <1>4
  <2> QED
    BY <1>3, <1>5, <2>2, <2>3, <2>4, <2>5, RepairStep, ZenonT(30)
<1> QED
  BY <1>3, <1>5

(* The beginning of a request. *)

\* The conversation a request begins with is what the store and the pool say.
LEMMA BeginRepairs ==
  ASSUME TypeInv, NEW r \in Slots, NEW k \in 1..MaxConvs, NEW h \in Histories, Uses(r, k, h),
         conv' \in Seq(Conversations), k \in 1..Len(conv'), Len(conv) <= Len(conv'), Len(conv') <= MaxConvs,
         \A j \in 1..Len(conv') : j = k \/ (j \in 1..Len(conv) /\ conv'[j] = conv[j]),
         Alone(r) /\ Mended => ToldIn(known, conv'[k].cid, conv'[k].sent),
         current' \in 0..Len(conv'), cids' \in 0..MaxCids,
         cache' \in Records \cup {NoRecord, NotLoaded},
         Mended /\ cache' \in Records =>
           cache' \in {cache, disk} \/ ToldIn(known, cache'.cid, cache'.sent),
         disk' \in {cache', disk}, disk' \in Records \cup {NoRecord}
  PROVE  TypeInv' /\ (Alone(r) /\ Repaired => Repaired')
<1>1. TypeOK /\ conv'[k] \in Conversations
  BY ElementOfSeq DEF TypeInv
<1>2. /\ req' \in [Slots -> Requests] /\ known' = known /\ astray' = astray
      /\ req'[r].stage = "ready" /\ req'[r].history = h /\ req'[r].mine = k
      /\ req'[r].text = Prompt(conv'[k], h) /\ req'[r].original = Prompt(conv'[k], h)
      /\ \A s \in Slots \ {r} : req'[s] = req[s]
  BY <1>1, UsesType
<1>3. req'[r] \in Requests /\ req' = [req EXCEPT ![r] = req'[r]]
  BY <1>1, <1>2 DEF Uses, TypeOK
<1>4. Holds(conv', req'[r])
  BY <1>2 DEF Holds
<1>5. TypeInv'
  BY <1>1, <1>2, <1>3, <1>4, StepTypes DEF TypeOK
<1>6. \A j : ~Moved(req[r], j)
  BY DEF Uses, Moved, Busy
<1>7. Alone(r) /\ Mended => Awaits(known', conv', req'[r])
  <2>1. Alone(r) /\ Mended => HeardIn(known', conv', req'[r])
    BY <1>1, HeardBegin
  <2>2. Alone(r) /\ Mended => Reaches(known', conv', req'[r], req'[r].text)
    BY <1>2, <2>1 DEF HeardIn, Reaches
  <2> QED
    BY <1>2, <2>2 DEF Awaits
<1> QED
  BY <1>1, <1>2, <1>5, <1>6, <1>7, RepairStep

LEMMA BeginKnownRepairs ==
  ASSUME TypeInv, NEW r \in Slots, NEW h \in Histories, BeginKnown(r, h)
  PROVE  TypeInv' /\ (Alone(r) /\ Repaired => Repaired')
<1> DEFINE c == [conv[current] EXCEPT !.idle = FALSE]
<1>1. /\ TypeOK /\ current \in 1..Len(conv) /\ current \in 1..MaxConvs /\ Len(conv) \in Nat
      /\ conv[current] \in Conversations
  BY TypeFacts, ConversationAssumption DEF BeginKnown, NoConv, TypeInv, TypeOK
<1>2. c \in Conversations /\ c.cid = conv[current].cid /\ c.sent = conv[current].sent
  BY <1>1 DEF Conversations
<1>3. conv' = [conv EXCEPT ![current] = c] /\ Uses(r, current, h) /\ UNCHANGED <<current, cids, cache, disk>>
  BY DEF BeginKnown, store
<1> HIDE DEF c
<1>4. /\ conv' \in Seq(Conversations) /\ Len(conv') = Len(conv)
      /\ \A j \in 1..Len(conv) : conv'[j] = IF j = current THEN c ELSE conv[j]
  BY <1>1, <1>2, <1>3, ConvExcept
<1>5. Alone(r) /\ Mended => ToldIn(known, conv'[current].cid, conv'[current].sent)
  <2>1. ~Moved(req[r], current) /\ conv'[current] = c
    BY <1>1, <1>3, <1>4 DEF Uses, Moved, Busy
  <2> QED
    BY <1>1, <1>2, <2>1 DEF Mended, Alone
<1> QED
  BY <1>1, <1>3, <1>4, <1>5, BeginRepairs, TypeFacts DEF TypeOK

LEMMA BeginShrunkRepairs ==
  ASSUME TypeInv, NEW r \in Slots, NEW h \in Histories, BeginShrunk(r, h)
  PROVE  TypeInv' /\ (Alone(r) /\ Repaired => Repaired')
<1> DEFINE c == [conv[current] EXCEPT !.begun = FALSE, !.sent = 0, !.idle = FALSE]
<1>1. /\ TypeOK /\ current \in 1..Len(conv) /\ current \in 1..MaxConvs /\ Len(conv) \in Nat
      /\ conv[current] \in Conversations /\ 0 \in 0..MaxLen
  BY TypeFacts, ConversationAssumption DEF BeginShrunk, NoConv, TypeInv, TypeOK
<1>2. c \in Conversations /\ c.sent = 0
  BY <1>1 DEF Conversations
<1>3. /\ conv' = [conv EXCEPT ![current] = c] /\ Persist(conv'[current]) /\ Uses(r, current, h)
      /\ UNCHANGED <<current, cids>>
  BY DEF BeginShrunk
<1> HIDE DEF c
<1>4. /\ conv' \in Seq(Conversations) /\ Len(conv') = Len(conv)
      /\ \A j \in 1..Len(conv) : conv'[j] = IF j = current THEN c ELSE conv[j]
  BY <1>1, <1>2, <1>3, ConvExcept
<1>5. \A K, cid : ToldIn(K, cid, 0)
  BY DEF ToldIn
<1>6. /\ cache' \in Records /\ cache'.sent = 0
      /\ disk' \in {cache', disk} /\ disk' \in Records \cup {NoRecord}
  <2>1. cache' = [cid |-> c.cid, sent |-> c.sent, fresh |-> TRUE] /\ disk' \in {cache', disk}
    BY <1>1, <1>3, <1>4 DEF Persist
  <2>2. c.cid \in 1..MaxCids /\ c.sent \in 0..MaxLen
    BY <1>2 DEF Conversations
  <2>3. [cid |-> c.cid, sent |-> c.sent, fresh |-> TRUE] \in Records
    BY <2>2 DEF Records
  <2>4. disk \in Records \cup {NoRecord}
    BY <1>1 DEF TypeOK
  <2> QED
    BY <1>2, <2>1, <2>3, <2>4
<1>7. ToldIn(known, conv'[current].cid, conv'[current].sent) /\ ToldIn(known', cache'.cid, cache'.sent)
      /\ ToldIn(known, cache'.cid, cache'.sent)
  BY <1>1, <1>2, <1>4, <1>5, <1>6
<1> QED
  BY <1>1, <1>3, <1>4, <1>6, <1>7, BeginRepairs, TypeFacts DEF TypeOK

LEMMA BeginAppendedRepairs ==
  ASSUME TypeInv, NEW r \in Slots, NEW h \in Histories, NEW c \in Conversations,
         conv' = Append(conv, c), current' = Len(conv) + 1, Len(conv) < MaxConvs,
         Uses(r, Len(conv) + 1, h), cids' \in 0..MaxCids, disk' = disk,
         cache' = Loaded \/ cache' = NoRecord,
         Alone(r) /\ Mended => ToldIn(known, c.cid, c.sent)
  PROVE  TypeInv' /\ (Alone(r) /\ Repaired => Repaired')
<1>1. TypeOK /\ Len(conv) \in Nat /\ Len(conv) + 1 \in 1..MaxConvs
  BY TypeFacts, ConversationAssumption DEF TypeInv
<1>2. /\ conv' \in Seq(Conversations) /\ Len(conv') = Len(conv) + 1
      /\ \A j \in 1..Len(conv) : conv'[j] = conv[j]
      /\ conv'[Len(conv) + 1] = c
  BY <1>1, ConvAppend
<1>3. \A j \in 1..Len(conv') : j = Len(conv) + 1 \/ (j \in 1..Len(conv) /\ conv'[j] = conv[j])
  <2>1. \A j \in 1..(Len(conv) + 1) : j = Len(conv) + 1 \/ j \in 1..Len(conv)
    BY <1>1
  <2> QED
    BY <1>2, <2>1
<1>4. /\ cache' \in Records \cup {NoRecord} /\ (cache' \in Records => cache' \in {cache, disk})
      /\ disk' \in Records \cup {NoRecord}
  BY <1>1, StoreShape DEF Loaded, TypeOK
<1>5. Len(conv) + 1 \in 1..Len(conv') /\ Len(conv) <= Len(conv') /\ Len(conv') <= MaxConvs
      /\ current' \in 0..Len(conv')
  BY <1>1, <1>2
<1> QED
  BY <1>1, <1>2, <1>3, <1>4, <1>5, BeginRepairs

LEMMA BeginHydratedRepairs ==
  ASSUME TypeInv, NEW r \in Slots, NEW h \in Histories, BeginHydrated(r, h)
  PROVE  TypeInv' /\ (Alone(r) /\ Repaired => Repaired')
<1> DEFINE c == Hydrated(Loaded)
<1>1. TypeOK /\ Loaded \in Records
  BY StoreShape DEF BeginHydrated, TypeInv
<1>2. c \in Conversations /\ c.cid = Loaded.cid /\ c.sent = Loaded.sent
  BY <1>1 DEF Hydrated, Records, Conversations, Agents
<1>3. Mended => ToldIn(known, Loaded.cid, Loaded.sent)
  BY <1>1, StoreShape DEF Mended, Loaded
<1>4. /\ conv' = Append(conv, c) /\ current' = Len(conv) + 1 /\ Len(conv) < MaxConvs
      /\ Uses(r, Len(conv) + 1, h) /\ cids' = cids /\ disk' = disk /\ cache' = Loaded
  BY DEF BeginHydrated
<1>5. cids' \in 0..MaxCids
  BY <1>1, <1>4 DEF TypeOK
<1> HIDE DEF c
<1> QED
  BY <1>2, <1>3, <1>4, <1>5, BeginAppendedRepairs

LEMMA BeginFreshRepairs ==
  ASSUME TypeInv, NEW r \in Slots, NEW h \in Histories, BeginFresh(r, h)
  PROVE  TypeInv' /\ (Alone(r) /\ Repaired => Repaired')
<1>1. cids + 1 \in 1..MaxCids /\ cids + 1 \in 0..MaxCids /\ 0 \in 0..MaxLen
  BY ConversationAssumption DEF BeginFresh, TypeInv, TypeOK
<1>2. Fresh \in Conversations /\ Fresh.sent = 0
  BY <1>1 DEF Fresh, Conversations, Agents
<1>3. ToldIn(known, Fresh.cid, Fresh.sent)
  BY <1>2 DEF ToldIn
<1>4. /\ conv' = Append(conv, Fresh) /\ current' = Len(conv) + 1 /\ Len(conv) < MaxConvs
      /\ Uses(r, Len(conv) + 1, h) /\ cids' = cids + 1 /\ disk' = disk /\ cache' = NoRecord
  BY DEF BeginFresh
<1> QED
  BY <1>1, <1>2, <1>3, <1>4, BeginAppendedRepairs

(* The turns. *)

\* A deleted agent swallows the prompt, any other turn leaves it in the conversation.
LEMMA SendRepairs ==
  ASSUME TypeInv, NEW r \in Slots, Send(r)
  PROVE  TypeInv' /\ (Alone(r) /\ Repaired => Repaired')
<1> DEFINE k == req[r].mine
           cid == conv[k].cid
<1>1. /\ TypeOK /\ req[r] \in Requests /\ req[r].stage = "ready" /\ req[r].text \in SUBSET Messages
      /\ k \in 1..Len(conv) /\ conv[k] \in Conversations /\ cid \in 1..MaxCids
  BY TypeFacts DEF Send, TypeInv, Holds
<1>2. PICK agent \in AgentFor(conv[k]) :
        LET dead == WantAgent /\ agent = "dead" IN
        /\ conv' = [conv EXCEPT ![k] = [@ EXCEPT !.begun = TRUE, !.agent = agent]]
        /\ known' = IF dead THEN known ELSE [known EXCEPT ![cid] = @ \cup req[r].text]
        /\ req' = [req EXCEPT ![r] =
             [@ EXCEPT !.stage = "streaming", !.text = {}, !.ran = cid, !.lost = dead]]
        /\ UNCHANGED <<current, cids, store, astray>>
  BY DEF Send
<1> DEFINE dead == WantAgent /\ agent = "dead"
           c == [conv[k] EXCEPT !.begun = TRUE, !.agent = agent]
           q == [req[r] EXCEPT !.stage = "streaming", !.text = {}, !.ran = cid, !.lost = dead]
<1>3. agent \in Agents
  BY <1>1 DEF AgentFor, Agents, Conversations
<1>4. c \in Conversations /\ c.cid = cid /\ c.sent = conv[k].sent /\ c.agent = agent
  BY <1>1, <1>3 DEF Conversations
<1>5. dead \in BOOLEAN /\ cid \in 0..MaxCids
  BY <1>1, ConversationAssumption DEF WantAgent
<1>6. /\ q \in Requests /\ q.mine = k /\ q.history = req[r].history /\ q.stage = "streaming"
      /\ q.ran = cid /\ q.lost = dead /\ q.rotated = req[r].rotated /\ q.original = req[r].original
  <2> HIDE DEF dead, cid, k
  <2>1. q \in Requests
    BY <1>1, <1>5 DEF Requests, Stages
  <2> QED
    BY <1>1, <2>1 DEF Requests, k
<1>7. /\ conv' = [conv EXCEPT ![k] = c] /\ req' = [req EXCEPT ![r] = q]
      /\ known' = IF dead THEN known ELSE [known EXCEPT ![cid] = @ \cup req[r].text]
      /\ UNCHANGED <<current, cids, cache, disk, astray>>
  BY <1>2 DEF store
<1>8. /\ known' \in [1..MaxCids -> SUBSET Messages]
      /\ ~dead => known'[cid] = known[cid] \cup req[r].text
      /\ \A d \in 1..MaxCids : known[d] \subseteq known'[d]
  <2>1. known \in [1..MaxCids -> SUBSET Messages]
    BY <1>1 DEF TypeOK
  <2> HIDE DEF cid, dead
  <2> QED
    BY <1>1, <1>7, <2>1
<1>9. Swallowed(conv, req[r]) => dead
  BY DEF Swallowed, AgentFor
<1> HIDE DEF c, q
<1>10. Alone(r) /\ Mended => Moved(q, k) \/ ToldIn(known', c.cid, c.sent)
  <2>1. Moved(req[r], k) => Moved(q, k)
    BY <1>1, <1>6 DEF Moved, Busy
  <2>2. Alone(r) /\ Mended => Moved(req[r], k) \/ ToldIn(known, conv[k].cid, conv[k].sent)
    BY <1>1 DEF Mended, Alone
  <2> QED
    BY <1>1, <1>4, <1>8, <2>1, <2>2, ToldStays
<1>11. conv'[k] = c /\ Mended => Awaits(known', conv', q)
  <2> SUFFICES ASSUME conv'[k] = c, Mended PROVE Awaits(known', conv', q)
    OBVIOUS
  <2>1. Awaits(known, conv, req[r])
    BY <1>1 DEF Mended
  <2>2. Busy(q) /\ ~q.rotated => Reaches(known', conv', q, q.original)
    <3>1. ~q.rotated => Reaches(known, conv, req[r], req[r].original)
      BY <1>1, <1>6, <2>1 DEF Awaits, Busy
    <3>2. known[conv[req[r].mine].cid] \cup req[r].original \subseteq known'[conv'[q.mine].cid] \cup q.original
      BY <1>1, <1>4, <1>6, <1>8
    <3> QED
      BY <1>6, <3>1, <3>2, ReachesStays
  <2>3. q.lost => Swallowed(conv', q)
    BY <1>4, <1>6 DEF Swallowed
  <2>4. ~q.lost => Reaches(known', conv', q, {})
    <3>1. ~q.lost => Reaches(known, conv, req[r], req[r].text)
      BY <1>1, <1>6, <1>9, <2>1 DEF Awaits
    <3>2. ~q.lost => known[conv[req[r].mine].cid] \cup req[r].text \subseteq known'[conv'[q.mine].cid] \cup {}
      BY <1>1, <1>4, <1>6, <1>8
    <3> QED
      BY <1>6, <3>1, <3>2, ReachesStays
  <2> QED
    BY <1>4, <1>6, <2>2, <2>3, <2>4 DEF Awaits
<1>12. /\ cids' \in 0..MaxCids /\ astray' \in BOOLEAN /\ disk' \in Records \cup {NoRecord}
       /\ (astray => astray') /\ disk' \in {cache', disk}
  BY <1>1, <1>7 DEF TypeOK
<1> HIDE DEF k, cid, dead
<1> QED
  BY <1>1, <1>4, <1>6, <1>7, <1>8, <1>10, <1>11, <1>12, ConvRepairs DEF k

LEMMA FailRepairs ==
  ASSUME TypeInv, NEW r \in Slots, Fail(r)
  PROVE  TypeInv' /\ (Alone(r) /\ Repaired => Repaired')
<1>1. astray' \in BOOLEAN /\ astray' = (astray \/ req[r].rotated) /\ req' = [req EXCEPT ![r] = Nothing]
      /\ UNCHANGED <<pool, known, store>>
  BY TypeFacts DEF Fail, TypeInv, TypeOK, Requests
<1>2. ~astray' => \A k : ~Moved(req[r], k)
  BY <1>1 DEF Moved
<1> QED
  BY <1>1, <1>2, NothingIsRequest, RequestRepairs

\* The answer is counted and persisted for the conversation that gave it.
LEMMA AnswerRepairs ==
  ASSUME TypeInv, NEW r \in Slots, Answer(r)
  PROVE  TypeInv' /\ (Alone(r) /\ Repaired => Repaired')
<1> DEFINE k == req[r].mine
           h == req[r].history
           c == [conv[k] EXCEPT !.sent = Len(h)]
           q == [Nothing EXCEPT !.stage = "answered", !.history = h, !.mine = k, !.ran = req[r].ran]
<1>1. /\ TypeOK /\ req[r] \in Requests /\ req[r].stage = "streaming" /\ h \in Histories /\ ~req[r].lost
      /\ k \in 1..Len(conv) /\ conv[k] \in Conversations /\ conv[k].cid \in 1..MaxCids
  BY TypeFacts DEF Answer, Ends, TypeInv, Holds, Requests
<1>2. Mended => req[r].ran = conv[k].cid /\ ToldIn(known, conv[k].cid, Len(h))
  BY <1>1 DEF Mended, Awaits, Reaches, ToldIn
<1>3. Len(h) \in 0..MaxLen
  BY <1>1, HistoryShape, ConversationAssumption
<1>4. c \in Conversations /\ c.cid = conv[k].cid /\ c.sent = Len(h)
  BY <1>1, <1>3 DEF Conversations
<1>5. /\ q \in Requests /\ q.stage = "answered" /\ q.history = h /\ q.ran = req[r].ran /\ q.mine = k
  BY <1>1, NothingIsRequest DEF Requests, Stages
<1>6. /\ conv' = [conv EXCEPT ![k] = c] /\ req' = [req EXCEPT ![r] = q] /\ Persist(conv'[k])
      /\ UNCHANGED <<current, cids, known, astray>>
  BY DEF Answer
<1> HIDE DEF c, q, h
<1>7. conv'[k] = c /\ Len(conv') = Len(conv)
  BY <1>1, <1>4, <1>6, ConvExcept
<1>8. /\ cache' \in Records /\ cache'.cid = c.cid /\ cache'.sent = c.sent
      /\ disk' \in {cache', disk} /\ disk' \in Records \cup {NoRecord}
  <2>1. c.cid \in 1..MaxCids /\ c.sent \in 0..MaxLen
    BY <1>1, <1>3, <1>4
  <2>2. [cid |-> c.cid, sent |-> c.sent, fresh |-> TRUE] \in Records
    BY <2>1 DEF Records
  <2>3. cache' = [cid |-> c.cid, sent |-> c.sent, fresh |-> TRUE] /\ disk' \in {cache', disk}
    BY <1>6, <1>7 DEF Persist
  <2>4. disk \in Records \cup {NoRecord}
    BY <1>1 DEF TypeOK
  <2> QED
    BY <2>2, <2>3, <2>4
<1>9. Mended => ToldIn(known', c.cid, c.sent)
  BY <1>2, <1>4, <1>6
<1>10. conv'[k] = c /\ Mended => Awaits(known', conv', q)
  BY <1>2, <1>4, <1>5, <1>6 DEF Awaits, Busy, Reaches, ToldIn
<1>11. /\ known' \in [1..MaxCids -> SUBSET Messages] /\ astray' \in BOOLEAN /\ cids' \in 0..MaxCids
       /\ \A d \in 1..MaxCids : known[d] \subseteq known'[d]
  BY <1>1, <1>6 DEF TypeOK
<1> HIDE DEF k
<1> QED
  BY <1>1, <1>4, <1>5, <1>6, <1>8, <1>9, <1>10, <1>11, ConvRepairs DEF k

\* The whole history goes to a conversation that was told nothing.
LEMMA RotateRepairs ==
  ASSUME TypeInv, NEW r \in Slots, Rotate(r)
  PROVE  TypeInv' /\ (Alone(r) /\ Repaired => Repaired')
<1> DEFINE k == req[r].mine
           h == req[r].history
           c == [conv[k] EXCEPT !.cid = cids + 1]
           q == [req[r] EXCEPT !.stage = "ready", !.text = Content(h), !.rotated = TRUE]
<1>1. /\ TypeOK /\ req[r] \in Requests /\ req[r].stage = "streaming" /\ h \in Histories
      /\ k \in 1..Len(conv) /\ conv[k] \in Conversations /\ cids < MaxCids /\ cids \in Nat /\ cids <= MaxCids
  BY TypeFacts, ConversationAssumption DEF Rotate, Ends, TypeInv, TypeOK, Holds
<1>2. cids + 1 \in 1..MaxCids /\ cids + 1 \in 0..MaxCids
  BY <1>1, ConversationAssumption
<1>3. c \in Conversations /\ c.cid = cids + 1
  BY <1>1, <1>2 DEF Conversations
<1>4. Content(h) \subseteq Messages
  BY <1>1, HistoryShape
<1>5. /\ q \in Requests /\ q.stage = "ready" /\ q.history = h /\ q.text = Content(h) /\ q.mine = k
      /\ q.rotated = TRUE
  BY <1>1, <1>4 DEF Requests, Stages
<1>6. /\ conv' = [conv EXCEPT ![k] = c] /\ req' = [req EXCEPT ![r] = q] /\ cids' = cids + 1
      /\ UNCHANGED <<current, known, cache, disk, astray>>
  BY DEF Rotate, store
<1> HIDE DEF c, q
<1>7. Moved(q, k)
  BY <1>5 DEF Moved, Busy
<1>8. Awaits(known', conv', q)
  <2>1. \A i \in 1..Len(h) : h[i] \in Versions /\ <<i, h[i]>> \in Content(h)
    BY <1>1, HistoryShape DEF Content
  <2> HIDE DEF h
  <2>2. Reaches(known', conv', q, q.text)
    BY <1>5, <2>1 DEF Reaches
  <2> QED
    BY <1>5, <2>2 DEF Awaits
<1>9. /\ known' \in [1..MaxCids -> SUBSET Messages] /\ astray' \in BOOLEAN /\ cids' \in 0..MaxCids
      /\ disk' \in Records \cup {NoRecord} /\ \A d \in 1..MaxCids : known[d] \subseteq known'[d]
  BY <1>1, <1>2, <1>6 DEF TypeOK
<1> HIDE DEF k, h
<1> QED
  BY <1>1, <1>3, <1>5, <1>6, <1>7, <1>8, <1>9, ConvRepairs DEF k

\* A bare nudge follows a prompt that arrived; a swallowed one waits for a new agent.
LEMMA EmptyRepairs ==
  ASSUME TypeInv, NEW r \in Slots, Empty(r)
  PROVE  TypeInv' /\ (Alone(r) /\ Repaired => Repaired')
<1> DEFINE q == [req[r] EXCEPT !.stage = IF req[r].refreshed THEN "ready" ELSE "refreshing",
                               !.text = {}, !.attempt = req[r].attempt + 1, !.refreshed = TRUE]
<1>1. TypeOK /\ req[r] \in Requests /\ req[r].stage = "streaming" /\ req[r].attempt < MaxRetries
  BY TypeFacts DEF Empty, Ends, Verdict, TypeInv
<1>2. req[r].attempt + 1 \in 0..MaxRetries
  BY <1>1, RetryAssumption DEF Requests
<1>3. /\ q \in Requests /\ q.mine = req[r].mine /\ q.history = req[r].history
      /\ q.stage \in {"ready", "refreshing"} /\ q.text = {} /\ q.refreshed = TRUE
      /\ q.rotated = req[r].rotated /\ q.original = req[r].original
  BY <1>1, <1>2 DEF Requests, Stages
<1>4. req' = [req EXCEPT ![r] = q] /\ UNCHANGED <<pool, known, store, astray>>
  BY DEF Empty
<1> HIDE DEF q
<1>5. Mended => Awaits(known, conv, q)
  <2> SUFFICES ASSUME Mended PROVE Awaits(known, conv, q)
    OBVIOUS
  <2>1. Awaits(known, conv, req[r])
    BY <1>1 DEF Mended
  <2>2. Reaches(known, conv, q, {}) \/ (Swallowed(conv, q) /\ q.refreshed)
    BY <1>1, <1>3, <2>1 DEF Awaits, Reaches, Swallowed
  <2>3. ~q.rotated => Reaches(known, conv, q, q.original)
    BY <1>1, <1>3, <2>1 DEF Awaits, Reaches, Busy
  <2> QED
    BY <1>3, <2>2, <2>3 DEF Awaits
<1>6. \A k : Moved(req[r], k) => Moved(q, k)
  BY <1>3 DEF Moved, Busy
<1>7. astray' \in BOOLEAN /\ (astray => astray') /\ UNCHANGED <<pool, known, store>>
  BY <1>1, <1>4 DEF TypeOK
<1> QED
  BY <1>1, <1>3, <1>4, <1>5, <1>6, <1>7, RequestRepairs

\* A new agent gets the prompt the old one may have swallowed.
LEMMA AgentChangedRepairs ==
  ASSUME TypeInv, NEW r \in Slots, AgentChanged(r)
  PROVE  TypeInv' /\ (Alone(r) /\ Repaired => Repaired')
<1> DEFINE k == req[r].mine
           q == [req[r] EXCEPT !.stage = "ready", !.text = req[r].original]
<1>1. /\ TypeOK /\ req[r] \in Requests /\ req[r].stage = "refreshing"
      /\ k \in 1..Len(conv) /\ conv[k] \in Conversations
  BY TypeFacts DEF AgentChanged, TypeInv, Holds
<1>2. PICK id \in AgentIds : conv' = [conv EXCEPT ![k].agent = id]
  BY DEF AgentChanged
<1> DEFINE c == [conv[k] EXCEPT !.agent = id]
<1>3. c \in Conversations /\ c.cid = conv[k].cid /\ c.sent = conv[k].sent
  BY <1>1 DEF Conversations, AgentIds, Agents
<1>4. conv' = [conv EXCEPT ![k] = c]
  BY <1>2
<1>5. /\ q \in Requests /\ q.mine = k /\ q.history = req[r].history /\ q.stage = "ready"
      /\ q.text = req[r].original /\ q.original = req[r].original /\ q.rotated = req[r].rotated
  BY <1>1 DEF Requests, Stages
<1>6. /\ req' = [req EXCEPT ![r] = q] /\ UNCHANGED <<current, cids, known, cache, disk>>
      /\ astray' = (astray \/ req[r].rotated)
  BY DEF AgentChanged, store
<1> HIDE DEF c, q
<1>7. ~astray' /\ Mended => Reaches(known, conv, req[r], req[r].original)
  BY <1>1, <1>6 DEF Mended, Awaits, Busy
<1>8. conv'[k] = c /\ ~astray' /\ Mended => Awaits(known', conv', q)
  BY <1>3, <1>5, <1>6, <1>7 DEF Awaits, Reaches
<1>9. Alone(r) /\ ~astray' /\ Mended => ToldIn(known', c.cid, c.sent)
  BY <1>1, <1>3, <1>6 DEF Mended, Moved, Alone
<1>10. /\ known' \in [1..MaxCids -> SUBSET Messages] /\ cids' \in 0..MaxCids
       /\ disk' \in Records \cup {NoRecord} /\ astray' \in BOOLEAN /\ (astray => astray')
       /\ \A d \in 1..MaxCids : known[d] \subseteq known'[d]
  BY <1>1, <1>6 DEF TypeOK, Requests
<1> HIDE DEF k
<1> QED
  BY <1>1, <1>3, <1>4, <1>5, <1>6, <1>8, <1>9, <1>10, ConvRepairs DEF k

LEMMA AgentUnchangedRepairs ==
  ASSUME TypeInv, NEW r \in Slots, AgentUnchanged(r)
  PROVE  TypeInv' /\ (Alone(r) /\ Repaired => Repaired')
<1> DEFINE q == [req[r] EXCEPT !.stage = "ready"]
<1>1. TypeOK /\ req[r] \in Requests /\ req[r].stage = "refreshing"
  BY TypeFacts DEF AgentUnchanged, TypeInv
<1>2. /\ q \in Requests /\ q.mine = req[r].mine /\ q.history = req[r].history /\ q.stage = "ready"
      /\ q.text = req[r].text /\ q.original = req[r].original /\ q.rotated = req[r].rotated
      /\ q.refreshed = req[r].refreshed
  BY <1>1 DEF Requests, Stages
<1>3. req' = [req EXCEPT ![r] = q] /\ UNCHANGED <<pool, known, store, astray>>
  BY DEF AgentUnchanged
<1> HIDE DEF q
<1>4. Mended => Awaits(known, conv, q)
  <2> SUFFICES ASSUME Mended PROVE Awaits(known, conv, q)
    OBVIOUS
  <2>1. Awaits(known, conv, req[r])
    BY <1>1 DEF Mended
  <2>2. Reaches(known, conv, q, q.text) \/ (Swallowed(conv, q) /\ q.refreshed)
    BY <1>1, <1>2, <2>1 DEF Awaits, Reaches, Swallowed
  <2>3. ~q.rotated => Reaches(known, conv, q, q.original)
    BY <1>1, <1>2, <2>1 DEF Awaits, Reaches, Busy
  <2> QED
    BY <1>2, <2>2, <2>3 DEF Awaits
<1>5. \A k : Moved(req[r], k) => Moved(q, k)
  BY <1>2 DEF Moved, Busy
<1>6. astray' \in BOOLEAN /\ (astray => astray') /\ UNCHANGED <<pool, known, store>>
  BY <1>1, <1>3 DEF TypeOK
<1> QED
  BY <1>1, <1>2, <1>3, <1>4, <1>5, <1>6, RequestRepairs

\* A further round has nothing of the client's to tell.
LEMMA NextRoundRepairs ==
  ASSUME TypeInv, NEW r \in Slots, NextRound(r)
  PROVE  TypeInv' /\ (Alone(r) /\ Repaired => Repaired')
<1> DEFINE q == Started(req[r], {})
<1>1. TypeOK /\ req[r] \in Requests /\ req[r].stage = "answered" /\ 0 \in 0..MaxRetries
  BY TypeFacts, RetryAssumption DEF NextRound, TypeInv
<1>2. /\ q \in Requests /\ q.mine = req[r].mine /\ q.history = req[r].history /\ q.stage = "ready"
      /\ q.text = {} /\ q.original = {}
  BY <1>1 DEF Started, Requests, Stages
<1>3. req' = [req EXCEPT ![r] = q] /\ UNCHANGED <<pool, known, store, astray>>
  BY DEF NextRound
<1> HIDE DEF q
<1>4. Mended => Awaits(known, conv, q)
  <2> SUFFICES ASSUME Mended PROVE Awaits(known, conv, q)
    OBVIOUS
  <2>1. Reaches(known, conv, req[r], {})
    BY <1>1 DEF Mended, Awaits
  <2>2. Reaches(known, conv, q, {})
    BY <1>2, <2>1 DEF Reaches
  <2> QED
    BY <1>2, <2>2 DEF Awaits
<1>5. \A k : ~Moved(req[r], k)
  BY <1>1 DEF Moved, Busy
<1>6. astray' \in BOOLEAN /\ (astray => astray') /\ UNCHANGED <<pool, known, store>>
  BY <1>1, <1>3 DEF TypeOK
<1> QED
  BY <1>1, <1>2, <1>3, <1>4, <1>5, <1>6, RequestRepairs

(* What happens around the requests. *)

\* The pool's conversations keep their ids and counts, and the requests do not move.
LEMMA AroundRepairs ==
  ASSUME TypeInv, conv' \in Seq(Conversations), Len(conv') = Len(conv),
         \A k \in 1..Len(conv) : conv'[k].cid = conv[k].cid /\ conv'[k].sent = conv[k].sent,
         \A k \in 1..Len(conv) : WantAgent /\ conv[k].agent = "dead" => conv'[k].agent = "dead",
         UNCHANGED <<current, cids, known, req, astray>>,
         cache' \in Records \cup {NoRecord, NotLoaded}, disk' \in Records \cup {NoRecord},
         Mended /\ cache' \in Records => ToldIn(known, cache'.cid, cache'.sent),
         Mended /\ disk' \in Records => ToldIn(known, disk'.cid, disk'.sent)
  PROVE  TypeInv' /\ (Repaired => Repaired')
<1>1. TypeInv'
  BY DEF TypeInv, TypeOK, Holds
<1>2. ASSUME Mended PROVE Mended'
  <2>1. \A k \in 1..Len(conv') :
          (\E r \in Slots : Moved(req'[r], k)) \/ ToldIn(known', conv'[k].cid, conv'[k].sent)
    BY <1>2 DEF Mended
  <2>2. ASSUME NEW r \in Slots, req[r].stage # "idle" PROVE Awaits(known, conv', req[r])
    <3>1. Awaits(known, conv, req[r]) /\ req[r].mine \in 1..Len(conv)
      BY <1>2, <2>2 DEF Mended, TypeInv, Holds
    <3>2. conv'[req[r].mine].cid = conv[req[r].mine].cid
      BY <3>1
    <3>3. Swallowed(conv, req[r]) => Swallowed(conv', req[r])
      BY <3>1 DEF Swallowed
    <3>4. \A S : Reaches(known, conv, req[r], S) => Reaches(known, conv', req[r], S)
      BY <3>2 DEF Reaches
    <3> QED
      BY <3>1, <3>2, <3>3, <3>4 DEF Awaits
  <2> QED
    BY <1>2, <2>1, <2>2 DEF Mended
<1> QED
  BY <1>1, <1>2 DEF Repaired

LEMMA AgentDeletedRepairs ==
  ASSUME TypeInv, NEW k \in DOMAIN conv, AgentDeleted(k)
  PROVE  TypeInv' /\ (Repaired => Repaired')
<1> DEFINE c == [conv[k] EXCEPT !.agent = "dead"]
<1>1. TypeOK /\ k \in 1..Len(conv) /\ conv[k] \in Conversations
  BY TypeFacts DEF TypeInv
<1>2. c \in Conversations /\ c.cid = conv[k].cid /\ c.sent = conv[k].sent /\ c.agent = "dead"
  BY <1>1 DEF Conversations, Agents
<1>3. conv' = [conv EXCEPT ![k] = c] /\ UNCHANGED <<current, cids, known, cache, disk, req, astray>>
  BY DEF AgentDeleted, store
<1> HIDE DEF c
<1>4. /\ conv' \in Seq(Conversations) /\ Len(conv') = Len(conv)
      /\ \A j \in 1..Len(conv) : conv'[j] = IF j = k THEN c ELSE conv[j]
  BY <1>1, <1>2, <1>3, ConvExcept
<1>5. /\ cache' \in Records \cup {NoRecord, NotLoaded} /\ disk' \in Records \cup {NoRecord}
      /\ Mended /\ cache' \in Records => ToldIn(known, cache'.cid, cache'.sent)
      /\ Mended /\ disk' \in Records => ToldIn(known, disk'.cid, disk'.sent)
  BY <1>1, <1>3 DEF TypeOK, Mended
<1> QED
  BY <1>2, <1>3, <1>4, <1>5, AroundRepairs

LEMMA RestRepairs == ASSUME TypeInv, Rest PROVE TypeInv' /\ (Repaired => Repaired')
<1>1. TypeOK /\ DOMAIN conv = 1..Len(conv) /\ Len(conv) \in Nat /\ \A k \in 1..Len(conv) : conv[k] \in Conversations
  BY TypeFacts DEF TypeInv
<1>2. /\ conv' \in Seq(Conversations) /\ Len(conv') = Len(conv)
      /\ \A k \in 1..Len(conv) : conv'[k] = [conv[k] EXCEPT !.idle = TRUE]
  <2>1. conv' = [k \in 1..Len(conv) |-> [conv[k] EXCEPT !.idle = TRUE]]
    BY <1>1 DEF Rest
  <2>2. \A k \in 1..Len(conv) : [conv[k] EXCEPT !.idle = TRUE] \in Conversations
    BY <1>1 DEF Conversations
  <2>3. conv' \in [1..Len(conv) -> Conversations]
    BY <2>1, <2>2
  <2>4. conv' \in Seq(Conversations)
    BY <1>1, <2>3, SeqDef
  <2>5. Len(conv') = Len(conv)
    BY <1>1, <2>3, <2>4, LenProperties
  <2> QED
    BY <2>1, <2>4, <2>5
<1>3. \A k \in 1..Len(conv) : /\ conv'[k].cid = conv[k].cid /\ conv'[k].sent = conv[k].sent
                              /\ conv'[k].agent = conv[k].agent
  BY <1>1, <1>2 DEF Conversations
<1>4. \A record \in Records : /\ Stale(record) \in Records
                              /\ Stale(record).cid = record.cid /\ Stale(record).sent = record.sent
  BY DEF Stale, Records
<1>5. \A record : record \notin Records => Stale(record) = record
  BY DEF Stale
<1>6. cache' = Stale(cache) /\ disk' = Stale(disk) /\ UNCHANGED <<current, cids, known, req, astray>>
  BY DEF Rest
<1>7. /\ cache' \in Records \cup {NoRecord, NotLoaded} /\ disk' \in Records \cup {NoRecord}
      /\ Mended /\ cache' \in Records => ToldIn(known, cache'.cid, cache'.sent)
      /\ Mended /\ disk' \in Records => ToldIn(known, disk'.cid, disk'.sent)
  BY <1>1, <1>4, <1>5, <1>6 DEF TypeOK, Mended
<1> QED
  BY <1>2, <1>3, <1>6, <1>7, AroundRepairs

LEMMA OtherFlushedRepairs == ASSUME TypeInv, OtherFlushed PROVE TypeInv' /\ (Repaired => Repaired')
<1>1. TypeOK /\ UNCHANGED <<conv, current, cids, known, cache, req, astray>> /\ disk' = cache /\ cache # NotLoaded
  BY DEF OtherFlushed, pool, TypeInv
<1>2. /\ cache' \in Records \cup {NoRecord, NotLoaded} /\ disk' \in Records \cup {NoRecord}
      /\ Mended /\ cache' \in Records => ToldIn(known, cache'.cid, cache'.sent)
      /\ Mended /\ disk' \in Records => ToldIn(known, disk'.cid, disk'.sent)
  BY <1>1 DEF TypeOK, Mended
<1> QED
  BY <1>1, <1>2, AroundRepairs DEF TypeOK

LEMMA RestartRepairs == ASSUME TypeInv, Restart PROVE TypeInv' /\ (Repaired => Repaired')
<1>1. TypeOK /\ NotLoaded \notin Records
  BY StoreShape DEF TypeInv
<1>2. /\ conv' = <<>> /\ current' = 0 /\ cache' = NotLoaded /\ req' = [r \in Slots |-> Nothing]
      /\ UNCHANGED <<cids, known, disk, astray>>
  BY DEF Restart, NoConv
<1>3. conv' \in Seq(Conversations) /\ Len(conv') = 0
  BY <1>2, EmptySeq
<1>4. TypeOK'
  BY <1>1, <1>2, <1>3, NothingIsRequest, ConversationAssumption DEF TypeOK
<1>5. \A r \in Slots : req'[r].stage = "idle"
  BY <1>2, NothingIsRequest
<1>6. TypeInv'
  BY <1>4, <1>5 DEF TypeInv, Holds
<1>7. Mended => Mended'
  BY <1>1, <1>2, <1>3, <1>5 DEF Mended
<1> QED
  BY <1>2, <1>6, <1>7 DEF Repaired

LEMMA RepairInit == Init => TypeInv /\ Repaired
<1> SUFFICES ASSUME Init PROVE TypeInv /\ Repaired
  OBVIOUS
<1>1. ToldInv
  BY ToldInit
<1>2. TypeOK /\ Believed(known, conv, cache, disk) /\ \A r \in Slots : req[r].stage = "idle"
  BY <1>1, ToldInvIs, NothingIsRequest DEF Init
<1> QED
  BY <1>2 DEF TypeInv, Holds, Repaired, Mended, Believed

LEMMA RepairOfSlot ==
  ASSUME TypeInv, NEW r \in Slots,
         \/ \E h \in Histories : Begin(r, h)
         \/ Send(r) \/ Refused(r) \/ Answer(r) \/ Rotate(r) \/ Empty(r)
         \/ \E outcome \in Outcomes : GiveUp(r, outcome)
         \/ AgentChanged(r) \/ AgentUnchanged(r) \/ NextRound(r)
  PROVE  TypeInv' /\ (Alone(r) /\ Repaired => Repaired')
<1>1. ASSUME NEW h \in Histories, Begin(r, h) PROVE TypeInv' /\ (Alone(r) /\ Repaired => Repaired')
  BY <1>1, BeginKnownRepairs, BeginShrunkRepairs, BeginHydratedRepairs, BeginFreshRepairs DEF Begin
<1>2. Refused(r) \/ (\E outcome \in Outcomes : GiveUp(r, outcome)) => Fail(r)
  BY DEF Refused, GiveUp
<1> QED
  BY <1>1, <1>2, SendRepairs, FailRepairs, AnswerRepairs, RotateRepairs, EmptyRepairs,
     AgentChangedRepairs, AgentUnchangedRepairs, NextRoundRepairs

LEMMA RepairStutters == ASSUME UNCHANGED vars PROVE (TypeInv => TypeInv') /\ (Repaired => Repaired')
BY DEF vars, pool, store, TypeInv, TypeOK, Holds, Repaired, Mended, Moved, Busy, ToldIn, Awaits, Reaches, Swallowed

LEMMA TypesKept == TypeInv /\ [Next]_vars => TypeInv'
BY RepairOfSlot, AgentDeletedRepairs, RestRepairs, OtherFlushedRepairs, RestartRepairs, RepairStutters DEF Next

LEMMA RepairKept ==
  ASSUME \A r, s \in Slots : r = s
  PROVE  TypeInv /\ Repaired /\ [Next]_vars => Repaired'
<1>1. \A r \in Slots : Alone(r)
  BY DEF Alone
<1> QED
  BY <1>1, RepairOfSlot, AgentDeletedRepairs, RestRepairs, OtherFlushedRepairs, RestartRepairs, RepairStutters
     DEF Next

(* Whatever overlaps, rotates, is deleted or restarted, the state has its    *)
(* type: in particular a request's ConversationState is one of this process. *)
THEOREM ConversationTypes == Spec => []TypeOK
<1>1. Init => TypeInv
  BY RepairInit
<1>2. TypeInv => TypeOK
  BY DEF TypeInv
<1> QED
  BY <1>1, <1>2, TypesKept, PTL DEF Spec

(* With tools too, if the requests of one fingerprint do not overlap: unless *)
(* a rotated request fails or repeats its first prompt, no deleted agent and *)
(* no Disengaged turn costs context.                                         *)
THEOREM AgentLossIsRepaired ==
  ASSUME Versions = {0}, \A r, s \in Slots : r = s
  PROVE  Spec => []AgentLossRepaired
<1>1. Init => TypeInv /\ Repaired
  BY RepairInit
<1>2. TypeInv /\ Repaired /\ [Next]_vars => (TypeInv /\ Repaired)'
  BY TypesKept, RepairKept
<1>3. TypeInv /\ Repaired => AgentLossRepaired
  <2> SUFFICES ASSUME TypeInv, Mended, NEW r \in Slots, req[r].stage = "answered"
               PROVE  Content(req[r].history) \subseteq known[req[r].ran]
    BY DEF Repaired, AgentLossRepaired, ContextComplete
  <2>1. Reaches(known, conv, req[r], {}) /\ req[r].ran = conv[req[r].mine].cid
    BY DEF Mended, Awaits
  <2>2. req[r].history \in Histories
    BY TypeFacts DEF TypeInv
  <2>3. /\ DOMAIN req[r].history = 1..Len(req[r].history)
        /\ \A i \in 1..Len(req[r].history) : req[r].history[i] = 0
    BY <2>2, HistoryShape
  <2> QED
    BY <2>1, <2>3 DEF Content, Reaches
<1> QED
  BY <1>1, <1>2, <1>3, PTL DEF Spec
=============================================================================
