--------------------------- MODULE McpServerProofs ---------------------------
(***************************************************************************)
(* Proofs about McpServer, for any number of workers, any set of files and *)
(* any tools the client may call: what a tool answers from is the graph of *)
(* every readable file.  They rest on the proofs about index_files.        *)
(***************************************************************************)
EXTENDS McpServer, IndexFilesProofs, SequenceTheorems

ServerStates == [ready : BOOLEAN, graph : SUBSET Jobs, failed : BOOLEAN]

\* The graph is published after index_files returned, and is not changed then.
PublishedWhole ==
    /\ state \in ServerStates
    /\ indexer \in {"resolving", "publishing"} => caller = "done"
    /\ state.ready => state.graph = WholeGraph

\* All the answers are to one client, which wants one thing.
OneClient ==
    /\ answers \in Seq(ToSet(answers))
    /\ session \subseteq Sessions
    /\ session = {} \/ \E s : session = {s}

\* The whole list of what session s pages through, in the order of the pages.
WholeList(s) == SetToSeq(IF s.tool \in Paged THEN Wanted(s) ELSE {})

\* The pages that the client has are a beginning of the list; the last one
\* told how long the list is, and is empty only after the end.
PagesFollow ==
    /\ received \in Seq(Declarations \cup Jobs)
    /\ session = {} => received = <<>>
    /\ \A s \in session :
         /\ Len(received) <= Len(WholeList(s))
         /\ \A i \in 1..Len(received) : received[i] = WholeList(s)[i]
    /\ answers # <<>> /\ "total" \in DOMAIN Last(answers).reply =>
         \A s \in session :
           /\ s.tool \in Paged
           /\ Last(answers).reply.total = Len(WholeList(s))
           /\ Last(answers).reply.results = <<>> => Len(received) = Len(WholeList(s))
    /\ call = "over" => ~ WantsMore

McpInv == PublishedWhole /\ OneClient /\ AnswersFromWholeGraph /\ PagesFollow

-----------------------------------------------------------------------------
(* The order of a list. *)

LEMMA SetInOrder ==
  ASSUME NEW S, IsFiniteSet(S)
  PROVE  /\ SetToSeq(S) \in Seq(S)
         /\ IsInjective(SetToSeq(S))
         /\ ToSet(SetToSeq(S)) = S
<1> DEFINE n == Cardinality(S)
           s == SetToSeq(S)
<1>1. PICK m \in Nat : ExistsBijection(1..m, S)
  BY FS_NatBijection
<1>2. n = m /\ n \in Nat
  BY <1>1, FS_CountingElements
<1>3. PICK f : f \in Bijection(1..n, S)
  BY <1>1, <1>2 DEF ExistsBijection
<1>4. \E g \in [1..n -> S] : IsInjective(g)
  BY <1>3 DEF Bijection, Injection
<1>5. s = CHOOSE g \in [1..n -> S] : IsInjective(g)
  BY DEF SetToSeq
<1> HIDE DEF s
<1>6. s \in [1..n -> S] /\ IsInjective(s)
  BY <1>4, <1>5
<1>7. IsFiniteSet(1..n) /\ Cardinality(1..n) = n
  BY <1>2, FS_Interval
<1>8. s \in Injection(1..n, S)
  BY <1>6 DEF Injection
<1>9. s \in Surjection(1..n, S)
  BY <1>7, <1>8, FS_Injection
<1>10. ToSet(s) = S
  BY <1>6, <1>9 DEF ToSet, Surjection
<1>11. s \in Seq(S)
  BY <1>2, <1>6
<1> QED
  BY <1>6, <1>10, <1>11 DEF s

LEMMA WantedInOrder ==
  ASSUME NEW s \in Sessions
  PROVE  /\ WholeList(s) \in Seq(Declarations \cup Jobs)
         /\ IsInjective(WholeList(s))
         /\ s.tool \in Paged => ToSet(WholeList(s)) = Wanted(s)
<1> DEFINE S == IF s.tool \in Paged THEN Wanted(s) ELSE {}
<1>1. Declared(WholeGraph) \subseteq Declarations /\ WholeGraph \subseteq Jobs
  BY ServerAssumption, JobsAssumption DEF Declared, WholeGraph
<1>2. S \subseteq Declarations \cup Jobs
  BY <1>1 DEF Wanted, Paged
<1>3. IsFiniteSet(Declarations \cup Jobs)
  BY ServerAssumption, JobsAssumption, FS_Union
<1>4. IsFiniteSet(S)
  BY <1>2, <1>3, FS_Subset
<1> HIDE DEF S
<1>5. /\ SetToSeq(S) \in Seq(S) /\ IsInjective(SetToSeq(S)) /\ ToSet(SetToSeq(S)) = S
  BY <1>4, SetInOrder
<1>6. SetToSeq(S) \in Seq(Declarations \cup Jobs)
  BY <1>2, <1>5
<1> QED
  BY <1>5, <1>6 DEF WholeList, S

-----------------------------------------------------------------------------

LEMMA McpInitStep == McpInit => IndexInit /\ McpInv
<1> SUFFICES ASSUME McpInit PROVE IndexInit /\ McpInv
  OBVIOUS
<1> USE DEF McpInit
<1>1. PublishedWhole
  BY DEF PublishedWhole, ServerStates, Starting
<1>2. OneClient
  BY DEF OneClient, ToSet
<1>3. AnswersFromWholeGraph
  BY DEF AnswersFromWholeGraph, ToSet
<1>4. PagesFollow
  BY DEF PagesFollow
<1> QED
  BY <1>1, <1>2, <1>3, <1>4 DEF McpInv

LEMMA McpIndexStep == [McpNext]_mcpVars => [IndexNext]_allVars
BY DEF McpNext, mcpVars, IndexStep, IndexNext, Background, Indexed, Resolve, LockWrite,
       Publish, Quiescent, Ask, LockRead, Reply, Tool, Returned

\* The server runs index_files: what is proved of it holds here.
LEMMA McpIndexInvariant == McpSpec => [](IndInv /\ IndexInv)
<1>1. McpSpec => IndexSpec
  BY McpInitStep, McpIndexStep, PTL DEF McpSpec, IndexSpec
<1> QED
  BY <1>1, IndexInvariant

\* When index_files has returned, what was merged is what can be read.
LEMMA MergedWhole ==
  ASSUME IndInv, IndexInv, caller = "done"
  PROVE  Elements(merged) = WholeGraph
<1>1. ReturnsEverything
  BY DoneReturnsEverything
<1> QED
  BY <1>1 DEF ReturnsEverything, WholeGraph, IndexInv, SentOnce

LEMMA DoneIsFinal ==
  ASSUME caller = "done", [IndexNext]_allVars
  PROVE  caller' = "done"
BY DEF IndexNext, allVars, indexVars, CallerStep, Merge, StopMerging, Join, Finish, Over,
       Indexer, SendResult, callerVars

LEMMA PublishedStep ==
  ASSUME IndInv, IndexInv, PublishedWhole, [McpNext]_mcpVars
  PROVE  PublishedWhole'
<1> USE DEF PublishedWhole
<1>1. caller = "done" => caller' = "done"
  BY McpIndexStep, DoneIsFinal
<1>2. CASE Publish
  <2>1. CASE indexer = "publishing"
    <3>1. Elements(merged) = WholeGraph /\ WholeGraph \in SUBSET Jobs
      BY <2>1, MergedWhole, JobsAssumption DEF WholeGraph
    <3>2. state' = [state EXCEPT !.ready = TRUE, !.graph = WholeGraph]
      BY <1>2, <2>1, <3>1 DEF Publish
    <3>3. state' \in ServerStates /\ state'.graph = WholeGraph
      BY <3>1, <3>2 DEF ServerStates
    <3> QED
      BY <1>2, <3>3 DEF Publish, WholeGraph
  <2>2. CASE indexer # "publishing"
    <3>1. state' = [state EXCEPT !.failed = TRUE]
      BY <1>2, <2>2 DEF Publish
    <3>2. state' \in ServerStates /\ state'.ready = state.ready /\ state'.graph = state.graph
      BY <3>1 DEF ServerStates
    <3> QED
      BY <1>2, <3>2 DEF Publish, WholeGraph
  <2> QED
    BY <2>1, <2>2
<1>3. CASE Indexed
  BY <1>1, <1>3 DEF Indexed, Caught, WholeGraph
<1>4. CASE Resolve \/ LockWrite
  BY <1>1, <1>4 DEF Resolve, Caught, LockWrite, WholeGraph
<1>5. CASE IndexStep \/ Quiescent \/ Ask \/ LockRead \/ Reply \/ UNCHANGED mcpVars
  BY <1>1, <1>5 DEF IndexStep, Quiescent, Ask, LockRead, Reply, Tool, Returned, WholeGraph,
    mcpVars, serverVars
<1> QED
  BY <1>2, <1>3, <1>4, <1>5 DEF McpNext, Background

-----------------------------------------------------------------------------
(* What the client is answered. *)

\* What is remembered is what was and the new answer, which is the last.
LEMMA Remembered ==
  ASSUME answers \in Seq(ToSet(answers)), NEW a, answers' = Remember(a)
  PROVE  /\ answers' \in Seq(ToSet(answers'))
         /\ ToSet(answers') = ToSet(answers) \cup {a}
         /\ answers' # <<>> /\ Last(answers') = a
<1>1. CASE answers' = Append(answers, a)
  <2> DEFINE S == ToSet(answers) \cup {a}
             n == Len(answers)
  <2>1. answers \in Seq(S) /\ a \in S
    OBVIOUS
  <2>2. /\ n \in Nat /\ DOMAIN answers = 1..n /\ DOMAIN answers' = 1..(n + 1)
        /\ answers'[n + 1] = a /\ \A i \in 1..n : answers'[i] = answers[i]
        /\ answers' \in Seq(S) /\ Len(answers') = n + 1
    BY <1>1, <2>1
  <2>3. ToSet(answers') = S
    BY <2>2 DEF ToSet
  <2> QED
    BY <2>2, <2>3 DEF Last
<1>2. CASE answers' = answers /\ answers # <<>> /\ Last(answers) = a
  <2>1. a \in ToSet(answers)
    <3>1. Len(answers) \in DOMAIN answers /\ answers[Len(answers)] = a
      BY <1>2 DEF Last
    <3> QED
      BY <3>1 DEF ToSet
  <2> QED
    BY <1>2, <2>1
<1> QED
  BY <1>1, <1>2 DEF Remember

LEMMA PositiveLimit ==
  ASSUME NEW tool \in Paged, NEW asked \in Nat
  PROVE  Limit(tool, asked) \in Nat \ {0}
BY ServerAssumption DEF Limit

\* A page of the whole list, from an offset on.
Page(s, offset, limit) ==
  [results |-> SubSeq(WholeList(s), offset + 1,
                      IF offset + limit < Len(WholeList(s)) THEN offset + limit ELSE Len(WholeList(s))),
   total |-> Len(WholeList(s))]

LEMMA AnswerIsPage ==
  ASSUME NEW s \in Sessions, NEW offset \in Nat
  PROVE  \/ /\ "total" \notin DOMAIN Answer(WholeGraph, s, offset)
            /\ Results(Answer(WholeGraph, s, offset)) = <<>>
         \/ /\ s.tool \in Paged
            /\ \E limit \in Nat \ {0} : Answer(WholeGraph, s, offset) = Page(s, offset, limit)
<1> DEFINE g == WholeGraph
<1> USE DEF Paged
<1>1. s.tool \in Tools /\ s.limit \in Nat
  BY ServerAssumption
<1>2. ASSUME NEW type
      PROVE  "total" \notin DOMAIN Error(type) /\ Results(Error(type)) = <<>>
  BY DEF Error, Results
<1>3. CASE s.tool = "search"
  <2> DEFINE limit == Limit("search", s.limit)
             keep == {d \in Declared(g) : s.arg \in {NoFilter, KindOf[d]}}
  <2>1. limit \in Nat \ {0}
    BY <1>1, PositiveLimit
  <2>2. \/ \E type : Answer(g, s, offset) = Error(type)
        \/ Answer(g, s, offset) = Paginate(Declared(g), keep, offset, limit)
    BY <1>3 DEF Answer, SearchDeclarations
  <2>3. Declared(g) \cap keep = Wanted(s)
    BY <1>3 DEF Wanted
  <2> HIDE DEF limit, keep
  <2>4. Paginate(Declared(g), keep, offset, limit) = Page(s, offset, limit)
    BY <1>3, <2>3 DEF Paginate, Page, WholeList
  <2> QED
    BY <1>2, <1>3, <2>1, <2>2, <2>4
<1>4. CASE s.tool = "descendants"
  <2> DEFINE limit == Limit("descendants", s.limit)
             items == {s.arg} \cup {e \in Declarations : <<e, s.arg>> \in Inherits}
  <2>1. limit \in Nat \ {0}
    BY <1>1, PositiveLimit
  <2>2. \/ \E type : Answer(g, s, offset) = Error(type)
        \/ Answer(g, s, offset) = Paginate(items, Declared(g), offset, limit)
    BY <1>4 DEF Answer, GetDescendants
  <2>3. items \cap Declared(g) = Wanted(s)
    BY <1>4 DEF Wanted
  <2> HIDE DEF limit, items
  <2>4. Paginate(items, Declared(g), offset, limit) = Page(s, offset, limit)
    BY <1>4, <2>3 DEF Paginate, Page, WholeList
  <2> QED
    BY <1>2, <1>4, <2>1, <2>2, <2>4
<1>5. CASE s.tool = "references"
  <2> DEFINE limit == Limit("references", s.limit)
             items == {f \in Jobs : s.arg \in Mentions[f]}
  <2>1. limit \in Nat \ {0}
    BY <1>1, PositiveLimit
  <2>2. \/ \E type : Answer(g, s, offset) = Error(type)
        \/ Answer(g, s, offset) = Paginate(items, g, offset, limit)
    BY <1>5 DEF Answer, FindConstantReferences
  <2>3. items \cap g = Wanted(s)
    BY <1>5, JobsAssumption DEF Wanted, WholeGraph
  <2> HIDE DEF limit, items
  <2>4. Paginate(items, g, offset, limit) = Page(s, offset, limit)
    BY <1>5, <2>3 DEF Paginate, Page, WholeList
  <2> QED
    BY <1>2, <1>5, <2>1, <2>2, <2>4
<1>6. CASE s.tool = "declaration"
  BY <1>2, <1>6 DEF Answer, GetDeclaration, Results
<1>7. CASE s.tool = "file"
  BY <1>2, <1>7 DEF Answer, GetFileDeclarations, Results
<1>8. CASE s.tool = "stats"
  BY <1>8 DEF Answer, CodebaseStats, Results
<1> QED
  BY <1>1, <1>3, <1>4, <1>5, <1>6, <1>7, <1>8 DEF Tools

\* The next page after a beginning of a list makes a longer beginning, or the
\* beginning was the whole list.
LEMMA NextPage ==
  ASSUME NEW X, NEW F \in Seq(X), NEW r \in Seq(X),
         \A i \in 1..Len(r) : r[i] = F[i],
         NEW e \in Nat, Len(r) <= e, e <= Len(F), e = Len(r) => e = Len(F)
  PROVE  LET page == SubSeq(F, Len(r) + 1, e)
         IN  /\ r \o page \in Seq(X)
             /\ Len(r \o page) = e
             /\ \A i \in 1..e : (r \o page)[i] = F[i]
             /\ page = <<>> => e = Len(F)
<1> DEFINE k == Len(r)
           page == SubSeq(F, k + 1, e)
<1>1. /\ k \in Nat /\ Len(F) \in Nat /\ e \in Nat /\ k <= e /\ e <= Len(F)
      /\ e = k => k = Len(F)
  OBVIOUS
<1>2. page = SubSeq(F, k + 1, e)
  OBVIOUS
<1> HIDE DEF k, page
<1>3. page \in Seq(X) /\ Len(page) = e - k /\ \A i \in 1..(e - k) : page[i] = F[k + i]
  <2>1. \A i \in (k + 1)..e : F[i] \in X
    BY <1>1
  <2>2. /\ page \in Seq(X)
        /\ Len(page) = IF k + 1 <= e THEN e - (k + 1) + 1 ELSE 0
        /\ \A i \in 1..(e - (k + 1) + 1) : page[i] = F[k + 1 + i - 1]
    BY <1>1, <1>2, <2>1, SubSeqProperties
  <2>3. e - (k + 1) + 1 = e - k /\ (k + 1 <= e <=> k # e)
    BY <1>1
  <2>4. Len(page) = e - k
    BY <1>1, <2>2, <2>3
  <2>5. ASSUME NEW i \in 1..(e - k)
        PROVE  page[i] = F[k + i]
    <3>1. k + 1 + i - 1 = k + i
      BY <1>1
    <3> QED
      BY <2>2, <2>3, <3>1
  <2> QED
    BY <2>2, <2>4, <2>5
<1>4. /\ r \o page \in Seq(X) /\ Len(r \o page) = e
      /\ \A i \in 1..e : (r \o page)[i] = IF i <= k THEN r[i] ELSE page[i - k]
  BY <1>1, <1>3, ConcatProperties DEF k
<1>5. ASSUME NEW i \in 1..e
      PROVE  (r \o page)[i] = F[i]
  <2>1. CASE i <= k
    BY <1>1, <1>4, <2>1 DEF k
  <2>2. CASE ~(i <= k)
    <3>1. i - k \in 1..(e - k) /\ k + (i - k) = i
      BY <1>1, <2>2
    <3> QED
      BY <1>3, <1>4, <2>2, <3>1
  <2> QED
    BY <2>1, <2>2
<1>6. page = <<>> => e = k
  <2>1. page = <<>> => Len(page) = 0
    OBVIOUS
  <2> QED
    BY <1>1, <1>3, <2>1
<1> QED
  BY <1>1, <1>4, <1>5, <1>6 DEF k, page

\* What a call returns once the graph is there, and before.
Answered(s) ==
  \/ state.ready /\ s \in Sessions /\ session \subseteq {s} /\ session' = {s}
  \/ ~ state.ready /\ session' = session

LEMMA ReplyAnswers ==
  ASSUME OneClient, Reply
  PROVE  \E s : Answered(s) /\ Tool(s)
<1>1. CASE \E s \in IF session = {} THEN Sessions ELSE session :
             state.ready /\ Tool(s) /\ session' = {s}
  BY <1>1 DEF OneClient, Answered
<1>2. CASE ~ state.ready /\ Tool(Unasked) /\ UNCHANGED session
  BY <1>2 DEF Answered
<1> QED
  BY <1>1, <1>2 DEF Reply

LEMMA AnswersStep ==
  ASSUME PublishedWhole, OneClient, AnswersFromWholeGraph, [McpNext]_mcpVars
  PROVE  OneClient' /\ AnswersFromWholeGraph'
<1>1. CASE UNCHANGED <<answers, session>>
  BY <1>1 DEF OneClient, AnswersFromWholeGraph, WholeGraph, ToSet
<1>2. CASE Reply
  <2>1. PICK s : Answered(s) /\ Tool(s)
    BY <1>2, ReplyAnswers
  <2> DEFINE a == [offset |-> Len(received), reply |-> Reached(s)]
  <2>2. /\ answers' \in Seq(ToSet(answers'))
        /\ ToSet(answers') = ToSet(answers) \cup {a}
    BY <2>1, Remembered DEF Tool, Returned, OneClient
  <2>3. a.reply \notin {Error("indexing"), Error("indexing_failed")} =>
          \E r \in session' : a.reply = Answer(WholeGraph, r, a.offset)
    BY <2>1 DEF Answered, Reached, PublishedWhole
  <2> HIDE DEF a
  <2>4. session \subseteq session'
    BY <2>1 DEF Answered
  <2>5. AnswersFromWholeGraph'
    BY <2>2, <2>3, <2>4 DEF AnswersFromWholeGraph, WholeGraph
  <2>6. session' \subseteq Sessions /\ (session' = {} \/ \E r : session' = {r})
    BY <2>1 DEF Answered, OneClient
  <2> QED
    BY <2>2, <2>5, <2>6 DEF OneClient
<1> QED
  BY <1>1, <1>2 DEF McpNext, mcpVars, serverVars, IndexStep, Background, Indexed, Resolve,
    LockWrite, Publish, Quiescent, Ask, LockRead

LEMMA PagesStep ==
  ASSUME PublishedWhole, OneClient, PagesFollow, [McpNext]_mcpVars
  PROVE  PagesFollow'
<1> DEFINE k == Len(received)
<1>1. \A s : WholeList(s)' = WholeList(s)
  BY DEF WholeList, Wanted, Declared, WholeGraph
<1>2. CASE UNCHANGED <<answers, session, received>> /\ (call' = "over" => call = "over" \/ ~ WantsMore)
  <2>1. WantsMore' = WantsMore
    BY <1>2 DEF WantsMore
  <2> QED
    BY <1>1, <1>2, <2>1 DEF PagesFollow
<1>3. CASE Reply
  <2>1. PICK s : Answered(s) /\ Tool(s)
    BY <1>3, ReplyAnswers
  <2> DEFINE reply == Reached(s)
  <2>2. /\ received' = received \o Results(reply) /\ call' = "idle"
        /\ answers' # <<>> /\ Last(answers').reply = reply
    BY <2>1, Remembered DEF Tool, Returned, OneClient
  <2>3. k \in Nat /\ received \in Seq(Declarations \cup Jobs)
    BY DEF PagesFollow
  <2>4. CASE "total" \notin DOMAIN reply /\ Results(reply) = <<>>
    <3>1. received' = received
      BY <2>2, <2>3, <2>4
    <3>2. ASSUME NEW r \in session'
          PROVE  /\ Len(received) <= Len(WholeList(r))
                 /\ \A i \in 1..Len(received) : received[i] = WholeList(r)[i]
      <4>1. CASE r \in session
        BY <4>1 DEF PagesFollow
      <4>2. CASE r \notin session
        <5>1. received = <<>> /\ r \in Sessions
          BY <2>1, <3>2, <4>2 DEF Answered, PagesFollow
        <5>2. WholeList(r) \in Seq(Declarations \cup Jobs)
          BY <5>1, WantedInOrder
        <5> QED
          BY <5>1, <5>2
      <4> QED
        BY <4>1, <4>2
    <3>3. session' = {} => received' = <<>>
      BY <2>1, <3>1 DEF Answered, PagesFollow
    <3> QED
      BY <1>1, <2>2, <2>3, <2>4, <3>1, <3>2, <3>3 DEF PagesFollow
  <2>5. CASE ~("total" \notin DOMAIN reply /\ Results(reply) = <<>>)
    <3>1. ASSUME NEW type
          PROVE  "total" \notin DOMAIN Error(type) /\ Results(Error(type)) = <<>>
      BY DEF Error, Results
    <3>2. state.ready /\ reply = Answer(WholeGraph, s, k)
      BY <2>5, <3>1 DEF Reached, PublishedWhole
    <3>3. s \in Sessions /\ session \subseteq {s} /\ session' = {s}
      BY <2>1, <3>2 DEF Answered
    <3>4. s.tool \in Paged /\ \E limit \in Nat \ {0} : reply = Page(s, k, limit)
      BY <2>3, <2>5, <3>2, <3>3, AnswerIsPage
    <3>5. PICK limit \in Nat \ {0} : reply = Page(s, k, limit)
      BY <3>4
    <3> DEFINE F == WholeList(s)
               e == IF k + limit < Len(F) THEN k + limit ELSE Len(F)
               page == SubSeq(F, k + 1, e)
    <3>6. reply.results = page /\ reply.total = Len(F) /\ Results(reply) = page
      BY <3>5 DEF Page, Results
    <3>7. F \in Seq(Declarations \cup Jobs)
      BY <3>3, WantedInOrder
    <3>8. k <= Len(F) /\ \A i \in 1..k : received[i] = F[i]
      <4>1. CASE s \in session
        BY <4>1 DEF PagesFollow
      <4>2. CASE s \notin session
        <5>1. received = <<>>
          BY <3>3, <4>2 DEF PagesFollow
        <5> QED
          BY <3>7, <5>1
      <4> QED
        BY <4>1, <4>2
    <3>9. e \in Nat /\ k <= e /\ e <= Len(F) /\ (e = k => e = Len(F))
      BY <2>3, <3>7, <3>8
    <3> HIDE DEF F, reply, e
    <3>10. /\ received \o page \in Seq(Declarations \cup Jobs)
           /\ Len(received \o page) = e
           /\ \A i \in 1..e : (received \o page)[i] = F[i]
           /\ page = <<>> => e = Len(F)
      <4> DEFINE X == Declarations \cup Jobs
      <4> HIDE DEF X
      <4>1. F \in Seq(X) /\ received \in Seq(X)
        BY <2>3, <3>7 DEF X
      <4>2. /\ received \o page \in Seq(X)
            /\ Len(received \o page) = e
            /\ \A i \in 1..e : (received \o page)[i] = F[i]
            /\ page = <<>> => e = Len(F)
        BY <3>8, <3>9, <4>1, NextPage
      <4> QED
        BY <4>2 DEF X
    <3> HIDE DEF page
    <3>11. received' = received \o page
      BY <2>2, <3>6
    <3> QED
      BY <1>1, <2>2, <3>3, <3>4, <3>6, <3>9, <3>10, <3>11 DEF PagesFollow, F
  <2> QED
    BY <2>4, <2>5
<1> QED
  BY <1>2, <1>3 DEF McpNext, mcpVars, serverVars, IndexStep, Background, Indexed, Resolve,
    LockWrite, Publish, Quiescent, Ask, LockRead

-----------------------------------------------------------------------------
(* The theorems. *)

THEOREM McpInvariant == McpSpec => []McpInv
<1>1. IndInv /\ IndexInv /\ McpInv /\ [McpNext]_mcpVars => McpInv'
  BY PublishedStep, AnswersStep, PagesStep DEF McpInv
<1> QED
  BY <1>1, McpInitStep, McpIndexInvariant, PTL DEF McpSpec

\* The graph that the tools see, once there is one, is that of every file that
\* can be read: a panic of a worker, however late, keeps it from being seen.
THEOREM WholeGraphPublished == McpSpec => [](state.ready => state.graph = WholeGraph)
<1>1. McpInv => (state.ready => state.graph = WholeGraph)
  BY DEF McpInv, PublishedWhole
<1> QED
  BY <1>1, McpInvariant, PTL

\* No tool answers from a graph that is still being filled, at any time and to
\* any client.
THEOREM ToolsAnswerFromWholeGraph == McpSpec => []AnswersFromWholeGraph
<1>1. McpInv => AnswersFromWholeGraph
  BY DEF McpInv
<1> QED
  BY <1>1, McpInvariant, PTL

\* Whatever limit a client asks for, paginate! sends it the whole list and
\* nothing twice by the time it has no reason to ask for another page.
THEOREM PagesAddUp == McpSpec => []PagesComplete
<1>1. ASSUME McpInv, call = "over", "total" \in DOMAIN Last(answers).reply, NEW s \in session
      PROVE  IsInjective(received) /\ ToSet(received) = Wanted(s)
  <2> DEFINE F == WholeList(s)
  <2>1. ~ WantsMore /\ answers # <<>> /\ s \in Sessions
    BY <1>1 DEF McpInv, PagesFollow, OneClient, WantsMore
  <2>2. /\ s.tool \in Paged /\ Last(answers).reply.total = Len(F)
        /\ Last(answers).reply.results = <<>> => Len(received) = Len(F)
    BY <1>1, <2>1 DEF McpInv, PagesFollow
  <2>3. /\ received \in Seq(Declarations \cup Jobs)
        /\ Len(received) <= Len(F) /\ \A i \in 1..Len(received) : received[i] = F[i]
    BY <1>1 DEF McpInv, PagesFollow
  <2>4. /\ F \in Seq(Declarations \cup Jobs) /\ IsInjective(F) /\ ToSet(F) = Wanted(s)
    BY <2>1, <2>2, WantedInOrder
  <2> HIDE DEF F
  <2>5. Len(received) = Len(F)
    BY <1>1, <2>1, <2>2, <2>3, <2>4 DEF WantsMore
  <2>6. received = F
    BY <2>3, <2>4, <2>5
  <2> QED
    BY <2>4, <2>6
<1>2. McpInv => PagesComplete
  BY <1>1 DEF PagesComplete
<1> QED
  BY <1>2, McpInvariant, PTL

\* In the server too every file is merged once or reported, and no panic of a
\* worker is taken for an end of the indexing.
THEOREM ServerIndexesEverything == McpSpec => []ReturnsEverything /\ []PanicSurfaces
<1>1. McpSpec => IndexSpec
  BY McpInitStep, McpIndexStep, PTL DEF McpSpec, IndexSpec
<1> QED
  BY <1>1, EveryFileReturned, PanicNeverSwallowed
=============================================================================
