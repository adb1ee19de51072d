------------------------------- MODULE Router -------------------------------
(***************************************************************************)
(* Where a text would go (router.ts): among the AIs that are connected, or *)
(* among the tasks there are.  A text is what the router sees in it;       *)
(* confidences are in hundredths.                                          *)
(***************************************************************************)
EXTENDS Naturals, Sequences, FiniteSets

CONSTANTS
  MaxAI,      \* the AIs that can chat, in the order they are listed
  PlatformOf, \* [tasks, in the order they are listed -> the AI each is of]
  Scores      \* what a text may score for a task

AIs == 1..MaxAI
Tasks == DOMAIN PlatformOf
Nowhere == 0

RouterLimits == MaxAI \in Nat /\ PlatformOf \in Seq(AIs) /\ Scores \subseteq Nat

Threshold == 75
\* What Claude is said to answer: nothing (no credential, an error), or an AI (or a task) and
\* how sure it is.
Silent == <<Nowhere, 0>>
Clauded == {Silent} \cup ((AIs \cup {Nowhere}) \X {20, Threshold})
ChatTexts == [named : AIs \cup {Nowhere}, hits : [AIs -> 0..2], claude : Clauded]
TaskTexts == [score : [Tasks -> Scores], mention : Tasks \cup {Nowhere}, claude : Clauded]

\* A choice between AIs bears a confidence, which is not kept here, and no score.
Choice(a) == [to |-> a, score |-> 0]
\* The AIs of a set, as they are listed.
Nth(ais, i) == CHOOSE a \in ais : Cardinality({b \in ais : b < a}) + 1 = i
Listed(ais) == [i \in 1..Cardinality(ais) |-> Choice(Nth(ais, i))]
Route(how, c, os, to) == [method |-> how, confidence |-> c, options |-> os, to |-> to]

Best(x, c) == {a \in c : \A b \in c \ {a} : x.hits[a] > x.hits[b]}
Min2(a, b) == IF a < b THEN a ELSE b

\* keywordConnection: one AI whose description fits better than any other's.
KeywordConnection(x, c) ==
  IF \E a \in Best(x, c) : x.hits[a] > 0
    THEN LET a == CHOOSE b \in Best(x, c) : TRUE
         IN  Route("keywords", Min2(90, 55 + 12 * x.hits[a]), <<Choice(a)>> \o Listed(c \ {a}), a)
    ELSE Route("none", 0, Listed(c), Nowhere)

\* What Claude answers may be no AI that is connected.
ClaudeConnection(x, c) ==
  LET a == x.claude[1] IN
  IF a \in c
    THEN Route("llm", x.claude[2], <<Choice(a)>> \o Listed(c \ {a}), a)
    ELSE Route("llm", 0, Listed(c), Nowhere)

RouteToConnection(x, c) ==
  IF x.named # Nowhere
    THEN Route("mention", 100, <<Choice(x.named)>> \o Listed(c \ {x.named}), x.named)
  ELSE IF c = {} THEN Route("none", 0, Listed(AIs), Nowhere)
  ELSE IF Cardinality(c) = 1
    THEN Route("only", 85, Listed(c), CHOOSE a \in c : TRUE)
  ELSE IF x.claude = Silent THEN KeywordConnection(x, c)
  ELSE ClaudeConnection(x, c)

\* keywordRoute: the tasks that score, best first; a close second makes the first doubtful.
Round(n, d) == (2 * n + d) \div (2 * d)
Scored(x) == {t \in Tasks : x.score[t] > 0}
Beats(x, t, u) == x.score[t] > x.score[u] \/ (x.score[t] = x.score[u] /\ t < u)
Ranked(x, ts, i) == CHOOSE t \in ts : Cardinality({u \in ts : Beats(x, u, t)}) + 1 = i
Doubtful(x, t) ==
  /\ \A u \in Scored(x) \ {t} : Beats(x, t, u)
  /\ \E u \in Scored(x) \ {t} : 10 * x.score[u] >= 6 * x.score[t]
Share(x, t) ==
  LET s == x.score[t] IN
  IF Doubtful(x, t) THEN Round(60 * s, s + 4) ELSE Min2(95, Round(100 * s, s + 4))
Suggestion(t, s) == [to |-> PlatformOf[t], score |-> s]
Suggestions(x, ts, cap) ==
  [i \in 1..Cardinality(ts) |->
     Suggestion(Ranked(x, ts, i), Min2(cap, Share(x, Ranked(x, ts, i))))]
\* The others, behind a task that was mentioned or that Claude chose, and beyond the fifth;
\* Claude's alternatives are among them.
Rest(x, t, cap) == Suggestions(x, Scored(x) \ {t}, cap)

\* routeMessage, which is about tasks: the suggestions bear scores.
RouteMessage(x) ==
  IF x.mention # Nowhere
    THEN Route("mention", 100, <<Suggestion(x.mention, 100)>> \o Rest(x, x.mention, 95),
               PlatformOf[x.mention])
  ELSE IF x.claude # Silent
    THEN LET t == x.claude[1] IN
         IF t \in Tasks
           THEN Route("llm", x.claude[2], <<Suggestion(t, x.claude[2])>> \o Rest(x, t, 35), PlatformOf[t])
           ELSE Route("llm", 0, Rest(x, t, 35), Nowhere)
  ELSE IF Scored(x) # {}
    THEN LET t == Ranked(x, Scored(x), 1)
         IN  Route("keywords", Share(x, t), Suggestions(x, Scored(x), 95), PlatformOf[t])
  ELSE Route("none", 0, <<>>, Nowhere)

\* What comes of a text, whoever is connected.
ChatRoutes == {RouteToConnection(x, c) : x \in ChatTexts, c \in SUBSET AIs}
MessageRoutes == {RouteMessage(x) : x \in TaskTexts}
=============================================================================
