---------------------------- MODULE ProviderSearch ----------------------------
(***************************************************************************)
(* What is asked of the screening provider and what becomes of its answer: *)
(* the queries of a configuration (decision engine) or of a field map      *)
(* (continuous screening), the request to OpenSanctions, and the matches   *)
(* made of its responses.  Responses and field maps are Go maps: they are  *)
(* walked in any order, one entry a step.                                  *)
(*                                                                         *)
(* Blank is a text of spaces only, NoText the empty one; trimming makes    *)
(* the first into the second and leaves names alone.                       *)
(***************************************************************************)
EXTENDS Naturals, Sequences, FiniteSets

CONSTANTS
    Blank, NoText, NilText, Null, Absent,
    FieldName,      \* the one field of the record
    FieldValues,    \* its values: names, Blank, NoText, Null, Absent
    Configs,        \* [queries, field, query]: the parts of config_json that give a name
    Answers,        \* what a query is answered: [total, results]
    Routes          \* [provider, sanctions, clients, fallback]: how the client is configured

\* The results of an answer are a list.
ASSUME AnswersAssumption ==
    \A a \in Answers : Len(a.results) \in Nat /\ DOMAIN a.results = 1..Len(a.results)

VARIABLES
    asked,      \* "start", "refused", "passed", "asking", "done"
    answers,    \* all responses, for the property
    queries,    \* the queries of the request, in order
    left,       \* responses not yet adapted
    found, texts, partial

searchVars == <<asked, answers, queries, left, found, texts, partial>>

TrimSpace(t) == IF t = Blank THEN NoText ELSE t

-----------------------------------------------------------------------------
\* resolveProvider and shouldUseOpenSanctions.
Route(r) ==
    IF r.provider = "opensanctions" /\ r.sanctions THEN "opensanctions"
    ELSE IF r.provider \in r.clients THEN r.provider
    ELSE IF r.fallback THEN "default" ELSE "error"

\* lookupStringField.
LookupStringField(name, value) ==
    IF name # FieldName \/ value \in {Null, Absent} THEN NoText ELSE TrimSpace(value)

\* resolveScreeningQueryName: query_fields first, then query, whose text is the
\* name of a field or, when no such field has a value, itself the name to search.
ResolveScreeningQueryName(c, value) ==
    LET field == TrimSpace(c.field)
        text == TrimSpace(c.query)
        looked == LookupStringField(text, value)
    IN  IF field # NoText THEN LookupStringField(field, value)
        ELSE IF looked # NoText THEN looked ELSE text

\* buildScreeningDispatchRequest: the listed queries, or the one that is resolved.
DispatchQueries(c, value) ==
    LET listed == SelectSeq([i \in DOMAIN c.queries |-> TrimSpace(c.queries[i])], LAMBDA n : n # NoText)
        name == ResolveScreeningQueryName(c, value)
    IN  IF listed # <<>> THEN listed ELSE IF name = NoText THEN <<>> ELSE <<name>>

\* buildQueries of continuous screening: fmt.Sprint of the value, which is
\* dropped only when it is absent or empty.
MonitoredQueries(value) ==
    CASE value \in {Absent, NoText} -> <<>>
      [] value = Null -> <<NilText>>
      [] OTHER -> <<value>>

\* buildSearchPayload: queries by their position.
PayloadIds(qs) == {i \in DOMAIN qs : TrimSpace(qs[i]) # NoText}

-----------------------------------------------------------------------------
SearchInit ==
    /\ asked = "start" /\ answers = <<>> /\ queries = <<>> /\ left = {}
    /\ found = <<>> /\ texts = <<>> /\ partial = FALSE

\* A request that has no query is refused where it is built, or by the client;
\* the answer of a provider other than OpenSanctions is taken as it is.
SearchProvider(qs, route) ==
    /\ asked = "start"
    /\ queries' = qs
    /\ IF route = "error" \/ qs = <<>> \/ (route = "opensanctions" /\ PayloadIds(qs) = {})
         THEN asked' = "refused" /\ UNCHANGED <<answers, left>>
         ELSE IF route # "opensanctions"
         THEN asked' = "passed" /\ UNCHANGED <<answers, left>>
         ELSE /\ asked' = "asking"
              /\ \E all \in [PayloadIds(qs) -> Answers] : answers' = all /\ left' = DOMAIN all
    /\ UNCHANGED <<found, texts, partial>>

SearchForDecision == \E c \in Configs, v \in FieldValues, r \in Routes : SearchProvider(DispatchQueries(c, v), Route(r))
SearchForMonitored == \E v \in FieldValues, r \in Routes : SearchProvider(MonitoredQueries(v), Route(r))

Matching(answer) == {i \in DOMAIN answer.results : answer.results[i].match}

\* (Mutant: the last response decides.)
PartialOfLast(answer) == answer.total > Cardinality(Matching(answer))

\* Whether results are missing, over all responses so far.
PartialSoFar(answer) == partial \/ answer.total > Cardinality(Matching(answer))

\* adaptSearchResponse, one response: the first one to name an entity gives its
\* score, every one adds the text that it was asked for.
AdaptResponse(q) ==
    /\ asked = "asking" /\ q \in left
    /\ LET answer == answers[q]
           hits == {answer.results[i].id : i \in Matching(answer)}
           first(e) == CHOOSE i \in Matching(answer) :
                          /\ answer.results[i].id = e
                          /\ \A j \in Matching(answer) : j < i => answer.results[j].id # e
       IN  /\ found' = [e \in DOMAIN found \cup hits |-> IF e \in DOMAIN found THEN found[e] ELSE answer.results[first(e)].score]
           /\ texts' = [e \in DOMAIN texts \cup hits |->
                          (IF e \in DOMAIN texts THEN texts[e] ELSE {}) \cup
                          (IF e \in hits THEN {TrimSpace(queries[q])} ELSE {})]
           /\ partial' = PartialSoFar(answer)
    /\ left' = left \ {q}
    /\ asked' = IF left = {q} THEN "done" ELSE asked
    /\ UNCHANGED <<answers, queries>>

SearchNext == SearchForDecision \/ SearchForMonitored \/ \E q \in left : AdaptResponse(q)

-----------------------------------------------------------------------------
\* The answer to query q matches entity e, and the scores that answers to the
\* queries W give it.
Finds(q, e) == \E i \in Matching(answers[q]) : answers[q].results[i].id = e
GivenScores(W, e) ==
    UNION {{answers[q].results[i].score : i \in {j \in Matching(answers[q]) : answers[q].results[j].id = e}} : q \in W}

\* The result says all that the responses to the queries W say.
CompleteOver(W) ==
    /\ DOMAIN texts = DOMAIN found
    /\ \A e \in DOMAIN found :
          /\ found[e] \in GivenScores(W, e)
          /\ texts[e] = {TrimSpace(queries[q]) : q \in {p \in W : Finds(p, e)}}
    /\ \A q \in W : \A i \in Matching(answers[q]) : answers[q].results[i].id \in DOMAIN found
    /\ partial = (\E q \in W : answers[q].total > Cardinality(Matching(answers[q])))

\* In whatever order the responses are walked, the result names each entity that
\* some query matched, with exactly the texts that found it and a score that one
\* of those responses gave, and it is partial when any of the responses was.
\* Scores of an entity that two queries found may differ from walk to walk.
ResultIsComplete == asked = "done" => CompleteOver(DOMAIN answers)

\* Why, as an inductive invariant: the result is complete over the responses
\* that have been walked, at every moment of the walk.
WalkedIsComplete == CompleteOver(DOMAIN answers \ left)
SearchInv ==
    /\ asked \in {"start", "refused", "passed", "asking", "done"}
    /\ asked = "start" => found = <<>> /\ texts = <<>> /\ partial = FALSE
    /\ asked \in {"asking", "done"} =>
          /\ \A q \in DOMAIN answers : answers[q] \in Answers
          /\ left \subseteq DOMAIN answers
          /\ asked = "done" => left = {}
          /\ WalkedIsComplete
=============================================================================
