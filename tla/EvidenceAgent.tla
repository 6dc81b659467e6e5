----------------------------- MODULE EvidenceAgent -----------------------------
(***************************************************************************)
(* One run of the bounded evidence agent (evidence_agent.py): a model      *)
(* plans queries, the code searches the knowledge index in rounds, within  *)
(* budgets, shows the model what fits, and keeps a draft whose citations   *)
(* are still what the index holds.  Another process may sync the index at  *)
(* any moment; a model call, a search or a write may fail.                 *)
(*                                                                         *)
(* A chunk is its version (_hit_identity); ranking, excerpts and byte      *)
(* budgets are choices.                                                    *)
(***************************************************************************)
EXTENDS Naturals, FiniteSets

CONSTANTS Chunk,        \* chunk identifiers of the index
          MaxRounds,    \* max_rounds
          MaxQueries,   \* max_queries_per_round
          MaxHits,      \* max_hits
          MaxChanges    \* bound on changes of the index during the run

EvidenceAgentAssumption ==
    /\ MaxRounds \in 1..3 /\ MaxQueries \in 1..4 /\ MaxHits \in 1..12
    /\ MaxChanges \in Nat /\ IsFiniteSet(Chunk)

VARIABLES pc, round,
          pending,   \* queries of the round that have not run
          begun,     \* len(retrieved) when the round began
          retrieved, \* the version each retrieved chunk had
          widest,    \* ghost: the largest limit a search was given
          context,   \* the version of each chunk the model is shown
          cited,     \* the chunks the draft cites
          asof,      \* ghost: the index when the draft was asked for
          checked,   \* ghost: the index when the citations were looked up
          files,     \* what the run directory holds
          index,     \* the version of each chunk; 0 when it is gone
          changes

vars == <<pc, round, pending, begun, retrieved, widest, context, cited, asof,
          checked, files, index, changes>>

-----------------------------------------------------------------------------

Found   == DOMAIN retrieved
Present == {c \in Chunk : index[c] # 0}

Least(a, b)   == IF a < b THEN a ELSE b
Greatest(a, b) == IF a < b THEN b ELSE a

\* (a + b - 1) // b
CeilDiv(a, b) == (a + b - 1) \div b

\* What is known, and the other chunks as the index has them.
With(known, chunks) ==
    [c \in DOMAIN known \cup chunks |->
        IF c \in DOMAIN known THEN known[c] ELSE index[c]]

\* The artifact is there, and the run goes on to next.
Wrote(file, next) == files' = files \cup {file} /\ pc' = next

\* run: the input manifest; the query plan, a seed query and the model's.
Plan(queries) ==
    /\ pc = "plan"
    /\ round' = 1 /\ pending' = queries /\ begun' = 0
    /\ files' = files \cup {"00_input", "01_query_plan"} /\ pc' = "search"
    /\ UNCHANGED <<retrieved, widest, context, cited, asof, checked, index, changes>>

Accepted == Cardinality(Found) - begun

RoundBudget == CeilDiv(MaxHits - begun, MaxRounds - round + 1)

QueryLimit == Greatest(1, CeilDiv(RoundBudget - Accepted, pending))

SearchLimit == Least(MaxHits, QueryLimit + Cardinality(Found))

\* One query: new chunks are taken up to its limit.  A known chunk that came
\* back in another version before that is an error.
Search(returned, taken) ==
    /\ pc = "search" /\ pending > 0 /\ Accepted < RoundBudget
    /\ returned \subseteq Present /\ Cardinality(returned) <= SearchLimit
    /\ LET new == returned \ Found IN
       /\ taken \subseteq new
       /\ Cardinality(taken) = Least(QueryLimit, Cardinality(new))
    /\ Cardinality(taken) < QueryLimit =>
          \A c \in returned \cap Found : retrieved[c] = index[c]
    /\ retrieved' = With(retrieved, taken)
    /\ pending' = pending - 1
    /\ widest' = Greatest(widest, SearchLimit)
    /\ UNCHANGED <<pc, round, begun, context, cited, asof, checked, files, index,
                   changes>>

\* The model says whether that is enough, or asks for more queries.
Cover(queries) ==
    /\ pc = "search" /\ (pending > 0 => Accepted >= RoundBudget)
    /\ IF queries = 0 \/ round = MaxRounds \/ Cardinality(Found) >= MaxHits
       THEN /\ pc' = "expand" /\ context' = retrieved
            /\ UNCHANGED <<round, pending, begun>>
       ELSE /\ round' = round + 1 /\ pending' = queries
            /\ begun' = Cardinality(Found)
            /\ UNCHANGED <<pc, context>>
    /\ UNCHANGED <<retrieved, widest, cited, asof, checked, files, index, changes>>

\* _expand_context_hits: the neighbours of one chunk after the other, each as
\* the index has it then.
Expand(c) ==
    /\ pc = "expand" /\ c \in Present \ DOMAIN context
    /\ context' = With(context, {c})
    /\ UNCHANGED <<pc, round, pending, begun, retrieved, widest, cited, asof,
                   checked, files, index, changes>>

\* _build_context: what fits the byte budget; the manifest is written.
Show(fitting) ==
    /\ pc = "expand" /\ fitting \subseteq DOMAIN context
    /\ context' = [c \in fitting |-> context[c]]
    /\ asof' = index
    /\ files' = files \cup {"02_retrieval", "03_retrieval_manifest"}
    /\ pc' = "draft"
    /\ UNCHANGED <<round, pending, begun, retrieved, widest, cited, checked,
                   index, changes>>

\* _validate_draft: claims that cite chunks the model was shown.
Draft(cites) ==
    /\ pc = "draft" /\ cites \subseteq DOMAIN context
    /\ cited' = cites /\ pc' = "check"
    /\ UNCHANGED <<round, pending, begun, retrieved, widest, context, asof,
                   checked, files, index, changes>>

\* Mutant of Check: that the chunks are still there is enough.
CheckPresent ==
    /\ pc = "check"
    /\ cited \subseteq Present
    /\ pc' = "result" /\ checked' = index
    /\ UNCHANGED <<round, pending, begun, retrieved, widest, context, cited,
                   asof, files, index, changes>>

\* _validate_current_citations: one SELECT finds every cited chunk as it was
\* shown.
Check ==
    /\ pc = "check"
    /\ \A c \in cited : index[c] = context[c]
    /\ pc' = "result" /\ checked' = index
    /\ UNCHANGED <<round, pending, begun, retrieved, widest, context, cited,
                   asof, files, index, changes>>

Return ==
    /\ pc = "result"
    /\ Wrote("04_result", "returned")
    /\ UNCHANGED <<round, pending, begun, retrieved, widest, context, cited,
                   asof, checked, index, changes>>

\* Anything fails, the write of the result perhaps after it replaced the file.
\* failure.json is written if it can be; before the input manifest it is not.
Fail(left, receipt) ==
    /\ pc \notin {"returned", "raised"}
    /\ left \subseteq (IF pc = "result" THEN {"04_result"} ELSE {})
    /\ receipt \subseteq {"failure"}
    /\ files' = files \cup left \cup receipt /\ pc' = "raised"
    /\ UNCHANGED <<round, pending, begun, retrieved, widest, context, cited,
                   asof, checked, index, changes>>

\* A sync replaces a chunk by a later version, or drops it.
Change(c, gone) ==
    /\ pc \notin {"returned", "raised"} /\ changes < MaxChanges
    /\ c \in Present
    /\ changes' = changes + 1
    /\ index' = [index EXCEPT ![c] = IF gone THEN 0 ELSE @ + 1]
    /\ UNCHANGED <<pc, round, pending, begun, retrieved, widest, context,
                   cited, asof, checked, files>>

Init ==
    /\ pc = "plan" /\ round = 0 /\ pending = 0 /\ begun = 0
    /\ retrieved = <<>> /\ widest = 0 /\ context = <<>>
    /\ cited = {} /\ files = {} /\ changes = 0
    /\ index = [c \in Chunk |-> 1] /\ asof = index
    /\ checked = index

Next ==
    \/ \E queries \in 1..MaxQueries : Plan(queries)
    \/ \E returned \in SUBSET Chunk : \E taken \in SUBSET returned :
          Search(returned, taken)
    \/ \E queries \in 0..MaxQueries : Cover(queries)
    \/ \E c \in Chunk : Expand(c)
    \/ \E chunks \in SUBSET Chunk : Show(chunks) \/ Draft(chunks)
    \/ Check \/ Return
    \/ \E left \in SUBSET {"04_result"}, receipt \in SUBSET {"failure"} :
          Fail(left, receipt)
    \/ \E c \in Chunk, gone \in BOOLEAN : Change(c, gone)

Spec == Init /\ [][Next]_vars

-----------------------------------------------------------------------------
(* Properties *)

TypeOK ==
    /\ pc \in {"plan", "search", "expand", "draft", "check", "result",
               "returned", "raised"}
    /\ round \in 0..MaxRounds /\ pending \in 0..MaxQueries
    /\ Found \subseteq Chunk /\ DOMAIN context \subseteq Chunk
    /\ cited \subseteq Chunk
    /\ changes \in 0..MaxChanges

\* The budgets hold for any answers of the model: no more than max_hits chunks
\* are retrieved, no search asks for more than that, and every round that is
\* still to come can take at least one new chunk (round_budget, query_limit).
BudgetsKept ==
    /\ Cardinality(Found) <= MaxHits /\ widest <= MaxHits
    /\ pc = "search" /\ MaxRounds <= MaxHits =>
          MaxHits - Cardinality(Found) >= MaxRounds - round

\* A run the control tower counts as completed holds a result whose every
\* citation was shown to the model, in the version the index had when the draft
\* was asked for and still had when the answer's citations were looked up,
\* although the index is read many times in a run and synced between any two.
\* (A sync between that look and the write of the result is not looked for.)
CompletedIsCurrent ==
    "04_result" \in files /\ "failure" \notin files =>
        /\ {"00_input", "02_retrieval", "03_retrieval_manifest"} \subseteq files
        /\ \A c \in cited :
              /\ c \in DOMAIN context
              /\ context[c] = asof[c] /\ context[c] = checked[c]
=============================================================================
