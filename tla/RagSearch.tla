------------------------------ MODULE RagSearch ------------------------------
(***************************************************************************)
(* Retrieval: the two searches of the store (app/rag/pg_vector_store.py),  *)
(* the fusion of their rankings (app/rag/hybrid.py) and the context made   *)
(* of it (RAGService.prepare).                                             *)
(*                                                                         *)
(* A base is [stored, strict]: the chunks of every tenant and whether the  *)
(* safety mode is strict.  A chunk is [id, n, owner, model, verdict,       *)
(* distance, rank]: n is its length, distance the order by the cosine      *)
(* distance to the query, rank its ts_rank, 0 when no token matches.  A    *)
(* score 1 / (rrf_k + rank) is multiplied with the product of all          *)
(* denominators, so that scores are integers; a fused distance is kept as  *)
(* the score it is computed from.                                          *)
(***************************************************************************)
EXTENDS Integers, Sequences, SequencesExt, FiniteSetsExt, Functions, Lists

CONSTANTS
  RrfK,             \* rrf_k
  CandidateK,       \* candidate_k, of each path
  TopK,             \* RAG_TOP_K
  MaxDistance,      \* RAG_MAX_DISTANCE, in percent
  MaxContextChars   \* RAG_MAX_CONTEXT_CHARS

ASSUME RetrievalAssumption ==
  /\ RrfK \in Nat /\ CandidateK \in Nat \ {0} /\ TopK \in Nat \ {0}
  /\ MaxDistance \in 0..100 /\ MaxContextChars \in Nat

(* Numbers in their ranges, and the order in which each search returns the *)
(* tenant's chunks: no two of them are as near, or match as well.          *)
IsBase(base) ==
  /\ IsFiniteSet(base.stored)
  /\ \A c \in base.stored : c.n \in Nat /\ c.distance \in Int /\ c.rank \in Nat
  /\ \A c, d \in {x \in base.stored : x.owner = "own"} :
        c # d => c.distance # d.distance /\ (c.rank # 0 => c.rank # d.rank)

(* _safety_filter.                                                         *)
SafetyFilter(base, chunk) == base.strict => chunk.verdict # "suspicious"

First(ranked, n) == SubSeq(ranked, 1, Min({Len(ranked), n}))

(* PgVectorStore.search: of the tenant's chunks that the configured model  *)
(* has embedded, the nearest.                                              *)
SemanticSearch(base) ==
  LET rows   == {c \in base.stored : c.owner = "own" /\ c.model = "current" /\ SafetyFilter(base, c)}
  IN  First(Sorted(rows, {p \in rows \X rows : p[1].distance < p[2].distance}), CandidateK)

(* PgVectorStore.keyword_search: of the tenant's chunks that match, the    *)
(* best, whichever model has embedded them.                                *)
KeywordSearch(base) ==
  LET rows   == {c \in base.stored : c.owner = "own" /\ c.rank # 0 /\ SafetyFilter(base, c)}
  IN  First(Sorted(rows, {p \in rows \X rows : p[1].rank > p[2].rank}), CandidateK)

-----------------------------------------------------------------------------
(* Fusion.                                                                 *)

Unit ==
  LET product[i \in 0..CandidateK] == IF i = 0 THEN 1 ELSE product[i - 1] * (RrfK + i)
  IN  product[CandidateK]

(* 1 / (rrf_k + rank), and 0 for a chunk the path has not found.           *)
Score(path, chunk) ==
  LET rank == SelectInSeq(path, LAMBDA c : c = chunk)
  IN  IF rank = 0 THEN 0 ELSE Unit \div (RrfK + rank)

(* Mutation: the best of one path, whatever the other has found.           *)
BestScoreOfOne(semantic, keyword) == Unit \div (RrfK + 1)

(* The best score the active paths can give.                               *)
BestScore(semantic, keyword) ==
  (IF semantic # <<>> /\ keyword # <<>> THEN 2 ELSE 1) * (Unit \div (RrfK + 1))

FusedScore(semantic, keyword, chunk) == Score(semantic, chunk) + Score(keyword, chunk)

(* By score, and in the order the paths have where scores are equal.       *)
Ranked(results) ==
  LET places == DOMAIN results
      before == {p \in places \X places :
                   \/ results[p[1]].score > results[p[2]].score
                   \/ results[p[1]].score = results[p[2]].score /\ p[1] < p[2]}
      order  == Sorted(places, before)
  IN  [i \in DOMAIN order |-> results[order[i]]]

(* _fuse: every chunk once, in the order of the paths, with its score.     *)
Fuse(semantic, keyword) ==
  LET found  == semantic \o Among(keyword, Range(keyword) \ Range(semantic))
      result(c) == [chunk |-> c, score |-> FusedScore(semantic, keyword, c),
                    best |-> BestScore(semantic, keyword)]
  IN  First(Ranked([i \in DOMAIN found |-> result(found[i])]), TopK)

(* HybridRetriever.search, in hybrid mode and without a reranker.          *)
Search(base) == Fuse(SemanticSearch(base), KeywordSearch(base))

(* 1 - score / best <= max_distance.                                       *)
Relevant(result) == 100 * (result.best - result.score) <= MaxDistance * result.best

-----------------------------------------------------------------------------
(* The context.                                                            *)

ReferencePrefix == 14   \* "[Reference 1]" and a newline
Separator       == 2

(* _append_context_entry: an entry that does not fit ends the context,     *)
(* except the first, which is cut.                                         *)
AppendContextEntry(context, chunk) ==
  LET first     == context.references = <<>>
      remaining == MaxContextChars - context.chars - (IF first THEN 0 ELSE Separator)
      entry     == ReferencePrefix + chunk.n
      written   == IF entry <= remaining THEN entry ELSE remaining
  IN  IF context.full \/ remaining <= 0 \/ (entry > remaining /\ ~first)
        THEN [context EXCEPT !.full = TRUE]
        ELSE [context EXCEPT
               !.chars = MaxContextChars - remaining + written,
               !.references = Append(@, [id |-> chunk.id,
                                         n |-> Max({0, written - ReferencePrefix})])]

EmptyContext(error) == [error |-> error, references |-> <<>>, chars |-> 0, full |-> FALSE]

(* The context of the results: an error, or the references in it.          *)
Context(results) ==
  LET relevant == Among(results, {r \in Range(results) : Relevant(r)})
      context[i \in 0..Len(relevant)] ==
        IF i = 0 THEN EmptyContext("none")
        ELSE AppendContextEntry(context[i - 1], relevant[i].chunk)
  IN  CASE results = <<>> -> EmptyContext("knowledge_base_empty")
        [] results # <<>> /\ relevant = <<>> -> EmptyContext("no_relevant_context")
        [] OTHER -> context[Len(relevant)]

(* RAGService._prepare.                                                    *)
Prepare(base) == Context(Search(base))
=============================================================================
