---------------------------- MODULE MCAgentTrace ----------------------------
(* Two steps; a knowledge base of up to three chunks of the tenant, found  *)
(* by one path, by both, or by none, and one of another tenant; limits     *)
(* below, at and above what the outputs need.                              *)
EXTENDS AgentTrace, ToolOutput

Chunk(id, n, owner, model, verdict, distance, rank) ==
  [id |-> id, n |-> n, owner |-> owner, model |-> model, verdict |-> verdict,
   distance |-> distance, rank |-> rank]

A       == Chunk("a", 8, "own", "current", "clean", 3, 3)
B       == Chunk("b", 60, "own", "current", "clean", 2, 0)
C       == Chunk("c", 60, "own", "current", "clean", 4, 2)
Suspect == Chunk("s", 200, "own", "current", "suspicious", 1, 4)
Foreign == Chunk("f", 8, "other", "current", "clean", 0, 9)

(* The store holds documents of one model: they are all of the configured  *)
(* one, or all of one that was configured before.                          *)
Aged(chunks) == {[c EXCEPT !.model = "old"] : c \in chunks}

(* Strict mode makes a difference where a suspicious chunk is stored.      *)
MCBases ==
  {[stored |-> own \cup {Foreign}, strict |-> FALSE] :
     own \in {{}, {B}, {A, B}, {A, C}, {Suspect, B, A}}}
  \cup {[stored |-> Aged({A, B, C, Foreign}), strict |-> FALSE],
        [stored |-> {Suspect, B, A, Foreign}, strict |-> TRUE]}

MCLimits == {10, 50, 70, 150, 260, 8192}

Args(key, s, n) == Obj(<<<<key, Str(s, n)>>>>)

Definition(name, read_only, destructive) ==
  [name |-> name, hints |-> [read_only |-> read_only, destructive |-> destructive]]

Reader == Definition("mcp_read", "yes", "no")
Writer == Definition("mcp_write", "no", "yes")

Server(greets, lists, max_risk, definitions) ==
  [spawns |-> TRUE, greets |-> greets, lists |-> lists, max_risk |-> max_risk,
   allowed |-> {"mcp_read", "mcp_write"}, definitions |-> definitions]

(* A server that lets a destructive tool in, one that names a tool twice,  *)
(* one that does not start.                                                *)
MCServers ==
  {Server("returns", "returns", "high", <<Reader, Writer>>),
   Server("returns", "returns", "low", <<Reader, Reader>>),
   Server("refuses", "returns", "low", <<Reader>>)}

(* The id comes again in the next step; the last call has no query.        *)
MCDecisions ==
  {[id |-> "c1", tool |-> "calculator", arguments |-> Args("expression", "sum", 3)],
   [id |-> "c1", tool |-> "knowledge_search", arguments |-> Args("query", "q", 10)],
   [id |-> "c2", tool |-> "knowledge_search", arguments |-> Args("query", "blank", 1)],
   [id |-> "c2", tool |-> "knowledge_search", arguments |-> Args("query", "q", 0)],
   [id |-> "c2", tool |-> "mcp_read", arguments |-> Obj(<<>>)],
   [id |-> "c2", tool |-> "mcp_write", arguments |-> Obj(<<>>)],
   [id |-> "c2", tool |-> "code_executor", arguments |-> Args("code", "code", 20)],
   [id |-> "c2", tool |-> "unknown", arguments |-> Obj(<<>>)]}

MCEffects == {"returns", "late", "raises", "refuses", "reports", "rag_storage_unavailable"}
=============================================================================
