---------------------------- MODULE ToolExecutor ----------------------------
(***************************************************************************)
(* One call of a tool (ToolExecutor.execute), with the knowledge search    *)
(* and the MCP tools behind it.  What becomes of the call is `effect`: the *)
(* tool returns, raises, or takes longer than it has; for a knowledge      *)
(* search it also says which of its services is down.  `world` has what    *)
(* the executor was built from: [base, limit, tools, granted].             *)
(***************************************************************************)
EXTENDS McpClient, RagSearch

CONSTANTS
  MaxQueryChars,       \* _MAX_QUERY_LENGTH
  MaxExpressionChars,  \* _MAX_EXPRESSION_LENGTH
  MaxCodeChars         \* _MAX_CODE_LENGTH

(* The input of the tools of the platform: one text of bounded length.     *)
OneText(key, max) ==
  [type |-> "object", additional |-> FALSE, required |-> <<key>>,
   properties |-> [k \in {key} |-> [type |-> "string", minLength |-> 1, maxLength |-> max]]]

(* KnowledgeSearchTool.output_schema.                                      *)
SearchSchema ==
  [type |-> "object", additional |-> FALSE, required |-> <<"ok", "query", "results", "warning">>,
   properties |->
     [ok |-> [type |-> "boolean"], query |-> [type |-> "string"], warning |-> [type |-> "string"],
      results |-> [type |-> "array"], error_code |-> [type |-> "string"],
      message |-> [type |-> "string"], truncated |-> [type |-> "boolean"]]]

(* CalculatorTool, CodeExecutorTool and KnowledgeSearchTool.               *)
Local(risk, input, output) ==
  [risk |-> risk, permissions |-> {}, input |-> input, output |-> output]
BuiltIn ==
  [calculator |-> Local("low", OneText("expression", MaxExpressionChars), [type |-> "string"]),
   code_executor |-> Local("high", OneText("code", MaxCodeChars), [type |-> "string"]),
   knowledge_search |-> Local("low", OneText("query", MaxQueryChars), SearchSchema)]

(* provide_agent_service: the registry.                                    *)
Registry(world) == BuiltIn @@ world.tools

(* _is_permitted, with max_risk_level as it is by default.                 *)
IsPermitted(tool, world) ==
  RiskRank[tool.risk] <= RiskRank.low /\ tool.permissions \subseteq world.granted

-----------------------------------------------------------------------------
(* KnowledgeSearchTool.                                                    *)

Warning == Str("warning", 20)

(* _serialize_reference; the distance is a number of the result.           *)
SerializeReference(reference) ==
  LET id == Str(reference.id, 2)
  IN  Obj(<<<<"chunk_id", id>>, <<"chunk_index", Num(0)>>, <<"content", Str("content", reference.n)>>,
            <<"distance", Num(0)>>, <<"document_id", id>>,
            <<"source", Obj(<<<<"chunk_id", id>>, <<"chunk_index", Num(0)>>,
                              <<"document_id", id>>>>)>>>>)

(* _success_result.                                                        *)
SuccessResult(query, references) ==
  Obj(<<<<"ok", Bool(TRUE)>>, <<"query", query>>,
        <<"results", Arr([i \in DOMAIN references |-> SerializeReference(references[i])])>>,
        <<"warning", Warning>>>>)

(* _error_result.                                                          *)
ErrorResult(query, error) ==
  Obj(<<<<"error_code", Str(error, 15)>>, <<"message", Str("message", 30)>>, <<"ok", Bool(FALSE)>>,
        <<"query", query>>, <<"results", Arr(<<>>)>>, <<"warning", Warning>>>>)

(* The errors prepare can raise by its services.                           *)
ServiceErrors == {"rag_unavailable", "rag_storage_unavailable", "embedding_unavailable",
                  "embedding_failed"}

(* execute: a query of spaces alone passes the schema and is refused here. *)
KnowledgeSearch(query, effect, prepared) ==
  CASE query.s = "blank" -> ErrorResult(Str("", 0), "invalid_query")
    [] query.s # "blank" /\ effect \in ServiceErrors -> ErrorResult(query, effect)
    [] query.s # "blank" /\ effect \notin ServiceErrors /\ prepared.error # "none" ->
         ErrorResult(query, prepared.error)
    [] OTHER -> SuccessResult(query, prepared.references)

(* What the tool returns; id is the one that the server's answer carries.  *)
RawOutput(call, effect, base, id) ==
  CASE call.tool = "calculator" -> Text("result", 40)
    [] call.tool = "knowledge_search" ->
         KnowledgeSearch(Get(call.arguments, "query"), effect, Prepare(base))
    [] OTHER -> CallTool(id, effect)

-----------------------------------------------------------------------------
(* ToolExecutor.                                                           *)

(* _failure.                                                               *)
Failure(call, error, message) ==
  [call |-> call.id, succeeded |-> FALSE, error |-> error, truncated |-> FALSE, cached |-> FALSE,
   content |-> message]

(* The end of _execute: the output as it was written, or that it is too    *)
(* large, in a message that is cut as an output is.                        *)
Success(call, written, limit) ==
  IF written = OutputLimit
    THEN Failure(call, "tool_output_too_large", TruncateOutput(Text("message", 41), limit).output)
    ELSE [call |-> call.id, succeeded |-> TRUE, error |-> "none", truncated |-> written.truncated,
          cached |-> FALSE, content |-> written.output]

(* The checks of _execute, before the tool is called.                      *)
Refusal(call, world) ==
  LET tool == Registry(world)[call.tool]
  IN  IF call.tool \notin DOMAIN Registry(world) THEN "tool_not_found"
      ELSE IF ~IsPermitted(tool, world) THEN "tool_permission_denied"
      ELSE IF ~Conforms(call.arguments, tool.input) THEN "invalid_tool_arguments"
      ELSE "none"

(* What the tool does: "late", "error", or an output.                      *)
Behaviour(call, effect, reply) ==
  IF call.tool \notin DOMAIN BuiltIn THEN reply.outcome
  ELSE CASE effect = "late" -> "late" [] effect = "raises" -> "error" [] OTHER -> "answer"

(* _execute; the messages of the other failures are short and not cut.     *)
ExecuteTool(call, effect, world, reply) ==
  LET written == SerializeAndTruncateOutput(RawOutput(call, effect, world.base, reply.id),
                                            world.limit, Registry(world)[call.tool].output)
      fail(error) == Failure(call, error, Text(error, 20))
      behaviour == Behaviour(call, effect, reply)
  IN  IF Refusal(call, world) # "none" THEN fail(Refusal(call, world))
      ELSE CASE behaviour = "late" -> fail("tool_timeout")
             [] behaviour = "error" -> fail("tool_execution_failed")
             [] OTHER -> Success(call, written, world.limit)
=============================================================================
