------------------------------ MODULE McpClient ------------------------------
(***************************************************************************)
(* The client of an MCP server and the tools discovered there (app/mcp).   *)
(*                                                                         *)
(* A request holds the client's lock, so that requests do not overlap; but *)
(* one that was given up leaves its answer to come.  The pipe is           *)
(* [next, owed, open]: the last id used, the ids the server has yet to     *)
(* answer, and whether the process is there.  A line is what it is and the *)
(* id it carries.                                                          *)
(***************************************************************************)
EXTENDS ToolValue

RiskRank == [low |-> 0, medium |-> 1, high |-> 2]

NewPipe    == [next |-> 0, owed |-> <<>>, open |-> TRUE]
ClosedPipe == [NewPipe EXCEPT !.open = FALSE]

Line(kind, id) == [kind |-> kind, id |-> id]

(* What the server writes once it has a request, unless it is late: the    *)
(* answers it owes, then what becomes of this one.                         *)
Lines(pipe, id, effect) ==
  IF effect = "late" THEN <<>>
  ELSE [i \in DOMAIN pipe.owed |-> Line("answer", pipe.owed[i])]
         \o CASE effect = "refuses" -> <<Line("error", id)>>
              [] effect = "raises" -> <<Line("garbage", 0)>>
              [] OTHER -> <<Line("notice", 0), Line("answer", id)>>

(* Mutation: the first answer is taken, whose ever it is.                  *)
EndsReadAny(line, id) == line.kind \in {"answer", "error", "garbage"}

(* The loop of _request goes on until a line carries its id or is no JSON. *)
EndsRead(line, id) ==
  line.kind = "garbage" \/ (line.kind \in {"answer", "error"} /\ line.id = id)

(* A request that is sent and given up.                                    *)
GivenUp(pipe) == [pipe EXCEPT !.next = @ + 1, !.owed = Append(@, pipe.next + 1)]

(* _request: [pipe, outcome, id], where outcome is "answer", "error" (a    *)
(* JSON-RPC error, no JSON, or no process) or "late", and id the id the    *)
(* answer carries.                                                         *)
Request(pipe, effect) ==
  LET id    == pipe.next + 1
      lines == Lines(pipe, id, effect)
      end   == SelectInSeq(lines, LAMBDA line : EndsRead(line, id))
      left  == Among(SubSeq(lines, end + 1, Len(lines)), {l \in Range(lines) : l.kind = "answer"})
  IN  IF ~pipe.open THEN [pipe |-> pipe, outcome |-> "error", id |-> 0]
      ELSE IF end = 0
        THEN [pipe |-> GivenUp(pipe), outcome |-> "late", id |-> 0]
      ELSE [pipe |-> [pipe EXCEPT !.next = id,
                        !.owed = [i \in DOMAIN left |-> left[i].id]
                                   \o (IF lines[end].kind = "garbage" THEN <<id>> ELSE <<>>)],
            outcome |-> IF lines[end].kind = "answer" THEN "answer" ELSE "error",
            id |-> lines[end].id]

(* _initialize: a request, and a notification that has no answer.          *)
Initialize(pipe, effect) == Request(pipe, effect)

(* start: the process and _initialize; whatever fails closes it.           *)
StartClient(server) ==
  LET greeted == Initialize(NewPipe, server.greets)
  IN  IF server.spawns /\ greeted.outcome = "answer" THEN greeted.pipe ELSE ClosedPipe

(* call_tool, as the output of the adapter: what the answer says, with its *)
(* id, and whether the tool itself reports an error.                       *)
CallTool(id, effect) ==
  LET error == IF effect = "reports" THEN Str("reported", 26) ELSE Null
  IN  Obj(<<<<"content", Arr(<<Num(id), Str("text", 60)>>)>>, <<"error", error>>,
            <<"ok", Bool(effect # "reports")>>>>)

-----------------------------------------------------------------------------
(* Discovery.                                                              *)

(* _parse_risk_metadata: only explicit hints tell the risk.                *)
ParseRiskMetadata(hints) ==
  CASE hints.destructive = "yes" -> "high"
    [] hints.destructive = "no" /\ hints.read_only = "yes" -> "low"
    [] OTHER -> "unknown"

(* MCPToolDefinition.output_schema.                                        *)
McpSchema ==
  [type |-> "object", additional |-> FALSE, required |-> <<"content", "error", "ok">>,
   properties |-> [ok |-> [type |-> "boolean"], content |-> [type |-> "array"],
                   error |-> [anyOf |-> {[type |-> "string"], [type |-> "null"]}]]]

(* list_tools: the request and its outcome; the definitions are the        *)
(* server's own, their risk read from the annotations.                     *)
ListTools(server) ==
  LET listed == Request(StartClient(server), server.lists)
  IN  [pipe |-> listed.pipe, listed |-> listed.outcome = "answer",
       definitions |-> [i \in DOMAIN server.definitions |->
                          [name |-> server.definitions[i].name,
                           risk |-> ParseRiskMetadata(server.definitions[i].hints)]]]

(* The conditions of discover_tools on one definition of a server.         *)
Admitted(definition, server) ==
  /\ definition.risk # "unknown"
  /\ server.allowed # {} => definition.name \in server.allowed
  /\ RiskRank[definition.risk] <= RiskRank[server.max_risk]

(* discover_tools: no tool of a server that does not start, does not list  *)
(* its tools or lists one twice.                                           *)
DiscoverTools(server) ==
  LET answer   == ListTools(server)
      names    == [i \in DOMAIN answer.definitions |-> answer.definitions[i].name]
      admitted == {d \in Range(answer.definitions) : Admitted(d, server)}
  IN  IF answer.listed /\ IsInjective(names)
        THEN [pipe |-> answer.pipe,
              tools |-> [n \in {d.name : d \in admitted} |->
                           [risk |-> (CHOOSE d \in admitted : d.name = n).risk,
                            permissions |-> {"mcp"}, input |-> [type |-> "object"],
                            output |-> McpSchema]],
              granted |-> {"mcp"}]
        ELSE [pipe |-> ClosedPipe, tools |-> <<>>, granted |-> {}]
=============================================================================
