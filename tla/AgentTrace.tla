----------------------------- MODULE AgentTrace -----------------------------
(***************************************************************************)
(* One run of an agent as its client sees it: live, event by event, and    *)
(* afterwards, from the record (AgentRuntime.run, app/api/agent.py,        *)
(* AgentRunRecordService).  The decisions come from the model, one call at *)
(* a time under an id the model chooses; the tools go through              *)
(* ToolExecutor.  AgentRuntime.tla has what this leaves out: deadlines,    *)
(* budgets and the queue between the runtime and the connection.           *)
(***************************************************************************)
EXTENDS ToolExecutor, RunView

CONSTANTS
  Bases,      \* what the store holds: [stored, strict]
  Limits,     \* values of output_max_chars
  Servers,    \* the MCP server: what it does at the start, what it lists
  Decisions,  \* calls a model can decide on
  Effects,    \* what can become of a call
  MaxSteps    \* max_steps of the request

ASSUME BasesAssumption == \A b \in Bases : IsBase(b)

(* A server's tool of a name the platform has is refused by the registry   *)
(* (ToolRegistry.register).                                                *)
ASSUME ServersAssumption ==
  \A s \in Servers : \A i \in DOMAIN s.definitions :
    s.definitions[i].name \notin DOMAIN BuiltIn

(* What a model decides is a call, with an object of arguments.            *)
ASSUME DecisionsAssumption ==
  \A c \in Decisions : /\ c = [id |-> c.id, tool |-> c.tool, arguments |-> c.arguments]
                       /\ c.id # None /\ c.arguments.type = "object"

VARIABLES
  world,         \* the knowledge base, the limit and the MCP tools, chosen once
  pipe,          \* the client of the MCP server
  asked,         \* history: the id of the request that a step has made there
  at,            \* "plan", "tool", "over" or "saved"
  call,          \* the call the tool is busy with
  steps,         \* state.steps
  events,        \* the events, as they are sent
  record         \* the payload of agent_run_records, as a set

traceVars == <<world, pipe, asked, at, call, steps, events, record>>

Sent(new) ==
  LET stamp(i) == [new[i] EXCEPT !.at = Len(events) + i]
  IN  events' = events \o [i \in DOMAIN new |-> stamp(i)]

StepEvent(kind, i) == Event(kind, i, NoCall, {}, None)

Index == Len(steps) + 1

TraceInit ==
  /\ \E b \in Bases, n \in Limits, s \in Servers :
       LET mcp == DiscoverTools(s)
       IN  /\ world = [base |-> b, limit |-> n, tools |-> mcp.tools, granted |-> mcp.granted]
           /\ pipe = mcp.pipe
  /\ asked = {}
  /\ at = "plan" /\ call = NoCall
  /\ steps = <<>> /\ events = <<[StepEvent("run_started", 0) EXCEPT !.at = 1]>>
  /\ record = {}

(* _finish: steps that are still open are closed, an answer that was not   *)
(* sent is, and the run is over.                                           *)
Finish(status, open, answered) ==
  (IF open THEN <<StepEvent("step_completed", Index)>> ELSE <<>>)
    \o (IF status = "completed" /\ ~answered THEN <<StepEvent("answer", 0)>> ELSE <<>>)
    \o <<Event("run_stopped", 0, NoCall, {}, status)>>

Begin == <<StepEvent("step_started", Index), StepEvent("model_decision", Index)>>

(* A decision for a call, and its start.                                   *)
Plan(c) ==
  /\ at = "plan" /\ Len(steps) < MaxSteps
  /\ Sent(Begin \o <<Event("tool_started", Index, c, {}, None)>>)
  /\ at' = "tool" /\ call' = c
  /\ UNCHANGED <<world, pipe, asked, steps, record>>

(* _find_cached_tool_result: an earlier success of the same call; the      *)
(* fingerprint has the tool and the arguments.                             *)
FindCachedToolResult ==
  LET same == {i \in DOMAIN steps : \E c \in Range(steps[i].calls) :
                 c.tool = call.tool /\ c.arguments = call.arguments}
  IN  UNION {{[r EXCEPT !.call = call.id, !.cached = TRUE] :
                r \in {x \in steps[i].results : x.succeeded}} : i \in same}

(* The call reaches the MCP server.                                        *)
Remote == call.tool \in DOMAIN world.tools /\ Refusal(call, world) = "none"

Asked == asked' = asked \cup {<<Index, pipe.next + 1>>}

(* The result of the call, cached or new; a calculation that is repeated   *)
(* is the answer.                                                          *)
ToolReturns(effect) ==
  LET cached == FindCachedToolResult
      reply  == Request(pipe, effect)
      answer == cached # {} /\ call.tool = "calculator"
      kind(r) == IF r.succeeded THEN "tool_completed" ELSE "tool_failed"
  IN  /\ at = "tool"
      /\ IF cached = {} /\ Remote THEN pipe' = reply.pipe /\ Asked ELSE UNCHANGED <<pipe, asked>>
      /\ \E result \in {IF cached # {} THEN CHOOSE r \in cached : TRUE
                        ELSE ExecuteTool(call, effect, world, reply)} :
           /\ steps' = Append(steps, [index |-> Index, calls |-> <<call>>, results |-> {result}])
           /\ Sent(<<Event(kind(result), Index, call, {result}, None),
                     StepEvent("step_completed", Index)>>
                     \o (IF answer THEN Finish("completed", FALSE, FALSE) ELSE <<>>))
      /\ at' = IF answer THEN "over" ELSE "plan"
      /\ call' = NoCall
      /\ UNCHANGED <<world, record>>

(* The deadline or a cancellation while the tool is running: the step is   *)
(* not among the steps, and the answer of the server is still to come.     *)
StopInTool(status) ==
  /\ at = "tool" /\ FindCachedToolResult = {} /\ Refusal(call, world) = "none"
  /\ IF Remote THEN pipe' = GivenUp(pipe) /\ Asked ELSE UNCHANGED <<pipe, asked>>
  /\ Sent(Finish(status, TRUE, FALSE))
  /\ at' = "over" /\ call' = NoCall
  /\ UNCHANGED <<world, steps, record>>

(* A decision whose usage is not known, against a budget: the step is kept *)
(* and its call is never made.                                             *)
StopBeforeTool(c) ==
  /\ at = "plan" /\ Len(steps) < MaxSteps
  /\ Sent(Begin \o Finish("stopped", TRUE, FALSE))
  /\ steps' = Append(steps, [index |-> Index, calls |-> <<c>>, results |-> {}])
  /\ at' = "over"
  /\ UNCHANGED <<world, pipe, asked, call, record>>

(* A decision for an answer.                                               *)
Answer ==
  /\ at = "plan" /\ Len(steps) < MaxSteps
  /\ Sent(Begin \o <<StepEvent("answer", Index), StepEvent("step_completed", Index)>>
            \o Finish("completed", FALSE, TRUE))
  /\ steps' = Append(steps, [index |-> Index, calls |-> <<>>, results |-> {}])
  /\ at' = "over"
  /\ UNCHANGED <<world, pipe, asked, call, record>>

(* _last_calculator_result.                                                *)
LastCalculatorResult ==
  /\ steps # <<>> /\ Last(steps).calls # <<>>
  /\ Last(steps).calls[1].tool = "calculator"
  /\ \E r \in Last(steps).results : r.succeeded

(* After max_steps the last calculation, if it was one, is the answer.     *)
RunOut ==
  /\ at = "plan" /\ Len(steps) = MaxSteps
  /\ Sent(Finish(IF LastCalculatorResult THEN "completed" ELSE "stopped", FALSE, FALSE))
  /\ at' = "over"
  /\ UNCHANGED <<world, pipe, asked, call, steps, record>>

(* include_result_event: what the result keeps of the events.              *)
ResultEvents ==
  Among(events, {e \in Range(events) : e.kind \notin {"step_started", "step_completed"}})

(* _persist_agent_run; a failure leaves no record.                         *)
PersistAgentRun ==
  /\ at = "over"
  /\ \/ record' = {ToResponse(Last(events).status, steps, ResultEvents)}
     \/ UNCHANGED record
  /\ at' = "saved"
  /\ UNCHANGED <<world, pipe, asked, call, steps, events>>

TraceNext ==
  \/ \E c \in Decisions : Plan(c) \/ StopBeforeTool(c)
  \/ \E effect \in Effects : ToolReturns(effect)
  \/ \E status \in {"timed_out", "cancelled"} : StopInTool(status)
  \/ Answer \/ RunOut \/ PersistAgentRun

TraceSpec == TraceInit /\ [][TraceNext]_traceVars

-----------------------------------------------------------------------------
(* Properties.                                                             *)

(* The trace beside a record.                                              *)
TraceAgrees(stored) ==
  LET trace    == Snapshot(ResultEvents)
      ended    == {e \in Range(trace.events) : e.outputs # {}}
      good(e)  == \E o \in e.outputs : o.succeeded
  IN  /\ trace.status = stored.status /\ trace.completed = stored.timing.completed
      /\ StepCount(trace) \in {Len(stored.steps), Len(stored.steps) + 1}
      /\ \A tool \in {c.tool : c \in Decisions} :
           ToolSummary(trace, tool).calls
             = Cardinality({s \in Range(steps) : s.results # {} /\ s.calls[1].tool = tool})
      /\ \A d, e \in ended :
           (d.at < e.at /\ d.tool = e.tool /\ d.arguments = e.arguments /\ good(d))
             => d.outputs = e.outputs

(* What the record says of a call is what the live stream said: a frame    *)
(* with a result has a summary with the same input, outcome and time in    *)
(* the step of the same number; a call the record lists without a time     *)
(* never was in the stream, and the history counts the sources the stream  *)
(* has shown.  Of a call the run was stopped in nothing is recorded.  The  *)
(* trace has the record's verdict and counts, at most one step more (the   *)
(* one the run was stopped in), and shows one output for one input.        *)
LiveAgreesWithRecord ==
  \A payload \in record :
    LET stored  == ProjectRunResponse(payload)
        shown   == [i \in DOMAIN events |-> ToStreamEvent(events[i])]
        results == {i \in DOMAIN shown : shown[i].outcome # NoOutcome}
        calls(step) == UNION {Range(s.calls) : s \in {x \in Range(stored.steps) : x.index = step}}
    IN  /\ \A i \in results : \E c \in calls(shown[i].step) :
             /\ c.call = shown[i].call /\ c.input = shown[i].input
             /\ c.outcome = shown[i].outcome /\ c.timing.completed = shown[i].at
        /\ \A s \in Range(stored.steps) : \A c \in Range(s.calls) :
             /\ c.timing.started = 0 => c.outcome = NoOutcome
             /\ c.timing.started # 0 => /\ events[c.timing.started].step = s.index
                                        /\ c.timing.started < c.timing.completed
        /\ PublicRunSummary(payload).rag_reference_count = ReferenceCount(shown)
        /\ TraceAgrees(stored)

(* However long its output is, a call's result is within the limit, valid  *)
(* under the tool's own schema when it is JSON, and an identifier in it is *)
(* one of the tool's; it says truncated exactly when something is missing. *)
OutputFits ==
  LET ids(x) == {f[2].s : f \in {g \in Range(x.fields) : g[1] \in ProtectedIdentifierKeys}}
      base   == world.base
  IN  \A s \in Range(steps) : \A c \in Range(s.calls) : \A r \in s.results :
        r.succeeded =>
          /\ Length(r.content) <= world.limit
          /\ r.content.type = "object"
               => Conforms(r.content, Registry(world)[c.tool].output)
          /\ r.truncated = (\A e \in Effects, id \in 0..pipe.next :
                              r.content # RawOutput(c, e, base, id))
          /\ c.tool = "knowledge_search" =>
               \A x \in Range(Get(r.content, "results").items) :
                 ids(x) \subseteq {k.id : k \in base.stored}

(* The sources a search gives are of the tenant, not suspicious in strict  *)
(* mode, and within the budget of the context.  When both paths find       *)
(* something and the largest distance is under a half, only a chunk that   *)
(* both of them find can be one: one path gives half of the best score.    *)
(* The chunk that both put first comes first.                              *)
SourcesAreRelevant ==
  LET found(path) == {c.id : c \in Range(path)}
      semantic == SemanticSearch(world.base)
      keyword  == KeywordSearch(world.base)
      both     == semantic # <<>> /\ keyword # <<>>
      visible  == {c.id : c \in {x \in world.base.stored :
                     x.owner = "own" /\ ~(world.base.strict /\ x.verdict = "suspicious")}}
  IN  \A s \in Range(steps) : \A r \in s.results :
        LET sources == Outcome(s.calls[1], r).rag.sources
        IN  sources # <<>> =>
              /\ Prepare(world.base).chars <= MaxContextChars
              /\ Range(sources) \subseteq visible
              /\ (both /\ MaxDistance < 50)
                   => Range(sources) \subseteq found(semantic) \cap found(keyword)
              /\ (both /\ semantic[1] = keyword[1]) => sources[1] = semantic[1].id

(* An MCP call has the answer to its own request, also when the answer to  *)
(* one that was given up is still to come.                                 *)
AnswerIsOwn ==
  \A s \in Range(steps) : \A c \in Range(s.calls) : \A r \in s.results :
    (r.succeeded /\ ~r.truncated /\ ~r.cached /\ c.tool \in DOMAIN world.tools)
      => <<s.index, Get(r.content, "content").items[1].i>> \in asked
=============================================================================
