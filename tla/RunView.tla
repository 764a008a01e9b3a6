------------------------------ MODULE RunView ------------------------------
(***************************************************************************)
(* What is shown of an agent run: the frames of the live stream, the       *)
(* response that is also the stored record, the lines of the history, and  *)
(* the trace that is kept beside it.                                       *)
(* A frame is made from one event when it happens; the response is made    *)
(* from the state the run leaves behind.  Texts are reduced to which text  *)
(* it is, times to positions in the list of events.                        *)
(***************************************************************************)
EXTENDS ToolValue

None == "none"

-----------------------------------------------------------------------------
(* Sources of a knowledge search, as its output has them.                  *)

MaxIdentifierChars == 256
MaxChunkIndex      == 1000000
MaxPublicDistance  == 2

Bounded(value, ok) == CASE value = Null -> "absent" [] value # Null /\ ok -> "good" [] OTHER -> "bad"

(* _bounded_identifier.                                                    *)
BoundedIdentifier(ref, field) ==
  LET value == Get(ref, field)
  IN  Bounded(value, value.type = "string" /\ value.n \in 1..MaxIdentifierChars)

(* _bounded_chunk_index.                                                   *)
BoundedChunkIndex(ref) ==
  LET value == Get(ref, "chunk_index")
  IN  Bounded(value, value.type = "number" /\ value.i \in 0..MaxChunkIndex)

(* _bounded_distance.                                                      *)
BoundedDistance(ref) ==
  LET value == Get(ref, "distance")
  IN  Bounded(value, value.type = "number" /\ value.i \in 0..MaxPublicDistance)

(* _to_rag_reference_summary does not drop the reference.                  *)
ToRagReferenceSummary(ref) ==
  LET document == BoundedIdentifier(ref, "document_id")
      chunk    == BoundedIdentifier(ref, "chunk_id")
  IN  /\ "bad" \notin {document, chunk, BoundedChunkIndex(ref), BoundedDistance(ref)}
      /\ Get(ref, "content").type \in {"null", "string"}
      /\ Get(ref, "truncated").type \in {"null", "boolean"}
      /\ {document, chunk} # {"absent"}

RagSummary(status, error, sources) ==
  [status |-> status, error |-> error, sources |-> sources]

NoRag == RagSummary(None, None, <<>>)

(* _unavailable_rag_summary.                                               *)
UnavailableRagSummary(error) == RagSummary("output_unavailable", error, <<>>)

(* _RAG_STATUS_BY_ERROR.                                                   *)
RagStatusByError ==
  [no_relevant_context |-> "no_relevant_sources", knowledge_base_empty |-> "knowledge_base_empty",
   rag_storage_unavailable |-> "rag_unavailable", embedding_unavailable |-> "rag_unavailable",
   embedding_failed |-> "embedding_failed", rag_unavailable |-> "rag_unavailable",
   invalid_query |-> "failed"]

(* _to_rag_error_summary.                                                  *)
ToRagErrorSummary(payload) ==
  LET error == Get(payload, "error_code")
  IN  IF error.type = "string" /\ error.s \in DOMAIN RagStatusByError
        THEN RagSummary(RagStatusByError[error.s], error.s, <<>>)
        ELSE RagSummary("failed", "failed", <<>>)

(* The references of a search that went well, as ids.                      *)
ToSources(payload) ==
  LET refs == Get(payload, "results").items
      kept == Among(refs, {r \in Range(refs) : r.type = "object" /\ ToRagReferenceSummary(r)})
  IN  [i \in DOMAIN kept |-> Get(kept[i], "chunk_id").s]

(* _to_rag_summary.                                                        *)
ToRagSummary(content, truncated) ==
  CASE truncated -> UnavailableRagSummary("output_truncated")
    [] ~truncated /\ content.type # "object" -> UnavailableRagSummary("output_malformed")
    [] OTHER ->
         IF Get(content, "truncated") = Bool(TRUE) THEN UnavailableRagSummary("output_truncated")
         ELSE IF Get(content, "ok").type # "boolean" \/ Get(content, "results").type # "array"
           THEN UnavailableRagSummary("output_malformed")
         ELSE IF ~Get(content, "ok").b THEN ToRagErrorSummary(content)
         ELSE IF Get(content, "error_code") # Null THEN UnavailableRagSummary("output_malformed")
         ELSE RagSummary(IF ToSources(content) # <<>> THEN "success_with_sources"
                                                      ELSE "no_relevant_sources",
                         None, ToSources(content))

-----------------------------------------------------------------------------
(* Tool calls.                                                             *)

(* _TOOL_ERROR_CODES.                                                      *)
ToolErrorCodes ==
  {"invalid_tool_arguments", "tool_permission_denied", "tool_timeout", "tool_output_too_large",
   "tool_not_found", "tool_execution_failed"}

(* _public_tool_error_code.                                                *)
PublicToolErrorCode(error) ==
  IF error \in {None} \cup ToolErrorCodes THEN error ELSE "tool_execution_failed"

(* _public_tool_input_summary.                                             *)
PublicToolInputSummary(call) ==
  CASE call.tool = "calculator" -> "expression"
    [] call.tool = "knowledge_search" -> "query redacted"
    [] OTHER -> "parameters"

(* _public_tool_output_summary.                                            *)
PublicToolOutputSummary(call, result, rag) ==
  CASE ~result.succeeded -> None
    [] result.succeeded /\ call.tool = "calculator" -> "result"
    [] result.succeeded /\ call.tool = "knowledge_search" -> rag.status
    [] OTHER -> None

(* What both views say of a result, and of a call without one.             *)
Outcome(call, result) ==
  LET rag == IF call.tool = "knowledge_search"
               THEN ToRagSummary(result.content, result.truncated) ELSE NoRag
  IN  [succeeded |-> IF result.succeeded THEN "yes" ELSE "no", cached |-> result.cached,
       error |-> PublicToolErrorCode(result.error),
       output |-> PublicToolOutputSummary(call, result, rag), rag |-> rag]

NoOutcome == [succeeded |-> None, cached |-> FALSE, error |-> None, output |-> None, rag |-> NoRag]

-----------------------------------------------------------------------------
(* The live view.  An event is [at, kind, step, call, results, status]: at *)
(* stands for occurred_at, step is 0 without one, and results has at most  *)
(* one member.                                                             *)

NoCall == [id |-> None, tool |-> None]

Event(kind, step, call, results, status) ==
  [at |-> 0, kind |-> kind, step |-> step, call |-> call, results |-> results, status |-> status]

(* _public_decision_details: the kind of decision and how many calls.      *)
PublicDecisionDetails(calls) ==
  IF calls = <<>> THEN [kind |-> "final_answer", calls |-> 0]
                  ELSE [kind |-> "tool_call", calls |-> Len(calls)]

(* The name of the frame, _to_stream_event.                                *)
FrameName(event) ==
  CASE event.kind = "run_stopped" ->
         (CASE event.status = "completed" -> "run_completed"
            [] event.status = "timed_out" -> "run_timed_out"
            [] event.status = "cancelled" -> "run_cancelled"
            [] OTHER -> "run_stopped")
    [] event.kind = "model_decision" -> "step_planned"
    [] event.kind = "answer" -> "assistant_message"
    [] event.kind = "tool_started" /\ event.call.tool = "knowledge_search" -> "rag_started"
    [] OTHER -> event.kind

(* _to_stream_event.                                                       *)
ToStreamEvent(event) ==
  [event |-> FrameName(event), at |-> event.at, step |-> event.step, call |-> event.call.id,
   input |-> IF event.call = NoCall THEN None ELSE PublicToolInputSummary(event.call),
   outcome |-> IF event.results = {} THEN NoOutcome
               ELSE Outcome(event.call, CHOOSE r \in event.results : TRUE)]

-----------------------------------------------------------------------------
(* The view afterwards.  A step is [index, calls, results].                *)

FirstAt(events, Test(_)) ==
  LET i == SelectInSeq(events, Test) IN IF i = 0 THEN 0 ELSE events[i].at

LastAt(events, Test(_)) ==
  LET i == SelectLastInSeq(events, Test) IN IF i = 0 THEN 0 ELSE events[i].at

(* _step_timing; 0 is no time.                                             *)
StepTiming(step, events) ==
  [started   |-> FirstAt(events, LAMBDA e : e.step = step.index /\ e.kind = "step_started"),
   completed |-> LastAt(events, LAMBDA e : e.step = step.index /\ e.kind = "step_completed")]

(* Mutation: the step is not compared, as if call ids never came twice.    *)
ToolTimingByCall(step, call, events) ==
  LET own(e) == e.call.id = call.id
  IN  [started   |-> FirstAt(events, LAMBDA e : own(e) /\ e.kind = "tool_started"),
       completed |-> LastAt(events, LAMBDA e : own(e) /\ e.results # {})]

(* _tool_timing: the events of the call in this step; an event with a      *)
(* result is tool_completed or tool_failed.                                *)
ToolTiming(step, call, events) ==
  LET own(e) == e.step = step.index /\ e.call.id = call.id
  IN  [started   |-> FirstAt(events, LAMBDA e : own(e) /\ e.kind = "tool_started"),
       completed |-> LastAt(events, LAMBDA e : own(e) /\ e.results # {})]

(* _run_timing.                                                            *)
RunTiming(events) ==
  [started   |-> FirstAt(events, LAMBDA e : e.kind = "run_started"),
   completed |-> LastAt(events, LAMBDA e : e.kind = "run_stopped")]

(* _to_tool_call_summaries: results by call_id.                            *)
ToToolCallSummaries(step, events) ==
  [i \in DOMAIN step.calls |->
     [call |-> step.calls[i].id, timing |-> ToolTiming(step, step.calls[i], events),
      input |-> PublicToolInputSummary(step.calls[i]),
      outcome |->
        LET own == {r \in step.results : r.call = step.calls[i].id}
        IN  IF own = {} THEN NoOutcome
            ELSE Outcome(step.calls[i], CHOOSE r \in own : TRUE)]]

(* _to_step_summary.                                                       *)
ToStepSummary(step, events) ==
  [index |-> step.index, decision |-> PublicDecisionDetails(step.calls),
   timing |-> StepTiming(step, events),
   succeeded |-> \A r \in step.results : r.succeeded,
   calls |-> ToToolCallSummaries(step, events)]

(* _to_response.                                                           *)
ToResponse(status, steps, events) ==
  [status |-> status, timing |-> RunTiming(events),
   steps |-> [i \in DOMAIN steps |-> ToStepSummary(steps[i], events)],
   events |-> [i \in DOMAIN events |-> [kind |-> events[i].kind, step |-> events[i].step]]]

(* The sources of the calls of a step, or of frames.                       *)
ReferenceCount(shown) == Total([i \in DOMAIN shown |-> Len(shown[i].outcome.rag.sources)])

(* public_run_summary: the line of the history.                            *)
PublicRunSummary(response) ==
  [status |-> response.status,
   tool_count |-> Total([i \in DOMAIN response.steps |-> Len(response.steps[i].calls)]),
   rag_reference_count |-> Total([i \in DOMAIN response.steps |->
                                    ReferenceCount(response.steps[i].calls)])]

(* _project_step and project_run_response keep the fields of a step and of *)
(* a call that the response has.                                           *)
ProjectStep(step) == [index |-> step.index, decision |-> step.decision, timing |-> step.timing,
                      succeeded |-> step.succeeded, calls |-> step.calls]

ProjectRunResponse(payload) ==
  [status |-> payload.status, timing |-> payload.timing, events |-> payload.events,
   steps |-> [i \in DOMAIN payload.steps |-> ProjectStep(payload.steps[i])]]

-----------------------------------------------------------------------------
(* The trace that InMemoryRunTraceRecorder keeps of a run (app/runs): the  *)
(* third view of its events, without texts.  A digest is taken to tell     *)
(* apart what it was made of.                                              *)

(* _fingerprint.                                                           *)
Fingerprint(value) == <<"sha256", value>>

(* DefaultRunTraceSanitizer.sanitize, of the call and the result; a set is *)
(* empty where the event has none.                                         *)
Sanitize(event) ==
  [kind |-> event.kind, at |-> event.at, step |-> event.step, tool |-> event.call.tool,
   arguments |-> IF event.call = NoCall THEN {}
                 ELSE {[count |-> Len(event.call.arguments.fields),
                        fingerprint |-> Fingerprint(event.call.arguments)]},
   outputs |-> {[succeeded |-> r.succeeded, error |-> r.error, truncated |-> r.truncated,
                 chars |-> Length(r.content), fingerprint |-> Fingerprint(r.content)] :
                  r \in event.results},
   status |-> event.status]

(* observe, of one event after the other, and snapshot.                    *)
Snapshot(events) ==
  LET trace == [i \in DOMAIN events |-> Sanitize(events[i])]
      last  == SelectLastInSeq(trace, LAMBDA e : e.kind = "run_stopped")
  IN  [status |-> IF last = 0 THEN None ELSE trace[last].status,
       completed |-> IF last = 0 THEN 0 ELSE trace[last].at, events |-> trace]

(* RunTrace.step_count.                                                    *)
StepCount(trace) == Max({0} \cup {e.step : e \in Range(trace.events)})

(* RunTrace.tool_summaries, the numbers of one tool.                       *)
ToolSummary(trace, tool) ==
  LET events == trace.events
      ended  == {i \in DOMAIN events : events[i].tool = tool /\ events[i].outputs # {}}
      good   == {i \in ended : \A o \in events[i].outputs : o.succeeded}
  IN  [calls |-> Cardinality(ended), succeeded |-> Cardinality(good),
       failed |-> Cardinality(ended \ good)]
=============================================================================
