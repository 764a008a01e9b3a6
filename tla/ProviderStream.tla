--------------------------- MODULE ProviderStream ---------------------------
(***************************************************************************)
(* How the providers read what a model server sends.  A line of a stream,  *)
(* or the body of a response, is a record of what the code tests of it:    *)
(*   json      not data ("none"), not JSON ("bad"), JSON but no object     *)
(*             ("other"), an object, the marker [DONE] or the end of the   *)
(*             body ("end"), or no line at all ("drop", "timeout")         *)
(*   head      model, created and the other fields have their types        *)
(*   choices   absent or of another type ("bad"), empty, or with a choice  *)
(*   role      the role has its type                                       *)
(*   content, refusal   absent, null, a text, an empty one, no text        *)
(*   extra     the message has fields besides role, content and refusal    *)
(*   finish    no finish reason, one, or something else                    *)
(*   usage     absent, null, invalid, or the two token counts              *)
(* For Ollama head, content and finish are its model, message.content and  *)
(* done, and usage is prompt_eval_count and eval_count.                    *)
(***************************************************************************)
EXTENDS Integers

CONSTANT NoTokens   \* a token count that was not sent

Counts(prompt, completion) == [prompt |-> prompt, completion |-> completion]
NoCounts == Counts(NoTokens, NoTokens)

(* The shapes of a line, and of the counts in it.                          *)
TokenCounts == [prompt : Nat \cup {NoTokens}, completion : Nat \cup {NoTokens}]
Texts == {"absent", "null", "text", "empty", "bad"}
LineShapes ==
  [json : {"none", "bad", "other", "object", "end", "drop", "timeout"}, head : BOOLEAN,
   choices : {"bad", "empty", "one"}, role : BOOLEAN, content : Texts, refusal : Texts,
   extra : BOOLEAN, finish : {"none", "stop", "bad"},
   usage : {"absent", "null", "bad", "counts"}, counts : TokenCounts]

Delta ==
  [json |-> "object", head |-> TRUE, choices |-> "one", role |-> TRUE,
   content |-> "text", refusal |-> "absent", extra |-> FALSE,
   finish |-> "none", usage |-> "absent", counts |-> NoCounts]

-----------------------------------------------------------------------------
(* ProviderRouter.                                                         *)

Models == {"default", "gpt", "other"}

(* route_provider: the default model always uses the default provider,     *)
(* the remaining gpt-* models the OpenAI provider.                         *)
RouteProvider(model) == IF model = "gpt" THEN "openai" ELSE "default"

(* _provider_for_payload: no model in the payload means the default one.   *)
ProviderForPayload(model) == RouteProvider(IF model \in Models THEN model ELSE "default")

-----------------------------------------------------------------------------
(* OpenAI.                                                                 *)

(* _extract_text: the text of a message or of a delta, which may be empty. *)
ExtractText(m, allowEmpty) ==
  CASE m.content = "absent" ->
         IF allowEmpty /\ m.refusal = "absent" /\ ~m.extra THEN "empty" ELSE "raise"
    [] m.content = "bad" -> "raise"
    [] m.content \in {"text", "empty"} ->
         IF m.content = "empty" /\ ~allowEmpty THEN "raise" ELSE m.content
    [] m.content = "null" ->
         CASE m.refusal = "text" -> "text"
           [] m.refusal = "empty" -> IF allowEmpty THEN "empty" ELSE "raise"
           [] m.refusal = "bad" -> "raise"
           [] m.refusal \in {"absent", "null"} ->
                IF allowEmpty /\ ~m.extra THEN "empty" ELSE "raise"

(* _validate_usage: an object whose counts are there, or may be missing.   *)
ValidateUsage(m, requireAll) ==
  /\ m.usage = "counts"
  /\ requireAll => NoTokens \notin {m.counts.prompt, m.counts.completion}

(* _extract_usage.                                                         *)
ExtractUsage(m) ==
  CASE m.usage \in {"absent", "null"} -> [valid |-> TRUE, counts |-> NoCounts]
    [] OTHER -> [valid |-> ValidateUsage(m, FALSE), counts |-> m.counts]

(* _extract_usage_only_event: an event without a choice must be usage.     *)
ExtractUsageOnlyEvent(m) ==
  IF m.choices # "empty" THEN "no"
  ELSE IF ValidateUsage(m, TRUE) THEN "yes" ELSE "raise"

(* _translate_stream_event: the piece it holds, if the shape is right.     *)
TranslateStreamEvent(m) ==
  IF ~m.head \/ m.choices # "one" \/ m.finish = "bad" \/ ~m.role THEN "raise"
  ELSE ExtractText(m, TRUE)

(* _translate_chat_response.                                               *)
TranslateChatResponse(m) ==
  IF ~m.head \/ m.choices # "one" \/ m.finish = "bad" \/ ~m.role
     \/ ExtractText(m, FALSE) = "raise" \/ ~ExtractUsage(m).valid
  THEN "raise" ELSE "text"

(* The locals of chat_stream, and what one line makes of them: the decoder *)
(* goes on, yields a piece, yields the last one, stops, or raises.         *)
NewDecoder == [terminal |-> "no", counts |-> NoCounts]
Result(action, decoder, text, counts) ==
  [action |-> action, decoder |-> decoder, text |-> text, counts |-> counts]
Skip(d) == Result("skip", d, "empty", NoCounts)
Fails(d) == Result("raise", d, "empty", NoCounts)

LaterOf(old, new) ==
  Counts(IF new.prompt = NoTokens THEN old.prompt ELSE new.prompt,
         IF new.completion = NoTokens THEN old.completion ELSE new.completion)

(* An event with a choice: a finish reason makes it the terminal chunk,    *)
(* which is held back until the stream ends.                               *)
ChoiceEvent(d, m) ==
  LET text == TranslateStreamEvent(m)
      later == [d EXCEPT !.counts = LaterOf(@, ExtractUsage(m).counts)]
  IN  IF d.terminal # "no" \/ ~ExtractUsage(m).valid \/ text = "raise" THEN Fails(d)
      ELSE IF m.finish = "stop" THEN Skip([later EXCEPT !.terminal = text])
      ELSE Result("yield", later, text, NoCounts)

(* An event without a choice.                                              *)
UsageEvent(d, m) ==
  IF d.terminal = "no" \/ ExtractUsageOnlyEvent(m) = "raise" THEN Fails(d)
  ELSE Skip([d EXCEPT !.counts = m.counts])

(* Mutation: a stream that breaks off ends like a complete one.            *)
OpenAIChatStreamLenient(d, m) ==
  CASE m.json = "none" -> Skip(d)
    [] m.json = "bad" -> IF d.terminal # "no" THEN Fails(d) ELSE Skip(d)
    [] m.json \in {"other", "drop", "timeout"} -> Fails(d)
    [] m.json = "object" /\ m.choices = "empty" -> UsageEvent(d, m)
    [] m.json = "object" /\ m.choices # "empty" -> ChoiceEvent(d, m)
    [] m.json = "end" -> Result(IF d.terminal # "no" THEN "last" ELSE "stop",
                                d, d.terminal, d.counts)

(* OpenAIProvider.chat_stream, one line.                                   *)
OpenAIChatStream(d, m) ==
  CASE m.json = "none" -> Skip(d)
    [] m.json = "bad" -> IF d.terminal # "no" THEN Fails(d) ELSE Skip(d)
    [] m.json \in {"other", "drop", "timeout"} -> Fails(d)
    [] m.json = "object" /\ m.choices = "empty" -> UsageEvent(d, m)
    [] m.json = "object" /\ m.choices # "empty" -> ChoiceEvent(d, m)
    [] m.json = "end" -> IF d.terminal # "no"
                         THEN Result("last", d, d.terminal, d.counts) ELSE Fails(d)

(* The status of a response: _raise_for_status and _raise_http_error, with *)
(* the error code that tells a missing model from any other 404.           *)
Statuses == {"ok", "missing_model", "not_found", "failed"}
RaiseHttpError(status) ==
  IF status = "missing_model" THEN "ModelNotFoundError" ELSE "ProviderError"

(* _request_json: the body of a response, or the error of the call.        *)
RequestJson(status, m) ==
  CASE m.json \in {"drop", "timeout"} -> "ProviderUnavailableError"
    [] status # "ok" -> RaiseHttpError(status)
    [] m.json # "object" -> "ProviderError"
    [] OTHER -> "ok"

(* OpenAIProvider.chat.                                                    *)
OpenAIChat(status, m) ==
  IF RequestJson(status, m) # "ok" THEN RequestJson(status, m)
  ELSE IF TranslateChatResponse(m) = "raise" THEN "ProviderError" ELSE "ok"

-----------------------------------------------------------------------------
(* Ollama.                                                                 *)

(* OllamaProvider._request: the body is read before the status.            *)
OllamaRequest(status, m) ==
  CASE m.json # "object" -> "ProviderError"
    [] status \in {"missing_model", "not_found"} -> "ModelNotFoundError"
    [] status = "failed" -> "ProviderError"
    [] OTHER -> "ok"

(* ChatService._parse_chat_response.                                       *)
ParseChatResponse(m) ==
  IF m.head /\ m.role /\ m.content \in {"text", "empty"} /\ m.finish # "bad"
  THEN m.content ELSE "raise"

(* ChatService._parse_stream_chunk: what has another shape is passed over. *)
ParseStreamChunk(m) ==
  IF m.head /\ m.role /\ m.content \in {"text", "empty"} /\ m.finish # "bad"
  THEN m.content ELSE "skip"

(* OllamaProvider.chat_stream and the parser behind it: a line that cannot *)
(* be read is passed over, and a body that ends ends the stream, whether   *)
(* its last chunk was the last of the answer or not.                       *)
OllamaChatStream(d, m) ==
  CASE m.json \in {"none", "bad", "other"} -> Skip(d)
    [] m.json \in {"drop", "timeout"} -> Fails(d)
    [] m.json = "end" -> Result("stop", d, "empty", NoCounts)
    [] m.json = "object" ->
         IF ParseStreamChunk(m) = "skip" THEN Skip(d)
         ELSE Result(IF m.finish = "stop" THEN "last" ELSE "yield", d, m.content, m.counts)

-----------------------------------------------------------------------------
(* What ProviderRouter.chat_stream and chat pass on.                       *)

ChatStream(provider, d, m) ==
  IF provider = "openai" THEN OpenAIChatStream(d, m) ELSE OllamaChatStream(d, m)

Chat(provider, status, m) ==
  IF provider = "openai" THEN OpenAIChat(status, m)
  ELSE IF OllamaRequest(status, m) # "ok" THEN OllamaRequest(status, m)
  ELSE IF ParseChatResponse(m) = "raise" THEN "ProviderError" ELSE "ok"
=============================================================================
