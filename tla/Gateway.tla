------------------------------ MODULE Gateway ------------------------------
(***************************************************************************)
(* The chat endpoints: POST /api/v1/chat and POST /v1/chat/completions,    *)
(* the latter answered at once or as a stream.  A request passes the       *)
(* limiter, finds its thread, reserves tokens, asks the provider, has its  *)
(* usage recorded, settles the reservation and saves its turn; every one   *)
(* of these may fail, and the client of a stream may leave at any moment.  *)
(*                                                                         *)
(* The reservation is the lease of QuotaLedger, reduced to what a request  *)
(* does with its own; one that is never given back expires there.  A text  *)
(* is <<who, n>>: n pieces of the answer to a request, or what a user says *)
(* (n = 0).                                                                *)
(***************************************************************************)
EXTENDS RateLimit, Conversations, ProviderStream, FiniteSets

CONSTANTS
  Requests,     \* requests
  Says,         \* what users say
  Asks,         \* which key of whom asks with which thread id, or NoThread
  Histories,    \* what a thread may hold at first
  OldThread,    \* a thread that is there, of OldOwner
  OldOwner,
  Lines,        \* shapes of lines and bodies a model server sends
  MaxLines,     \* bound: lines of a stream before it ends
  NoCall        \* no local state, no prompt

ASSUME GatewayAssumption ==
  /\ MaxLines \in Nat /\ IsFiniteSet(Requests)
  /\ Requests \subseteq Threads /\ OldThread \in Threads \ Requests
  /\ OldOwner \in Owners
  /\ Asks \subseteq [key : Callers, owner : Owners, thread : Threads \cup {NoThread}]

ASSUME LinesAssumption == Lines \subseteq LineShapes

Message(role, text) == [role |-> role, text |-> text]

(* How many of the first i messages are of a role.                         *)
Upto(ms, i, role) == Cardinality({j \in 1..i : ms[j].role = role})

(* The texts of users are not answers, and what a thread holds at first    *)
(* are turns that are over.                                                *)
ASSUME TextsAssumption ==
  /\ \A text \in Says : text[1] \notin Requests
  /\ \A h \in Histories :
       /\ h \in Seq({h[i] : i \in DOMAIN h})
       /\ \A i \in DOMAIN h : /\ h[i].text[1] \notin Requests
                              /\ Upto(h, i, "assistant") <= Upto(h, i, "user")

(* What may be said, and the rows of threads; NoThread is none of them.    *)
Spoken ==
  (UNION {{h[i] : i \in DOMAIN h} : h \in Histories})
  \cup {Message("user", text) : text \in Says}
  \cup [role : {"assistant"}, text : Requests \X Nat]
Rows == [owner : Owners, messages : Seq(Spoken)]

ASSUME NoRowAssumption == NoThread \notin Rows \cup Threads

VARIABLES
  enabled,   \* the setting quota_enabled
  pc,        \* how far a request has come
  call,      \* what it asks for, and the locals of its generators
  prompt,    \* what prepare_thread returns, until the provider is asked
  lease,     \* its reservation: "none", "held", "settled" or "released"
  usage,     \* the usage rows of the request: their token counts
  told,      \* what the client has of the answer: "nothing", "part", "all"
  saved      \* history: the roles of the messages its turn has stored

serving == <<pc, call, prompt, lease, usage, told, saved>>
vars    == <<enabled, limiterVars, threads, serving>>

Init ==
  /\ LimiterInit
  /\ enabled \in BOOLEAN
  /\ \E h \in Histories :
       threads = [t \in Threads |-> IF t = OldThread
                                    THEN [owner |-> OldOwner, messages |-> h] ELSE NoThread]
  /\ pc = [r \in Requests |-> "idle"]
  /\ call = [r \in Requests |-> NoCall]
  /\ prompt = [r \in Requests |-> NoCall]
  /\ lease = [r \in Requests |-> "none"]
  /\ usage = [r \in Requests |-> <<>>]
  /\ told = [r \in Requests |-> "nothing"]
  /\ saved = [r \in Requests |-> {}]

Goto(r, step) == pc' = [pc EXCEPT ![r] = step]
Streams(r) == call[r].streams

(* The request is over.                                                    *)
End(r) ==
  /\ pc' = [pc EXCEPT ![r] = "done"]
  /\ call' = [call EXCEPT ![r] = NoCall]
  /\ prompt' = [prompt EXCEPT ![r] = NoCall]

(* The generators raise: the provider's locals and the frames are gone.    *)
Unwind(r) ==
  call' = [call EXCEPT ![r].decoder = NewDecoder, ![r].pieces = 0, ![r].lines = 0]

-----------------------------------------------------------------------------
(* Before the provider.                                                    *)

(* create_chat_completion and create_chat_completions, up to the thread:   *)
(* require_rate_limit refuses, or the handler starts.                      *)
NewCall(streams, owner, t, text, model) ==
  [streams |-> streams, owner |-> owner, thread |-> t, text |-> text,
   provider |-> ProviderForPayload(model), decoder |-> NewDecoder, counts |-> NoCounts,
   pieces |-> 0, lines |-> 0, ended |-> "no"]

Begin(r, streams) ==
  /\ pc[r] = "idle"
  /\ \E ask \in Asks, allowed \in BOOLEAN :
       /\ CheckAndRecord(ask.key, allowed)
       /\ \E text \in Says, model \in Models :
            /\ call' = [call EXCEPT ![r] = IF allowed
                          THEN NewCall(streams, ask.owner, ask.thread, text, model) ELSE NoCall]
            /\ Goto(r, IF allowed THEN "thread" ELSE "done")
  /\ UNCHANGED <<threads, prompt, lease, usage, told, saved>>

CreateChatCompletion(r)  == Begin(r, FALSE)
CreateChatCompletions(r) == \E streams \in BOOLEAN : Begin(r, streams)

(* resolve_thread: a new thread, the one that is named, or not found.      *)
ResolveThread(r) ==
  /\ pc[r] = "thread"
  /\ LET c == call[r]
     IN  \/ /\ c.thread = NoThread
            /\ CreateThread(r, c.owner)
            /\ call' = [call EXCEPT ![r].thread = r]
            /\ Goto(r, "history") /\ UNCHANGED prompt
         \/ /\ c.thread # NoThread /\ GetThread(c.thread, c.owner)
            /\ Goto(r, "history") /\ UNCHANGED <<threads, call, prompt>>
         \/ /\ c.thread # NoThread /\ ~GetThread(c.thread, c.owner)
            /\ End(r) /\ UNCHANGED threads
  /\ UNCHANGED <<limiterVars, lease, usage, told, saved>>

(* prepare_thread after that: load_history, merge_history and              *)
(* build_short_term_context.  The client may send history of its own.      *)
PrepareThread(r) ==
  /\ pc[r] = "history"
  /\ LET c == call[r]
         server == ListMessages(c.thread, c.owner)
     IN  \E client \in {<<>>, <<Message("user", c.text)>>} :
           LET merged == MergeHistory(server, client, c.text)
           IN  prompt' = [prompt EXCEPT ![r] =
                            [merged |-> merged, context |-> BuildShortTermContext(merged)]]
  /\ Goto(r, "reserve")
  /\ UNCHANGED <<limiterVars, threads, call, lease, usage, told, saved>>

(* quota_service.reserve: a reservation, none when quotas are disabled, or *)
(* an error.  A stream starts when the server pulls its first frame.       *)
Reserve(r) ==
  /\ pc[r] = "reserve"
  /\ \/ /\ lease' = [lease EXCEPT ![r] = IF enabled THEN "held" ELSE @]
        /\ Goto(r, IF Streams(r) THEN "start" ELSE "call") /\ UNCHANGED <<call, prompt>>
     \/ enabled /\ End(r) /\ UNCHANGED lease
  /\ UNCHANGED <<limiterVars, threads, usage, told, saved>>

-----------------------------------------------------------------------------
(* An answer at once.                                                      *)

(* ChatService.chat under lifecycle.run: the response, an error of the     *)
(* call, or a renewal that failed.                                         *)
ServiceChat(r) ==
  /\ pc[r] = "call"
  /\ \/ \E m \in Lines, status \in Statuses :
          IF Chat(call[r].provider, status, m) = "ok"
          THEN /\ call' = [call EXCEPT ![r].counts = ExtractUsage(m).counts,
                                       ![r].pieces = IF m.content = "empty" THEN 0 ELSE 1,
                                       ![r].ended = "last"]
               /\ Goto(r, "record")
          ELSE Goto(r, "release") /\ UNCHANGED call
     \/ lease[r] = "held" /\ Goto(r, "release") /\ UNCHANGED call
  /\ prompt' = [prompt EXCEPT ![r] = NoCall]
  /\ UNCHANGED <<limiterVars, threads, lease, usage, told, saved>>

-----------------------------------------------------------------------------
(* A stream.                                                               *)

(* The first frame is pulled: the generators start, the provider is asked. *)
StartStream(r) ==
  /\ pc[r] = "start"
  /\ \E status \in Statuses :
       Goto(r, IF status = "ok" THEN "read" ELSE "recordFailed")
  /\ prompt' = [prompt EXCEPT ![r] = NoCall]
  /\ UNCHANGED <<limiterVars, threads, call, lease, usage, told, saved>>

(* record_stream: the token counts of a result replace those before it.    *)
RecordStream(c, counts) == LaterOf(c.counts, counts)

(* chat_completions_stream, one result: the role frame before the first    *)
(* one, then a frame with the piece.                                       *)
SendFrame(r, result) ==
  /\ call' = [call EXCEPT ![r].decoder = [result.decoder EXCEPT
                                            !.terminal = IF result.action = "last"
                                                         THEN "no" ELSE @],
                          ![r].counts = RecordStream(call[r], result.counts),
                          ![r].pieces = IF result.text = "text" THEN @ + 1 ELSE @,
                          ![r].lines = IF result.action = "last" THEN 0 ELSE @ + 1,
                          ![r].ended = IF result.action = "last" THEN "last" ELSE @]
  /\ told' = [told EXCEPT ![r] = "part"]

(* The next line, and all that is done with it before the next pull.       *)
ReadLine(r) ==
  /\ pc[r] = "read"
  /\ \E m \in Lines :
       LET result == ChatStream(call[r].provider, call[r].decoder, m)
       IN  /\ result.action \in {"skip", "yield"} => call[r].lines < MaxLines
           /\ \/ /\ result.action = "skip"
                 /\ call' = [call EXCEPT ![r].decoder = result.decoder, ![r].lines = @ + 1]
                 /\ UNCHANGED <<pc, told>>
              \/ result.action = "yield" /\ SendFrame(r, result) /\ UNCHANGED pc
              \/ result.action = "last" /\ SendFrame(r, result) /\ Goto(r, "record")
              \/ /\ result.action = "stop"
                 /\ call' = [call EXCEPT ![r].ended = "stop", ![r].lines = 0]
                 /\ Goto(r, "record") /\ UNCHANGED told
              \/ /\ result.action = "raise"
                 /\ Unwind(r) /\ Goto(r, "recordFailed") /\ UNCHANGED told
  /\ UNCHANGED <<limiterVars, threads, prompt, lease, usage, saved>>

(* ReservationLifecycle.run: the renewal task reports that the reservation *)
(* is lost, and the pull is cancelled.                                     *)
RenewalFails(r) ==
  /\ pc[r] = "read" /\ lease[r] = "held"
  /\ Unwind(r) /\ Goto(r, "recordFailed")
  /\ UNCHANGED <<limiterVars, threads, prompt, lease, usage, told, saved>>

-----------------------------------------------------------------------------
(* The way out.                                                            *)

WriteUsage(r) == usage' = [usage EXCEPT ![r] = Append(@, call[r].counts)]

(* record_chat, and the end of record_stream after a whole stream.         *)
RecordUsage(r) ==
  /\ pc[r] = "record"
  /\ \/ WriteUsage(r) /\ Goto(r, "settle")
     \/ Goto(r, "release") /\ UNCHANGED usage
  /\ UNCHANGED <<limiterVars, threads, call, prompt, lease, told, saved>>

(* Mutation: a stream that failed is settled and finished like a whole one.*)
RecordFailedAsWhole(r) ==
  /\ pc[r] = "recordFailed"
  /\ \/ WriteUsage(r) /\ Goto(r, "settle")
     \/ Goto(r, "settle") /\ UNCHANGED usage
  /\ UNCHANGED <<limiterVars, threads, call, prompt, lease, told, saved>>

(* The finally of record_stream when the stream raised: what was used is   *)
(* recorded, and the error goes on.                                        *)
RecordFailed(r) ==
  /\ pc[r] = "recordFailed"
  /\ \/ WriteUsage(r) \/ UNCHANGED usage
  /\ Goto(r, "release")
  /\ UNCHANGED <<limiterVars, threads, call, prompt, lease, told, saved>>

(* lifecycle.settle.                                                       *)
Settle(r) ==
  /\ pc[r] = "settle"
  /\ \/ /\ lease' = [lease EXCEPT ![r] = IF @ = "held" THEN "settled" ELSE @]
        /\ Goto(r, IF Streams(r) THEN "finish" ELSE "saveUser")
     \/ lease[r] = "held" /\ Goto(r, "release") /\ UNCHANGED lease
  /\ UNCHANGED <<limiterVars, threads, call, prompt, usage, told, saved>>

(* __aexit__ without a settlement: released, or left to expire.            *)
Release(r) ==
  /\ pc[r] = "release"
  /\ lease' \in {lease, [lease EXCEPT ![r] = IF @ = "held" THEN "released" ELSE @]}
  /\ UNCHANGED <<limiterVars, threads, usage, told, saved>>
  /\ End(r)

(* The end of chat_completions_stream: a frame if there was none, and      *)
(* [DONE].                                                                 *)
SendDone(r) ==
  /\ pc[r] = "finish"
  /\ told' = [told EXCEPT ![r] = "all"]
  /\ Goto(r, "saveUser")
  /\ UNCHANGED <<limiterVars, threads, call, prompt, lease, usage, saved>>

(* Mutation: the answer is stored before the question.                     *)
SaveAnswerFirst(r) ==
  /\ pc[r] = "saveUser"
  /\ \/ AddMessage(call[r].thread, call[r].owner, Message("assistant", <<r, call[r].pieces>>))
        /\ saved' = [saved EXCEPT ![r] = @ \cup {"assistant"}]
        /\ Goto(r, "saveAssistant")
     \/ Goto(r, "respond") /\ UNCHANGED <<threads, saved>>
  /\ UNCHANGED <<limiterVars, call, prompt, lease, usage, told>>

(* persist_turn: two transactions; an error of either is logged.  A stream *)
(* gets here once its [DONE] frame was taken.                              *)
SaveUser(r) ==
  /\ pc[r] = "saveUser"
  /\ \/ AddMessage(call[r].thread, call[r].owner, Message("user", call[r].text))
        /\ saved' = [saved EXCEPT ![r] = @ \cup {"user"}]
        /\ Goto(r, IF call[r].pieces > 0 THEN "saveAssistant" ELSE "respond")
     \/ Goto(r, "respond") /\ UNCHANGED <<threads, saved>>
  /\ UNCHANGED <<limiterVars, call, prompt, lease, usage, told>>

SaveAssistant(r) ==
  /\ pc[r] = "saveAssistant"
  /\ \/ AddMessage(call[r].thread, call[r].owner, Message("assistant", <<r, call[r].pieces>>))
        /\ saved' = [saved EXCEPT ![r] = @ \cup {"assistant"}]
     \/ UNCHANGED <<threads, saved>>
  /\ Goto(r, "respond")
  /\ UNCHANGED <<limiterVars, call, prompt, lease, usage, told>>

Respond(r) ==
  /\ pc[r] = "respond"
  /\ told' = [told EXCEPT ![r] = "all"]
  /\ UNCHANGED <<limiterVars, threads, lease, usage, saved>>
  /\ End(r)

(* The client of a stream leaves.  Before the first pull nothing has been  *)
(* entered and nothing is undone.  After it the cancellation reaches the   *)
(* generators, and every await on their way out may be cancelled too.      *)
Disconnect(r) ==
  /\ pc[r] \in {"start", "read", "record", "recordFailed", "settle", "finish",
                "saveUser", "saveAssistant"}
  /\ Streams(r)
  /\ \/ pc[r] \notin {"read", "record", "recordFailed"} /\ UNCHANGED usage
     \/ /\ pc[r] \in {"read", "record", "recordFailed"}
        /\ WriteUsage(r) \/ UNCHANGED usage
  /\ \/ UNCHANGED lease
     \/ /\ pc[r] # "start" /\ lease[r] = "held"
        /\ lease' = [lease EXCEPT ![r] = "released"]
     \/ /\ pc[r] = "settle" /\ lease[r] = "held"
        /\ lease' = [lease EXCEPT ![r] = "settled"]
  /\ UNCHANGED <<limiterVars, threads, told, saved>>
  /\ End(r)

(* Time passes for the limiter; bound: while a request is still to come    *)
(* and those before it have ended early.                                   *)
TimePasses ==
  /\ \E r \in Requests : pc[r] = "idle"
  /\ \A r \in Requests : pc[r] \in {"idle", "done"} /\ usage[r] = <<>> /\ lease[r] = "none"
  /\ Tick
  /\ UNCHANGED <<threads, serving>>

(* What the program does on its own once a request is there.               *)
Serve(r) ==
  \/ ResolveThread(r) \/ PrepareThread(r) \/ Reserve(r)
  \/ ServiceChat(r) \/ StartStream(r) \/ ReadLine(r) \/ RenewalFails(r)
  \/ RecordUsage(r) \/ RecordFailed(r) \/ Settle(r) \/ Release(r)
  \/ SendDone(r) \/ SaveUser(r) \/ SaveAssistant(r) \/ Respond(r)

Next ==
  /\ UNCHANGED enabled
  /\ \/ TimePasses
     \/ \E r \in Requests :
          \/ CreateChatCompletion(r) \/ CreateChatCompletions(r)
          \/ Serve(r) \/ Disconnect(r)

Spec == Init /\ [][Next]_vars

-----------------------------------------------------------------------------
(* Properties.                                                             *)

(* The endpoints keep the promise of ChatExchange.                         *)
Exchange == INSTANCE ChatExchange WITH
  hold <- lease, charged <- [r \in Requests |-> Len(usage[r])]
ExchangeKept == Exchange!Spec

(* [DONE], and with it the stored turn, means to the client of an OpenAI   *)
(* model that the model finished, and that the last token counts it sent   *)
(* are the ones on record: chat_stream holds the terminal chunk back for   *)
(* them, and raises when there is none.                                    *)
DoneIsEarned ==
  \A r \in Requests :
    (told[r] = "all" /\ call[r] # NoCall /\ call[r].provider = "openai") =>
      /\ call[r].ended = "last"
      /\ Streams(r) => usage[r] = <<call[r].decoder.counts>>

(* However turns interleave on one thread, at no point of it are there     *)
(* more answers than questions, and an answer is stored once and with all  *)
(* the pieces that were sent (persist_turn writes in two transactions).    *)
AnswersFollowQuestions ==
  \A t \in Threads : threads[t] # NoThread =>
    LET ms == threads[t].messages
    IN  /\ \A i \in DOMAIN ms : Upto(ms, i, "assistant") <= Upto(ms, i, "user")
        /\ \A r \in Requests :
             LET answers == {i \in DOMAIN ms : ms[i].text[1] = r}
             IN  /\ Cardinality(answers) <= 1
                 /\ \A i \in answers : call[r] # NoCall => ms[i].text[2] = call[r].pieces

(* Whatever is left out of a prompt is in its summary, unless the summary  *)
(* is full, and what is left in is the end of the conversation             *)
(* (build_short_term_context).                                             *)
PromptIsWhole ==
  \A r \in Requests : prompt[r] # NoCall =>
    LET merged == prompt[r].merged
        context == prompt[r].context
    IN  /\ IsSuffix(context.history, merged)
        /\ Len(context.history) <= ContextLimit
        /\ ContextFits(context.summary, context.history)
        /\ \/ Len(context.summary) \in {SummaryRoom, ContextBudget}
           \/ \A i \in 1..(Len(merged) - Len(context.history)) :
                Contains(context.summary, merged[i])

(* A conversation is kept in order, and the model is asked with all of it  *)
(* that it can be asked with.                                              *)
ConversationKept == AnswersFollowQuestions /\ PromptIsWhole
=============================================================================
