--------------------------- MODULE Conversations ---------------------------
(***************************************************************************)
(* Conversation threads: their repositories, the service over them and     *)
(* what of a thread becomes the prompt of the next turn.                   *)
(*                                                                         *)
(* A message is its role and its text; a text is a value that is compared  *)
(* and never taken apart.  The two repositories differ in what suspends,   *)
(* not in what they store: every operation here is one transaction.        *)
(***************************************************************************)
EXTENDS Integers, Sequences, FiniteSets, SequencesExt

CONSTANTS
  Threads,         \* thread ids, the ones that are not UUIDs included
  Owners,          \* tenant scopes
  ContextLimit,    \* context_limit: messages that are kept
  ContextBudget,   \* context_max_prompt_tokens, in messages
  SummaryRoom,     \* context_summary_max_chars, in messages
  NoThread         \* no row

ASSUME ContextAssumption ==
  ContextLimit \in Nat /\ ContextBudget \in Nat /\ SummaryRoom \in Nat

VARIABLE threads   \* the rows of conversation_threads with their messages

(* ConversationRepository.get_thread: a foreign thread is a missing one.   *)
GetThread(t, owner) == threads[t] # NoThread /\ threads[t].owner = owner

(* create_thread.                                                          *)
CreateThread(t, owner) ==
  threads' = [threads EXCEPT ![t] = [owner |-> owner, messages |-> <<>>]]

(* add_message: the new message is the last in the order of the thread; a  *)
(* thread that is not there takes none.                                    *)
AddMessage(t, owner, message) ==
  /\ GetThread(t, owner)
  /\ threads' = [threads EXCEPT ![t].messages = Append(@, message)]

(* list_messages, in the order of their time stamps and ids.               *)
ListMessages(t, owner) == IF GetThread(t, owner) THEN threads[t].messages ELSE <<>>

-----------------------------------------------------------------------------
(* ConversationService: the prompt of a turn.                              *)

(* _drop_retried_turn: when the last thing the user said is what the user  *)
(* says now, that turn and its answer are taken as a failed first try.     *)
DropRetriedTurn(merged, current) ==
  LET said == {i \in DOMAIN merged : merged[i].role = "user"}
      last == {i \in said : \A j \in said : j <= i}
  IN  IF \E i \in last : merged[i].text = current
      THEN SubSeq(merged, 1, (CHOOSE i \in last : TRUE) - 1)
      ELSE merged

(* Those of the client's messages that are not stored, in their order.     *)
NotStored(server, client) ==
  LET new == {i \in DOMAIN client : ~ Contains(server, client[i])}
      Nth(k) == CHOOSE i \in new : Cardinality({j \in new : j <= i}) = k
  IN  [k \in 1..Cardinality(new) |-> client[Nth(k)]]

(* merge_history: the stored messages, then those of the client that are   *)
(* not among them.                                                         *)
MergeHistory(server, client, current) ==
  DropRetriedTurn(server \o NotStored(server, client), current)

(* _build_summary and _truncate_text: one line for each message that is    *)
(* left out, as many lines as there is room for.                           *)
BuildSummary(dropped) ==
  SubSeq(dropped, 1, IF Len(dropped) < SummaryRoom THEN Len(dropped) ELSE SummaryRoom)

(* _context_fits: the estimate of the messages and of the system prompt    *)
(* with the summary.                                                       *)
ContextFits(summary, kept) == Len(summary) + Len(kept) <= ContextBudget

(* _truncate_summary_to_budget: the longest beginning that fits.           *)
TruncateSummaryToBudget(summary) ==
  SubSeq(summary, 1, IF Len(summary) < ContextBudget THEN Len(summary) ELSE ContextBudget)

(* What the two loops of build_short_term_context leave out when n         *)
(* messages are kept: the first loop lists its messages in order, each one *)
(* of the second goes in front of all others.                              *)
Dropped(history, n) ==
  LET first == IF Len(history) > ContextLimit THEN Len(history) - ContextLimit ELSE 0
  IN  Reverse(SubSeq(history, first + 1, Len(history) - n)) \o SubSeq(history, 1, first)

(* build_short_term_context: the most messages, from the end, that fit     *)
(* together with a summary of the others.                                  *)
BuildShortTermContext(history) ==
  LET most == IF Len(history) < ContextLimit THEN Len(history) ELSE ContextLimit
      Kept(n) == SubSeq(history, Len(history) - n + 1, Len(history))
      Summary(n) == BuildSummary(Dropped(history, n))
      fits == {n \in 0..most : ContextFits(Summary(n), Kept(n))}
  IN  IF fits # {}
      THEN LET n == CHOOSE n \in fits : \A m \in fits : m <= n
           IN  [history |-> Kept(n), summary |-> Summary(n)]
      ELSE [history |-> <<>>, summary |-> TruncateSummaryToBudget(Summary(0))]
=============================================================================
