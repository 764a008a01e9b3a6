----------------------------- MODULE RateLimit -----------------------------
(***************************************************************************)
(* The sliding-window limiter of one worker process, as the dependencies   *)
(* of the endpoints call it: once per request, by API key or by client IP. *)
(* acquire does not suspend.  A time stamp is kept as its age in ticks, so *)
(* the state does not grow with the clock.                                 *)
(***************************************************************************)
EXTENDS Integers, Sequences, SequencesExt

CONSTANTS
  Callers,   \* limiter keys: hashes of API keys, auth_ip:<address>
  Limit,     \* rate_limit_per_minute
  Window,    \* window_seconds, in ticks
  NoQueue    \* the key has no entry in _queues

ASSUME LimiterAssumption == Limit \in Nat \ {0} /\ Window \in Nat \ {0}

VARIABLES
  queues,    \* _queues: the ages of the recorded calls, oldest first
  admitted   \* history: the ages of the admitted calls, as far as a window goes

limiterVars == <<queues, admitted>>

LimiterInit ==
  /\ queues = [c \in Callers |-> NoQueue]
  /\ admitted = [c \in Callers |-> <<>>]

Fresh(ages) == SelectSeq(ages, LAMBDA a : a <= Window)

(* acquire: what has left the window is dropped; a queue that this empties *)
(* is deleted, and the call passes without being recorded.                 *)
Acquire(c) ==
  LET queue == IF queues[c] = NoQueue THEN <<>> ELSE Fresh(queues[c])
  IN  IF queues[c] # NoQueue /\ queue = <<>> THEN [allowed |-> TRUE, queue |-> NoQueue]
      ELSE IF Len(queue) >= Limit THEN [allowed |-> FALSE, queue |-> queue]
      ELSE [allowed |-> TRUE, queue |-> Append(queue, 0)]

(* check_and_record and check_and_record_key: a refusal raises.            *)
CheckAndRecord(c, allowed) ==
  /\ allowed = Acquire(c).allowed
  /\ queues' = [queues EXCEPT ![c] = Acquire(c).queue]
  /\ admitted' = IF allowed THEN [admitted EXCEPT ![c] = Append(Fresh(@), 0)] ELSE admitted

(* Time passes.  Ages beyond the window are all alike.                     *)
Older(ages) == [i \in 1..Len(ages) |-> IF ages[i] > Window THEN ages[i] ELSE ages[i] + 1]
Tick ==
  /\ queues' = [c \in Callers |-> IF queues[c] = NoQueue THEN NoQueue ELSE Older(queues[c])]
  /\ admitted' = [c \in Callers |-> Fresh(Older(admitted[c]))]

(* README.md: the limiter is a sliding window of so many calls a minute.   *)
(* It does not hold: a call that finds only expired entries passes without *)
(* being recorded (acquire).                                               *)
WindowHolds == \A c \in Callers : Len(admitted[c]) <= Limit
=============================================================================
