------------------------ MODULE OrchestratorProofs ------------------------
(***************************************************************************)
(* Proofs about one multi-agent run, for every plan, policy and limit: its *)
(* subtasks and its stream (Orchestrator), and its timeline (RunTimeline,  *)
(* in the last part) for every number of reports and of failed INSERTs.    *)
(*                                                                         *)
(* DagInv: the sets of the loop, the asyncio tasks and the stream agree.   *)
(* SpendInv: what may be collected before the budget is looked at again.   *)
(* TimelineInv: where the run and a subtask are says which of their events *)
(* may still be queued or under way, and the row of the run is written     *)
(* when all before its terminal event are not.                             *)
(***************************************************************************)
EXTENDS Orchestrator, RunTimeline, FiniteSetTheorems, TLAPS

WireType == [begun : BOOLEAN, opened : SUBSET Tasks, ok : SUBSET Tasks,
             bad : SUBSET Tasks, again : BOOLEAN, terminals : Nat, closed : BOOLEAN]

(* What publishing does to the wire: nothing after the terminal event.     *)
LEMMA StartedFacts ==
  ASSUME NEW w \in WireType, NEW t \in Tasks
  PROVE  /\ Started(w, t) \in WireType
         /\ Started(w, t).terminals = w.terminals
         /\ Started(w, t).ok = w.ok /\ Started(w, t).bad = w.bad
         /\ Started(w, t).again = w.again
         /\ w.opened \subseteq Started(w, t).opened
         /\ Started(w, t).opened \subseteq w.opened \cup {t}
         /\ w.terminals > 0 => Started(w, t).opened = w.opened
  BY DEF Started, WireType

LEMMA ClosedFacts ==
  ASSUME NEW w \in WireType, NEW t \in Tasks, NEW good \in BOOLEAN
  PROVE  /\ Closed(w, t, good) \in WireType
         /\ Closed(w, t, good).terminals = w.terminals
         /\ Closed(w, t, good).opened = w.opened
         /\ w.terminals > 0 => Closed(w, t, good) = w
         /\ w.terminals = 0 =>
              /\ good => /\ Closed(w, t, good).ok = w.ok \cup {t}
                         /\ Closed(w, t, good).bad = w.bad
              /\ ~good => /\ Closed(w, t, good).ok = w.ok
                          /\ Closed(w, t, good).bad = w.bad \cup {t}
              /\ Closed(w, t, good).again => w.again \/ t \in w.ok \/ t \in w.bad
<1>1. w.terminals \in Nat /\ w.again \in BOOLEAN  BY DEF WireType
<1>2. CASE w.terminals > 0  BY <1>1, <1>2 DEF Closed, WireType
<1>3. CASE ~(w.terminals > 0)
  <2> DEFINE x == w.again \/ t \in w.ok \cup w.bad
             g == IF good THEN w.ok \cup {t} ELSE w.ok
             h == IF good THEN w.bad ELSE w.bad \cup {t}
  <2>2. Closed(w, t, good) = [w EXCEPT !.ok = g, !.bad = h, !.again = x]
    BY <1>3 DEF Closed
  <2>3. x \in BOOLEAN  OBVIOUS
  <2>4. g \in SUBSET Tasks /\ h \in SUBSET Tasks  BY DEF WireType
  <2> HIDE DEF x, g, h
  <2>6. /\ Closed(w, t, good) \in WireType
        /\ Closed(w, t, good).terminals = w.terminals
        /\ Closed(w, t, good).opened = w.opened
        /\ Closed(w, t, good).ok = g /\ Closed(w, t, good).bad = h
        /\ Closed(w, t, good).again = x
    BY <2>2, <2>3, <2>4 DEF WireType
  <2> QED BY <1>1, <1>3, <2>6 DEF x, g, h
<1> QED BY <1>2, <1>3

LEMMA EndFacts ==
  ASSUME NEW w \in WireType
  PROVE  /\ Terminal(w) \in WireType
         /\ Terminal(w).terminals = w.terminals + 1
         /\ FailUnexpected(w) \in WireType
         /\ FailUnexpected(w).terminals = IF w.terminals > 0 THEN w.terminals
                                                             ELSE w.terminals + 1
         /\ CloseStream(w) \in WireType
         /\ CloseStream(w).terminals = w.terminals
         /\ \A v \in {Terminal(w), FailUnexpected(w), CloseStream(w)} :
              v.opened = w.opened /\ v.ok = w.ok /\ v.bad = w.bad /\ v.again = w.again
<1>1. w.terminals \in Nat /\ w.closed \in BOOLEAN  BY DEF WireType
<1> DEFINE x == w.closed \/ w.terminals = 0
           n == IF w.terminals > 0 THEN w.terminals ELSE w.terminals + 1
<1>2. x \in BOOLEAN /\ n \in Nat  BY <1>1
<1>3. /\ CloseStream(w) = [w EXCEPT !.closed = x]
      /\ FailUnexpected(w) = [w EXCEPT !.terminals = n, !.closed = TRUE]
  BY DEF CloseStream, FailUnexpected
<1>4. /\ Terminal(w) \in WireType /\ Terminal(w).terminals = w.terminals + 1
      /\ Terminal(w).opened = w.opened /\ Terminal(w).ok = w.ok
      /\ Terminal(w).bad = w.bad /\ Terminal(w).again = w.again
  BY <1>1 DEF Terminal, WireType
<1> HIDE DEF x, n
<1>5. /\ CloseStream(w) \in WireType /\ CloseStream(w).terminals = w.terminals
      /\ CloseStream(w).opened = w.opened /\ CloseStream(w).ok = w.ok
      /\ CloseStream(w).bad = w.bad /\ CloseStream(w).again = w.again
  BY <1>2, <1>3 DEF WireType
<1>6. /\ FailUnexpected(w) \in WireType /\ FailUnexpected(w).terminals = n
      /\ FailUnexpected(w).opened = w.opened /\ FailUnexpected(w).ok = w.ok
      /\ FailUnexpected(w).bad = w.bad /\ FailUnexpected(w).again = w.again
  BY <1>2, <1>3 DEF WireType
<1> QED BY <1>4, <1>5, <1>6 DEF n

LEMMA Initially == Init => DagInv
<1> SUFFICES ASSUME Init PROVE DagInv  OBVIOUS
<1>1. DOMAIN plan = {}  BY DEF Init, NoPlan
<1>2. wire \in WireType  BY DEF Init, Quiet, WireType
<1>3. TypeOK
  <2>1. job \in [Tasks -> {"none"} \cup Unfinished \cup Finished]  BY DEF Init
  <2>2. outcome \in [Tasks -> {"none", "completed", "failed", "cancelled"}]  BY DEF Init
  <2>3. cost \in [Tasks -> 0..MaxTokens]  BY BoundsAssumption DEF Init
  <2>4. consumer \in {"absent", "reading", "leaving", "closed"}  BY DEF Init
  <2> QED BY <1>1, <1>2, <2>1, <2>2, <2>3, <2>4 DEF Init, TypeOK, WireType, Statuses
<1>4. wire.terminals = 0 /\ wire.opened = {} /\ wire.ok = {} /\ wire.bad = {} /\ ~wire.again
  BY DEF Init, Quiet
<1> QED BY <1>1, <1>3, <1>4 DEF Init, DagInv, Split, JobsMatch, WireMatches, Told,
                TerminalMatches, DependenciesHonoured, ReportedOnce, CompletedIsTrue,
                NoOrphans, Over, Unfinished

-----------------------------------------------------------------------------
(* The way out of execute: the result is made and the terminal event       *)
(* published.                                                              *)

LEMMA Returning ==
  ASSUME DagInv, pc \in {"planned", "loop", "waiting", "collecting"},
         NEW s \in Statuses \ {"running"},
         NEW c \in {"none", "cancelled", "timeout", "budget_exceeded", "subtask_failed",
                    "dependency_deadlock", "internal_error"},
         Return(s, c),
         UNCHANGED <<client, plan, pending, active, batch, completed, tokens, work, record>>,
         failed' = failed \/ \E t \in batch : /\ failed' = failed \cup {t}
                                              /\ job[t] = "ended" /\ outcome[t] = "failed",
         doomed' \subseteq Tasks, killed' \in BOOLEAN,
         s = "completed" => /\ pending = {} /\ active = {}
                            /\ failed = {} \/ policy = "skip",
         \/ killed' \/ c = "internal_error" \/ active = {}
         \/ \A t \in active : job[t] \in Unfinished => t \in doomed'
  PROVE  DagInv'
<1>0. /\ TypeOK /\ Split /\ JobsMatch /\ WireMatches /\ TerminalMatches
      /\ DependenciesHonoured /\ ReportedOnce
  BY DEF DagInv
<1>1. wire.terminals = 0 /\ wire \in WireType  BY <1>0 DEF TerminalMatches, Over, TypeOK, WireType
<1>2. /\ wire' \in WireType /\ wire'.terminals = 1
      /\ wire'.opened = wire.opened /\ wire'.ok = wire.ok /\ wire'.bad = wire.bad
      /\ wire'.again = wire.again
  BY <1>1, EndFacts DEF Return
<1>3. pc' = "emitting" /\ status' = s /\ code' = c  BY DEF Return
<1>4. failed' \subseteq DOMAIN plan  BY <1>0 DEF TypeOK
<1>5. TypeOK'  BY <1>0, <1>2, <1>3, <1>4 DEF TypeOK, WireType, Over, client, work
<1>6. completed \cap failed' = {} /\ pending \cap failed' = {}
  BY <1>0 DEF TypeOK, Split
<1>7. Split'  BY <1>0, <1>3, <1>6 DEF Split, Over
<1>8. JobsMatch'
  <2>1. \A t \in Tasks : t \in active \cup completed \cup failed
                          <=> t \in active \cup completed \cup failed'
    BY <1>0 DEF TypeOK
  <2> QED BY <1>0, <2>1 DEF JobsMatch, work
<1>9. WireMatches' /\ TerminalMatches'  BY <1>2, <1>3 DEF WireMatches, TerminalMatches, Over
<1>10. DependenciesHonoured' /\ ReportedOnce'
  BY <1>0, <1>2 DEF DependenciesHonoured, ReportedOnce
<1>11. CompletedIsTrue'
  <2> SUFFICES ASSUME s = "completed" PROVE CompletedIsTrue'
    BY <1>3 DEF CompletedIsTrue
  <2>1. pending = {} /\ active = {} /\ batch = {} /\ (failed = {} \/ policy = "skip")
    BY <1>0 DEF TypeOK
  <2>2. DOMAIN plan = completed \cup failed  BY <1>0, <2>1 DEF Split, Over
  <2>3. \A t \in Tasks : job[t] \in {"none", "ended"}  BY <1>0, <2>1 DEF JobsMatch
  <2>4. wire.ok = completed /\ wire.bad = failed
    <3>1. \A t \in Tasks : Told(t)  BY <1>0, <1>1 DEF WireMatches
    <3>2. wire.ok \subseteq Tasks /\ wire.bad \subseteq Tasks  BY <1>1 DEF WireType
    <3>3. completed \subseteq Tasks /\ failed \subseteq Tasks  BY <1>0 DEF TypeOK
    <3>4. \A t \in Tasks : /\ t \in completed => job[t] = "ended" /\ outcome[t] = "completed"
                           /\ t \in failed => job[t] = "ended" /\ outcome[t] = "failed"
                           /\ job[t] = "none" <=> t \notin completed \cup failed
      BY <1>0, <2>1 DEF JobsMatch
    <3>5. \A t \in Tasks : /\ t \in wire.ok <=> t \in completed
                           /\ t \in wire.bad <=> t \in failed
      BY <2>3, <3>1, <3>4 DEF Told
    <3> QED BY <3>2, <3>3, <3>5
  <2> QED BY <1>2, <2>1, <2>2, <2>3, <2>4 DEF CompletedIsTrue, Unfinished, client, work
<1>12. NoOrphans'
  <2>1. \A t \in Tasks : job[t] \in Unfinished => t \in active
    BY <1>0 DEF JobsMatch, Unfinished
  <2> QED BY <1>3, <2>1 DEF NoOrphans, work
<1> QED BY <1>5, <1>7, <1>8, <1>9, <1>10, <1>11, <1>12 DEF DagInv

-----------------------------------------------------------------------------
(* A step of a subtask's asyncio task.                                     *)

LEMMA JobMoves ==
  ASSUME DagInv, NEW t \in Tasks,
         NEW at \in {"running", "closing", "handling", "ended", "crashed", "dropped"},
         NEW o \in {"none", "completed", "failed", "cancelled"},
         job[t] \in Unfinished, JobGoes(t, at, o),
         cost' \in [Tasks -> 0..MaxTokens],
         wire' \in WireType, wire'.terminals = wire.terminals,
         doomed' \subseteq doomed, doomed \ {t} \subseteq doomed',
         t \in doomed \/ job[t] = "handling" => at \in {"handling", "ended", "dropped"},
         wire.terminals > 0 => wire' = wire \/ /\ wire'.opened = wire.opened
                                               /\ wire'.ok = wire.ok
                                               /\ wire'.bad = wire.bad
                                               /\ wire'.again = wire.again,
         wire.terminals = 0 =>
           /\ at # "dropped"
           /\ wire.opened \subseteq wire'.opened /\ wire'.opened \subseteq wire.opened \cup {t}
           /\ wire.ok \subseteq wire'.ok /\ wire'.ok \subseteq wire.ok \cup {t}
           /\ wire.bad \subseteq wire'.bad /\ wire'.bad \subseteq wire.bad \cup {t}
           /\ ~wire'.again
           /\ t \in wire'.ok <=> at \in {"closing", "handling", "ended"} /\ o = "completed"
           /\ t \in wire'.bad <=> at \in {"closing", "handling", "ended"} /\ o # "completed"
  PROVE  DagInv'
<1>0. /\ TypeOK /\ Split /\ JobsMatch /\ WireMatches /\ TerminalMatches
      /\ DependenciesHonoured /\ ReportedOnce /\ CompletedIsTrue /\ NoOrphans
  BY DEF DagInv
<1>1. /\ UNCHANGED <<client, loop, verdict, pc, killed, record>>
      /\ job' = [job EXCEPT ![t] = at] /\ outcome' = [outcome EXCEPT ![t] = o]
  BY DEF JobGoes
<1>2. /\ job'[t] = at /\ outcome'[t] = o
      /\ \A u \in Tasks \ {t} : job'[u] = job[u] /\ outcome'[u] = outcome[u]
  BY <1>0, <1>1 DEF TypeOK
<1>3. TypeOK'
  <2>1. job' \in [Tasks -> {"none"} \cup Unfinished \cup Finished]
    BY <1>0, <1>1 DEF TypeOK, Unfinished, Finished
  <2>2. outcome' \in [Tasks -> {"none", "completed", "failed", "cancelled"}]
    BY <1>0, <1>1 DEF TypeOK
  <2> QED BY <1>0, <1>1, <2>1, <2>2 DEF TypeOK, WireType, client, loop, verdict
<1>4. Split'  BY <1>0, <1>1 DEF Split, loop
<1>5. t \notin completed /\ t \notin failed /\ t \notin batch
  BY <1>0 DEF JobsMatch, Unfinished
<1>6. JobsMatch'
  <2> SUFFICES ASSUME NEW u \in Tasks
               PROVE  /\ job'[u] = "none" <=> u \notin active \cup completed \cup failed
                      /\ job'[u] # "none" => plan[u] \subseteq completed
                      /\ u \in completed => job'[u] = "ended" /\ outcome'[u] = "completed"
                      /\ u \in failed => job'[u] = "ended" /\ outcome'[u] = "failed"
                      /\ u \in batch => job'[u] \in {"ended", "crashed"}
    BY <1>1 DEF JobsMatch, loop
  <2>1. CASE u = t  BY <1>0, <1>2, <1>5, <2>1 DEF JobsMatch, Unfinished
  <2>2. CASE u # t  BY <1>0, <1>2, <2>2 DEF JobsMatch
  <2> QED BY <2>1, <2>2
<1>7. WireMatches'
  <2> SUFFICES ASSUME wire.terminals = 0, NEW u \in Tasks
               PROVE  doomed' = {} /\ Told(u)'
    BY DEF WireMatches
  <2>1. doomed' = {} /\ Told(u)  BY <1>0 DEF WireMatches
  <2>2. CASE u = t  BY <1>2, <2>1, <2>2 DEF Told
  <2>3. CASE u # t  BY <1>2, <2>1, <2>3 DEF Told
  <2> QED BY <2>1, <2>2, <2>3
<1>8. TerminalMatches'  BY <1>0, <1>1 DEF TerminalMatches, verdict, client, loop
<1>9. wire.terminals \in Nat  BY <1>0 DEF TypeOK
<1>10. DependenciesHonoured' /\ ReportedOnce'
  <2>1. CASE wire.terminals > 0
    BY <1>0, <1>1, <2>1 DEF DependenciesHonoured, ReportedOnce, loop
  <2>2. CASE wire.terminals = 0
    <3>1. completed \subseteq wire.ok
      BY <1>0, <2>2 DEF WireMatches, Told, JobsMatch, TypeOK
    <3>2. plan[t] \subseteq completed  BY <1>0 DEF JobsMatch, Unfinished
    <3>3. \A u \in wire'.opened : plan[u] \subseteq wire'.ok
      BY <1>0, <2>2, <3>1, <3>2 DEF DependenciesHonoured
    <3> QED BY <1>1, <2>2, <3>3 DEF DependenciesHonoured, ReportedOnce, loop
  <2> QED BY <1>9, <2>1, <2>2
<1>11. CompletedIsTrue'
  <2>1. status # "completed"  BY <1>0 DEF CompletedIsTrue
  <2> QED BY <1>1, <2>1 DEF CompletedIsTrue, verdict
<1>12. NoOrphans'
  <2> SUFFICES ASSUME pc \in Over, ~killed, code # "internal_error",
                      NEW u \in Tasks, job'[u] \in Unfinished
               PROVE  u \in doomed' \/ job'[u] = "handling"
    BY <1>1 DEF NoOrphans, verdict
  <2>1. CASE u = t  BY <1>0, <1>2, <2>1 DEF NoOrphans, Unfinished
  <2>2. CASE u # t  BY <1>0, <1>2, <2>2 DEF NoOrphans
  <2> QED BY <2>1, <2>2
<1> QED BY <1>3, <1>4, <1>6, <1>7, <1>8, <1>10, <1>11, <1>12 DEF DagInv

(* The two shapes of a subtask's step: it publishes its end, or nothing.   *)
LEMMA JobCloses ==
  ASSUME DagInv, NEW t \in Tasks, t \notin doomed,
         NEW at \in {"closing", "handling"},
         NEW o \in {"completed", "failed", "cancelled"},
         NEW good \in BOOLEAN, good <=> o = "completed",
         job[t] \in {"created", "running"}, JobGoes(t, at, o),
         wire' = Closed(wire, t, good), doomed' = doomed,
         cost' \in [Tasks -> 0..MaxTokens]
  PROVE  DagInv'
<1>0. TypeOK /\ WireMatches /\ ReportedOnce  BY DEF DagInv
<1>1. wire \in WireType /\ wire.terminals \in Nat /\ ~wire.again
  BY <1>0 DEF TypeOK, WireType, ReportedOnce
<1>2. wire' \in WireType /\ wire'.terminals = wire.terminals /\ wire'.opened = wire.opened
  BY <1>1, ClosedFacts
<1>3. wire.terminals > 0 => wire' = wire  BY <1>1, ClosedFacts
<1>4. ASSUME wire.terminals = 0
      PROVE  /\ wire.ok \subseteq wire'.ok /\ wire'.ok \subseteq wire.ok \cup {t}
             /\ wire.bad \subseteq wire'.bad /\ wire'.bad \subseteq wire.bad \cup {t}
             /\ ~wire'.again
             /\ t \in wire'.ok <=> at \in {"closing", "handling", "ended"} /\ o = "completed"
             /\ t \in wire'.bad <=> at \in {"closing", "handling", "ended"} /\ o # "completed"
  <2>1. /\ good => wire'.ok = wire.ok \cup {t} /\ wire'.bad = wire.bad
        /\ ~good => wire'.ok = wire.ok /\ wire'.bad = wire.bad \cup {t}
        /\ wire'.again => wire.again \/ t \in wire.ok \/ t \in wire.bad
    BY <1>1, <1>4, ClosedFacts
  <2>2. t \notin wire.ok /\ t \notin wire.bad
    BY <1>0, <1>4 DEF WireMatches, Told
  <2> QED BY <1>1, <2>1, <2>2
<1>5. job[t] \in Unfinished /\ job[t] # "handling"  BY DEF Unfinished
<1>6. /\ at \in {"running", "closing", "handling", "ended", "crashed", "dropped"}
      /\ at # "dropped"
      /\ o \in {"none", "completed", "failed", "cancelled"}
  OBVIOUS
<1> QED BY <1>2, <1>3, <1>4, <1>5, <1>6, JobMoves

LEMMA JobSilent ==
  ASSUME DagInv, NEW t \in Tasks, t \notin doomed,
         NEW at \in {"ended", "crashed"},
         NEW o \in {"none", "completed", "failed", "cancelled"},
         \/ at = "ended" /\ job[t] \in {"closing", "handling"} /\ o = outcome[t]
         \/ at = "crashed" /\ job[t] = "created",
         JobGoes(t, at, o), wire' = wire, doomed' = doomed, cost' = cost
  PROVE  DagInv'
<1>0. TypeOK /\ WireMatches /\ ReportedOnce  BY DEF DagInv
<1>1. /\ wire \in WireType /\ wire.terminals \in Nat /\ ~wire.again
      /\ cost' \in [Tasks -> 0..MaxTokens]
  BY <1>0 DEF TypeOK, WireType, ReportedOnce
<1>2. wire.terminals = 0 =>
        /\ t \in wire'.ok <=> at \in {"closing", "handling", "ended"} /\ o = "completed"
        /\ t \in wire'.bad <=> at \in {"closing", "handling", "ended"} /\ o # "completed"
  BY <1>0 DEF WireMatches, Told
<1>3. job[t] \in Unfinished /\ (job[t] = "handling" => at = "ended")  BY DEF Unfinished
<1>4. at \in {"running", "closing", "handling", "ended", "crashed", "dropped"} /\ at # "dropped"
  OBVIOUS
<1> QED BY <1>1, <1>2, <1>3, <1>4, JobMoves

LEMMA JobStep ==
  ASSUME DagInv, NEW t \in Tasks, Job(t)
  PROVE  DagInv'
<1>0. TypeOK /\ WireMatches /\ ReportedOnce  BY DEF DagInv
<1>1. /\ wire \in WireType /\ wire.terminals \in Nat
      /\ cost \in [Tasks -> 0..MaxTokens] /\ doomed \subseteq Tasks
      /\ outcome[t] \in {"none", "completed", "failed", "cancelled"}
  BY <1>0 DEF TypeOK, WireType
<1>2. wire.terminals = 0 => doomed = {} /\ Told(t)  BY <1>0 DEF WireMatches
<1>3. ~wire.again  BY <1>0 DEF ReportedOnce
<1>4. CASE JobBegins(t)
  <2>1. /\ job[t] = "created" /\ t \notin doomed /\ JobGoes(t, "running", "none")
        /\ wire' = Started(wire, t) /\ cost' = cost /\ doomed' = doomed
    BY <1>4 DEF JobBegins
  <2>2. /\ wire' \in WireType /\ wire'.terminals = wire.terminals
        /\ wire'.ok = wire.ok /\ wire'.bad = wire.bad /\ wire'.again = wire.again
    BY <1>1, <2>1, StartedFacts
  <2>3. /\ wire.terminals > 0 => wire'.opened = wire.opened
        /\ wire.opened \subseteq wire'.opened /\ wire'.opened \subseteq wire.opened \cup {t}
    BY <1>1, <2>1, StartedFacts
  <2>4. wire.terminals = 0 => t \notin wire'.ok /\ t \notin wire'.bad
    BY <1>2, <2>1, <2>2 DEF Told
  <2>5. job[t] \in Unfinished /\ job[t] # "handling"  BY <2>1 DEF Unfinished
  <2> QED BY <1>1, <1>3, <2>1, <2>2, <2>3, <2>4, <2>5, JobMoves
<1>5. CASE JobRefused(t)
  <2>1. /\ job[t] = "created" /\ t \notin doomed
        /\ wire' = Closed(wire, t, FALSE) /\ cost' = cost /\ doomed' = doomed
    BY <1>5 DEF JobRefused
  <2>2. PICK o \in {"failed", "cancelled"} : JobGoes(t, "handling", o)
    BY <1>5 DEF JobRefused
  <2> QED BY <1>1, <2>1, <2>2, JobCloses
<1>6. CASE JobCrashes(t)
  BY <1>6, JobSilent DEF JobCrashes
<1>7. CASE JobReturns(t)
  <2>1. job[t] = "running" /\ t \notin doomed /\ doomed' = doomed
    BY <1>7 DEF JobReturns
  <2>2. PICK o \in {"completed", "failed", "cancelled"} :
          JobGoes(t, "closing", o) /\ wire' = Closed(wire, t, o = "completed")
    BY <1>7 DEF JobReturns
  <2>3. cost' \in [Tasks -> 0..MaxTokens]
    BY <1>1, <1>7 DEF JobReturns
  <2> DEFINE good == o = "completed"
  <2>4. good \in BOOLEAN  OBVIOUS
  <2>5. wire' = Closed(wire, t, good)  BY <2>2
  <2>6. good <=> o = "completed"  OBVIOUS
  <2> HIDE DEF good
  <2> QED BY <2>1, <2>2, <2>3, <2>4, <2>5, <2>6, JobCloses
<1>8. CASE JobRaises(t)
  BY <1>1, <1>8, JobCloses DEF JobRaises
<1>9. CASE JobEnds(t)
  BY <1>1, <1>9, JobSilent DEF JobEnds
<1>10. CASE JobCancelled(t)
  <2>1. t \in doomed /\ doomed' = doomed \ {t} /\ cost' = cost /\ wire.terminals # 0
    BY <1>2, <1>10 DEF JobCancelled
  <2>2. CASE /\ job[t] \in {"created", "handling"} /\ wire' = wire
             /\ JobGoes(t, "dropped", outcome[t])
    BY <1>1, <2>1, <2>2, JobMoves DEF Unfinished
  <2>3. CASE /\ job[t] \in {"running", "closing"} /\ wire' = Closed(wire, t, FALSE)
             /\ JobGoes(t, "handling", "cancelled")
    BY <1>1, <2>1, <2>3, ClosedFacts, JobMoves DEF Unfinished
  <2> QED BY <1>10, <2>2, <2>3 DEF JobCancelled
<1> QED BY <1>4, <1>5, <1>6, <1>7, <1>8, <1>9, <1>10 DEF Job

-----------------------------------------------------------------------------
(* Steps that leave the plan, its sets and the asyncio tasks alone.        *)

LEMMA Calm ==
  ASSUME DagInv, UNCHANGED <<streaming, policy, loop, verdict, work, doomed>>,
         cancel' \in BOOLEAN, late' \in BOOLEAN, killed' \in BOOLEAN, killed => killed',
         consumer' \in {"absent", "reading", "leaving", "closed"},
         record' \in Statuses \cup {"none"},
         wire' \in WireType, wire'.opened = wire.opened, wire'.ok = wire.ok,
         wire'.bad = wire.bad, wire'.again = wire.again,
         \/ pc' = pc /\ wire'.terminals = wire.terminals
         \/ pc = "new" /\ pc' = "decomposing" /\ wire'.terminals = wire.terminals
         \/ pc = "emitting" /\ pc' = "persisting" /\ wire'.terminals = wire.terminals
         \/ /\ pc \in {"emitting", "persisting"} /\ pc' = "done"
            /\ wire'.terminals = wire.terminals
         \/ /\ pc \in {"new", "decomposing", "planned"} /\ pc' = "done"
            /\ \/ wire'.terminals = 1
               \/ wire'.terminals = wire.terminals /\ (killed' \/ ~streaming)
  PROVE  DagInv'
<1>0. /\ TypeOK /\ Split /\ JobsMatch /\ WireMatches /\ TerminalMatches
      /\ DependenciesHonoured /\ ReportedOnce /\ CompletedIsTrue /\ NoOrphans
  BY DEF DagInv
<1>1. TypeOK'  BY <1>0 DEF TypeOK, WireType, Over, loop, verdict, work
<1>2. Split'  BY <1>0 DEF Split, Over, loop
<1>3. JobsMatch'  BY <1>0 DEF JobsMatch, loop, work
<1>4. WireMatches'
  <2>1. wire'.terminals = 0 => wire.terminals = 0  OBVIOUS
  <2> QED BY <1>0, <2>1 DEF WireMatches, Told, work
<1>5. TerminalMatches'
  <2>1. pc \in {"new", "decomposing", "planned"} => active = {}  BY <1>0 DEF Split
  <2> QED BY <1>0, <2>1 DEF TerminalMatches, Over, loop, verdict
<1>6. DependenciesHonoured' /\ ReportedOnce' /\ CompletedIsTrue'
  BY <1>0 DEF DependenciesHonoured, ReportedOnce, CompletedIsTrue, loop, verdict, work
<1>7. NoOrphans'
  <2>1. CASE pc \in Over  BY <1>0, <2>1 DEF NoOrphans, verdict, work
  <2>2. CASE pc \in {"new", "decomposing", "planned"}
    <3>1. \A t \in Tasks : job[t] = "none"  BY <1>0, <2>2 DEF Split, JobsMatch
    <3> QED BY <3>1 DEF NoOrphans, Unfinished, work
  <2>3. CASE pc \notin Over /\ pc' = pc  BY <2>3 DEF NoOrphans
  <2> QED BY <2>1, <2>2, <2>3 DEF Over
<1> QED BY <1>1, <1>2, <1>3, <1>4, <1>5, <1>6, <1>7 DEF DagInv

LEMMA CalmStep ==
  ASSUME DagInv,
         \/ Begin \/ DecomposeFails \/ Emitted \/ Persist
         \/ ConsumerReads \/ Disconnect \/ ConsumerEnds \/ Tick
  PROVE  DagInv'
<1>0. TypeOK /\ TerminalMatches  BY DEF DagInv
<1>1. /\ wire \in WireType /\ wire.terminals \in Nat
      /\ cancel \in BOOLEAN /\ late \in BOOLEAN /\ killed \in BOOLEAN
      /\ consumer \in {"absent", "reading", "leaving", "closed"}
      /\ status \in Statuses /\ record \in Statuses \cup {"none"}
      /\ streaming \in BOOLEAN
  BY <1>0 DEF TypeOK, WireType
<1>2. CASE Begin
  <2>1. /\ wire' \in WireType /\ wire'.terminals = wire.terminals
        /\ wire'.opened = wire.opened /\ wire'.ok = wire.ok
        /\ wire'.bad = wire.bad /\ wire'.again = wire.again
    BY <1>1, <1>2 DEF Begin, WireType
  <2> QED BY <1>1, <1>2, <2>1, Calm DEF Begin, client
<1>3. CASE DecomposeFails
  <2>1. wire.terminals = 0  BY <1>0, <1>3 DEF DecomposeFails, TerminalMatches, Over
  <2>2. CASE streaming
    <3>1. wire' = FailUnexpected(wire)  BY <1>3, <2>2 DEF DecomposeFails
    <3>2. /\ wire' \in WireType /\ wire'.terminals = 1
          /\ wire'.opened = wire.opened /\ wire'.ok = wire.ok
          /\ wire'.bad = wire.bad /\ wire'.again = wire.again
      BY <1>1, <2>1, <3>1, EndFacts
    <3> QED BY <1>1, <1>3, <3>2, Calm DEF DecomposeFails, client
  <2>3. CASE ~streaming
    BY <1>1, <1>3, <2>3, Calm DEF DecomposeFails, client
  <2> QED BY <2>2, <2>3
<1>4. CASE Emitted  BY <1>1, <1>4, Calm DEF Emitted, client
<1>5. CASE Persist
  <2>1. wire' = CloseStream(wire)  BY <1>5 DEF Persist
  <2>2. /\ wire' \in WireType /\ wire'.terminals = wire.terminals
        /\ wire'.opened = wire.opened /\ wire'.ok = wire.ok
        /\ wire'.bad = wire.bad /\ wire'.again = wire.again
    BY <1>1, <2>1, EndFacts
  <2> QED BY <1>1, <1>5, <2>2, Calm DEF Persist, client
<1>6. CASE ConsumerReads
  <2>1. (cancel \/ pc # "done") \in BOOLEAN  OBVIOUS
  <2>2. cancel' \in BOOLEAN  BY <1>6, <2>1 DEF ConsumerReads, Leave
  <2> QED BY <1>1, <1>6, <2>2, Calm DEF ConsumerReads, Leave
<1>7. CASE Disconnect  BY <1>1, <1>7, Calm DEF Disconnect, Leave
<1>8. CASE ConsumerEnds  BY <1>1, <1>8, Calm DEF ConsumerEnds
<1>9. CASE Tick  BY <1>1, <1>9, Calm DEF Tick
<1> QED BY <1>2, <1>3, <1>4, <1>5, <1>6, <1>7, <1>8, <1>9

LEMMA KillStep ==
  ASSUME DagInv, Kill
  PROVE  DagInv'
<1>0. TypeOK  BY DEF DagInv
<1>1. /\ wire \in WireType /\ wire.terminals \in Nat
      /\ cancel \in BOOLEAN /\ late \in BOOLEAN
      /\ consumer \in {"absent", "reading", "leaving", "closed"}
      /\ record \in Statuses \cup {"none"} /\ doomed \subseteq Tasks
  BY <1>0 DEF TypeOK, WireType
<1>2. killed' = TRUE /\ UNCHANGED <<client, loop, work, doomed, record>>  BY DEF Kill
<1>3. CASE /\ pc \in {"new", "decomposing", "planned", "emitting", "persisting"}
           /\ pc' = "done" /\ UNCHANGED verdict
           /\ wire' = IF pc = "new" THEN wire ELSE CloseStream(wire)
  <2>1. /\ wire' \in WireType /\ wire'.terminals = wire.terminals
        /\ wire'.opened = wire.opened /\ wire'.ok = wire.ok
        /\ wire'.bad = wire.bad /\ wire'.again = wire.again
    <3>1. CASE pc = "new"  BY <1>1, <1>3, <3>1
    <3>2. CASE pc # "new"  BY <1>1, <1>3, <3>2, EndFacts
    <3> QED BY <3>1, <3>2
  <2> QED BY <1>1, <1>2, <1>3, <2>1, Calm DEF client
<1>4. CASE pc = "waiting" /\ Return("cancelled", "cancelled")
  BY <1>1, <1>2, <1>4, Returning DEF Statuses, loop
<1> QED BY <1>3, <1>4 DEF Kill

-----------------------------------------------------------------------------
(* Steps of _execute_dag.                                                  *)

LEMMA DecomposeStep ==
  ASSUME DagInv, Decompose
  PROVE  DagInv'
<1>0. /\ TypeOK /\ Split /\ JobsMatch /\ WireMatches /\ TerminalMatches
      /\ DependenciesHonoured /\ ReportedOnce /\ CompletedIsTrue /\ NoOrphans
  BY DEF DagInv
<1>1. /\ pc = "decomposing" /\ pc' = "planned"
      /\ UNCHANGED <<active, batch, completed, failed, tokens>>
      /\ UNCHANGED <<client, verdict, work, doomed, wire, killed, record>>
      /\ plan' \in Plans /\ pending' = DOMAIN plan'
  BY DEF Decompose
<1>2. active = {} /\ completed = {} /\ failed = {} /\ batch = {}
  BY <1>0, <1>1 DEF Split, TypeOK
<1>3. DOMAIN plan' \subseteq Tasks  BY <1>1, PlansAssumption
<1>4. TypeOK'  BY <1>0, <1>1, <1>2, <1>3 DEF TypeOK, client, verdict, work
<1>5. Split'  BY <1>1, <1>2 DEF Split, Over
<1>6. \A t \in Tasks : job[t] = "none"  BY <1>0, <1>2 DEF JobsMatch
<1>7. JobsMatch'  BY <1>1, <1>2, <1>6 DEF JobsMatch, work
<1>8. WireMatches'  BY <1>0, <1>1 DEF WireMatches, Told, work
<1>9. TerminalMatches'  BY <1>0, <1>1 DEF TerminalMatches, Over, verdict
<1>10. DependenciesHonoured'
  <2>1. wire.terminals = 0  BY <1>0, <1>1 DEF TerminalMatches, Over
  <2>2. \A t \in Tasks : t \notin wire.opened
    BY <1>0, <1>6, <2>1 DEF WireMatches, Told
  <2>3. wire.opened \subseteq Tasks  BY <1>0 DEF TypeOK
  <2> QED BY <1>1, <2>2, <2>3 DEF DependenciesHonoured
<1>11. ReportedOnce'  BY <1>0, <1>1 DEF ReportedOnce
<1>12. CompletedIsTrue' /\ NoOrphans'
  BY <1>0, <1>1 DEF TerminalMatches, CompletedIsTrue, NoOrphans, Over, verdict
<1> QED BY <1>4, <1>5, <1>7, <1>8, <1>9, <1>10, <1>11, <1>12 DEF DagInv

LEMMA StopStep ==
  ASSUME DagInv, pc \in {"planned", "loop", "waiting", "collecting"},
         NEW s \in Statuses \ {"running", "completed"},
         NEW c \in {"cancelled", "timeout", "budget_exceeded"},
         StopReturns(s, c)
  PROVE  DagInv'
<1>0. TypeOK  BY DEF DagInv
<1>1. doomed' \subseteq Tasks /\ killed' \in BOOLEAN
  BY <1>0 DEF TypeOK, StopReturns, Doom
<1>2. \A t \in active : job[t] \in Unfinished => t \in doomed'
  BY DEF StopReturns, Doom
<1>3. Return(s, c) /\ UNCHANGED <<client, loop, work, killed, record>>  BY DEF StopReturns
<1> QED BY <1>1, <1>2, <1>3, Returning DEF loop

LEMMA PassStep ==
  ASSUME DagInv, Pass
  PROVE  DagInv'
<1>0. /\ TypeOK /\ Split /\ JobsMatch /\ WireMatches /\ TerminalMatches
      /\ DependenciesHonoured /\ ReportedOnce /\ CompletedIsTrue /\ NoOrphans
  BY DEF DagInv
<1>1. pc \in {"planned", "loop"}
  BY DEF Pass, PassCancelled, PassTimedOut, PassOverBudget, PassStarts, PassDeadlock,
         PassEnds, Proceeds, AtTop
<1>2. CASE PassCancelled  BY <1>1, <1>2, StopStep DEF PassCancelled, Statuses
<1>3. CASE PassTimedOut  BY <1>1, <1>3, StopStep DEF PassTimedOut, Statuses
<1>4. CASE PassOverBudget  BY <1>1, <1>4, StopStep DEF PassOverBudget, Statuses
<1>5. CASE PassStarts
  <2>1. PICK S \in SUBSET Ready :
          /\ pending' = pending \ S /\ active' = active \cup S
          /\ job' = [t \in Tasks |-> IF t \in S THEN "created" ELSE job[t]]
    BY <1>5 DEF PassStarts
  <2>2. /\ pc' = "waiting"
        /\ UNCHANGED <<plan, batch, completed, failed, tokens, outcome, cost>>
        /\ UNCHANGED <<client, verdict, doomed, wire, killed, record>>
    BY <1>5 DEF PassStarts
  <2>3. /\ S \subseteq pending /\ S \subseteq Tasks
        /\ \A t \in S : plan[t] \subseteq completed
    BY <1>0 DEF Ready, TypeOK
  <2>4. \A t \in S : job[t] = "none" /\ job'[t] = "created" /\ t \notin batch
    BY <1>0, <2>1, <2>3 DEF Split, JobsMatch, TypeOK
  <2>5. \A t \in Tasks \ S : job'[t] = job[t]  BY <2>1
  <2>6. TypeOK'
    <3>1. job' \in [Tasks -> {"none"} \cup Unfinished \cup Finished]
      BY <1>0, <2>1 DEF TypeOK, Unfinished
    <3> QED BY <1>0, <2>1, <2>2, <2>3, <3>1 DEF TypeOK, client, verdict
  <2>7. Split'  BY <1>0, <1>1, <2>1, <2>2, <2>3 DEF Split, Over
  <2>8. JobsMatch'
    <3> SUFFICES ASSUME NEW t \in Tasks
                 PROVE  /\ job'[t] = "none" <=> t \notin active' \cup completed \cup failed
                        /\ job'[t] # "none" => plan[t] \subseteq completed
                        /\ t \in completed => job'[t] = "ended" /\ outcome[t] = "completed"
                        /\ t \in failed => job'[t] = "ended" /\ outcome[t] = "failed"
                        /\ t \in batch => job'[t] \in {"ended", "crashed"}
      BY <2>2 DEF JobsMatch
    <3>1. CASE t \in S  BY <1>0, <2>1, <2>3, <2>4, <3>1 DEF Split
    <3>2. CASE t \notin S  BY <1>0, <2>1, <2>5, <3>2 DEF JobsMatch
    <3> QED BY <3>1, <3>2
  <2>9. WireMatches'
    <3>0. wire.terminals = 0 => doomed = {}  BY <1>0 DEF WireMatches
    <3> SUFFICES ASSUME wire.terminals = 0, NEW t \in Tasks PROVE Told(t)'
      BY <2>2, <3>0 DEF WireMatches
    <3>1. Told(t)  BY <1>0 DEF WireMatches
    <3>2. CASE t \in S  BY <2>2, <2>4, <3>1, <3>2 DEF Told
    <3>3. CASE t \notin S  BY <2>2, <2>5, <3>1, <3>3 DEF Told
    <3> QED BY <3>2, <3>3
  <2>10. TerminalMatches'  BY <1>0, <1>1, <2>2 DEF TerminalMatches, Over, verdict
  <2>11. DependenciesHonoured' /\ ReportedOnce'
    BY <1>0, <2>2 DEF DependenciesHonoured, ReportedOnce
  <2>12. CompletedIsTrue' /\ NoOrphans'
    BY <1>0, <1>1, <2>2 DEF TerminalMatches, CompletedIsTrue, NoOrphans, Over, verdict
  <2> QED BY <2>6, <2>7, <2>8, <2>9, <2>10, <2>11, <2>12 DEF DagInv
<1>6. CASE PassDeadlock
  <2>1. /\ Return("failed", "dependency_deadlock") /\ active = {}
        /\ UNCHANGED <<client, loop, work, doomed, killed, record>>
    BY <1>6 DEF PassDeadlock
  <2>2. doomed' \subseteq Tasks /\ killed' \in BOOLEAN  BY <1>0, <2>1 DEF TypeOK
  <2> QED BY <1>1, <2>1, <2>2, Returning DEF Statuses, loop
<1>7. CASE PassEnds
  <2>1. /\ pending = {} /\ active = {}
        /\ UNCHANGED <<client, loop, work, doomed, killed, record>>
    BY <1>7 DEF PassEnds, LoopEnds
  <2>2. doomed' \subseteq Tasks /\ killed' \in BOOLEAN  BY <1>0, <2>1 DEF TypeOK
  <2>3. CASE failed = {} \/ policy = "skip"
    <3>1. Return("completed", "none")  BY <1>7, <2>3 DEF PassEnds
    <3> QED BY <1>1, <2>1, <2>2, <2>3, <3>1, Returning DEF Statuses, loop
  <2>4. CASE ~(failed = {} \/ policy = "skip")
    <3>1. Return("failed", "subtask_failed")  BY <1>7, <2>4 DEF PassEnds
    <3> QED BY <1>1, <2>1, <2>2, <3>1, Returning DEF Statuses, loop
  <2> QED BY <2>3, <2>4
<1> QED BY <1>2, <1>3, <1>4, <1>5, <1>6, <1>7 DEF Pass

LEMMA WaitStep ==
  ASSUME DagInv, WaitReturns
  PROVE  DagInv'
<1>0. /\ TypeOK /\ Split /\ JobsMatch /\ WireMatches /\ TerminalMatches
      /\ DependenciesHonoured /\ ReportedOnce /\ CompletedIsTrue /\ NoOrphans
  BY DEF DagInv
<1>1. /\ pc = "waiting" /\ pc' = "collecting"
      /\ batch' = {t \in active : job[t] \in Finished}
      /\ UNCHANGED <<plan, pending, active, completed, failed, tokens>>
      /\ UNCHANGED <<client, verdict, work, doomed, wire, killed, record>>
  BY DEF WaitReturns
<1>2. wire.terminals = 0  BY <1>0, <1>1 DEF TerminalMatches, Over
<1>3. \A t \in batch' : t \in active /\ job[t] \in {"ended", "crashed"}
  BY <1>0, <1>1, <1>2 DEF WireMatches, Told, Finished, TypeOK
<1>4. TypeOK'  BY <1>0, <1>1 DEF TypeOK, client, verdict, work
<1>5. Split'  BY <1>0, <1>1 DEF Split, Over
<1>6. JobsMatch'  BY <1>0, <1>1, <1>3 DEF JobsMatch, work
<1>7. WireMatches'  BY <1>0, <1>1 DEF WireMatches, Told, work
<1>8. TerminalMatches'  BY <1>0, <1>1 DEF TerminalMatches, Over, verdict
<1>9. DependenciesHonoured' /\ ReportedOnce'
  BY <1>0, <1>1 DEF DependenciesHonoured, ReportedOnce
<1>10. CompletedIsTrue' /\ NoOrphans'
  BY <1>0, <1>1, <1>2 DEF TerminalMatches, CompletedIsTrue, NoOrphans, Over, verdict
<1> QED BY <1>4, <1>5, <1>6, <1>7, <1>8, <1>9, <1>10 DEF DagInv

LEMMA CollectStep ==
  ASSUME DagInv, NEW t \in Tasks, Collect(t)
  PROVE  DagInv'
<1>0. /\ TypeOK /\ Split /\ JobsMatch /\ WireMatches /\ TerminalMatches
      /\ DependenciesHonoured /\ ReportedOnce /\ CompletedIsTrue /\ NoOrphans
  BY DEF DagInv
<1>1. pc = "collecting" /\ t \in batch /\ t \in active /\ t \in DOMAIN plan
  BY <1>0 DEF Collect, CollectCompleted, CollectFailed, CollectFailFast, CollectCancelled,
              CollectCrashed, TypeOK
<1>2. wire.terminals = 0  BY <1>0, <1>1 DEF TerminalMatches, Over
<1>3. CASE CollectCompleted(t) \/ CollectFailed(t)
  <2>1. /\ job[t] = "ended" /\ Taken(t)
        /\ \/ outcome[t] = "completed" /\ completed' = completed \cup {t} /\ failed' = failed
           \/ outcome[t] = "failed" /\ failed' = failed \cup {t} /\ completed' = completed
    BY <1>3 DEF CollectCompleted, CollectFailed
  <2>2. /\ batch' = batch \ {t} /\ active' = active \ {t} /\ pc' \in {"loop", "collecting"}
        /\ UNCHANGED <<plan, pending, client, verdict, work, doomed, wire, killed, record>>
    BY <2>1 DEF Taken
  <2>3. tokens' \in Nat
    <3>1. cost[t] \in Nat /\ tokens \in Nat  BY <1>0, BoundsAssumption DEF TypeOK
    <3> QED BY <1>3, <3>1 DEF CollectCompleted, CollectFailed
  <2>4. TypeOK'
    BY <1>0, <1>1, <2>1, <2>2, <2>3 DEF TypeOK, Over, client, verdict, work
  <2>5. Split'
    <3>1. t \notin pending /\ t \notin completed /\ t \notin failed
      BY <1>0, <1>1 DEF Split, Over
    <3> QED BY <1>0, <1>1, <2>1, <2>2, <3>1 DEF Split, Over
  <2>6. JobsMatch'
    <3>1. \A u \in Tasks : u \in active' \cup completed' \cup failed'
                            <=> u \in active \cup completed \cup failed
      BY <1>1, <2>1, <2>2
    <3>2. completed \subseteq completed' /\ batch' \subseteq batch
      BY <2>1, <2>2
    <3>3. \A u \in Tasks : /\ u \in completed' => job[u] = "ended" /\ outcome[u] = "completed"
                           /\ u \in failed' => job[u] = "ended" /\ outcome[u] = "failed"
      BY <1>0, <2>1 DEF JobsMatch
    <3> QED BY <1>0, <2>2, <3>1, <3>2, <3>3 DEF JobsMatch, work
  <2>7. WireMatches'  BY <1>0, <2>2 DEF WireMatches, Told, work
  <2>8. TerminalMatches'  BY <1>0, <1>2, <2>2 DEF TerminalMatches, Over, verdict
  <2>9. DependenciesHonoured' /\ ReportedOnce'
    BY <1>0, <2>2 DEF DependenciesHonoured, ReportedOnce
  <2>10. CompletedIsTrue' /\ NoOrphans'
    BY <1>0, <1>2, <2>2 DEF TerminalMatches, CompletedIsTrue, NoOrphans, Over, verdict
  <2> QED BY <2>4, <2>5, <2>6, <2>7, <2>8, <2>9, <2>10 DEF DagInv
<1>4. CASE CollectFailFast(t)
  <2>1. /\ job[t] = "ended" /\ outcome[t] = "failed"
        /\ failed' = failed \cup {t} /\ Return("failed", "subtask_failed")
        /\ doomed' = Doom
        /\ UNCHANGED <<plan, pending, active, batch, completed, tokens>>
        /\ UNCHANGED <<client, work, killed, record>>
    BY <1>4 DEF CollectFailFast
  <2>2. doomed' \subseteq Tasks /\ killed' \in BOOLEAN  BY <1>0, <2>1 DEF TypeOK, Doom
  <2>3. \A u \in active : job[u] \in Unfinished => u \in doomed'  BY <2>1 DEF Doom
  <2> QED BY <1>1, <2>1, <2>2, <2>3, Returning DEF Statuses
<1>5. CASE CollectCancelled(t)  BY <1>1, <1>5, StopStep DEF CollectCancelled, Statuses
<1>6. CASE CollectCrashed(t)
  <2>1. /\ Return("failed", "internal_error")
        /\ UNCHANGED <<client, loop, work, doomed, killed, record>>
    BY <1>6 DEF CollectCrashed
  <2>2. doomed' \subseteq Tasks /\ killed' \in BOOLEAN  BY <1>0, <2>1 DEF TypeOK
  <2> QED BY <1>1, <2>1, <2>2, Returning DEF Statuses, loop
<1> QED BY <1>3, <1>4, <1>5, <1>6 DEF Collect

-----------------------------------------------------------------------------
(* The theorems.                                                           *)

LEMMA Inductive == DagInv /\ [Next]_vars => DagInv'
<1> SUFFICES ASSUME DagInv, [Next]_vars PROVE DagInv'  OBVIOUS
<1>1. CASE Produce
  BY <1>1, CalmStep, DecomposeStep, PassStep, WaitStep, CollectStep DEF Produce
<1>2. CASE Kill  BY <1>2, KillStep
<1>3. CASE \E t \in Tasks : Job(t)  BY <1>3, JobStep
<1>4. CASE ConsumerReads \/ Disconnect \/ ConsumerEnds \/ Tick  BY <1>4, CalmStep
<1>5. CASE UNCHANGED vars
  BY <1>5 DEF vars, client, loop, verdict, work, DagInv, TypeOK, Split, JobsMatch,
              WireMatches, Told, TerminalMatches, DependenciesHonoured, ReportedOnce,
              CompletedIsTrue, NoOrphans
<1> QED BY <1>1, <1>2, <1>3, <1>4, <1>5 DEF Next

(* The sets of _execute_dag, the asyncio tasks and the stream agree in     *)
(* every state of every run.                                               *)
THEOREM DagCorrect == Spec => []DagInv
<1>1. Init => DagInv  BY Initially
<1>2. DagInv /\ [Next]_vars => DagInv'  BY Inductive
<1> QED BY <1>1, <1>2, PTL DEF Spec

(* Every variable of a run keeps its type, for every plan and every limit. *)
THEOREM TypeCorrect == Spec => []TypeOK
<1>1. DagInv => TypeOK  BY DEF DagInv
<1> QED BY <1>1, DagCorrect, PTL

(* _execute_dag starts a subtask after its dependencies are reported.      *)
THEOREM OrderOnTheWire == Spec => []DependenciesHonoured
<1>1. DagInv => DependenciesHonoured  BY DEF DagInv
<1> QED BY <1>1, DagCorrect, PTL

(* _execute_single_task reports the end of a subtask once to the client.   *)
THEOREM OneReport == Spec => []ReportedOnce
<1>1. DagInv => ReportedOnce  BY DEF DagInv
<1> QED BY <1>1, DagCorrect, PTL

(* execute returns completed when every subtask of the plan is over, and   *)
(* failures only under the policy that tolerates them.                     *)
THEOREM TrueCompletion == Spec => []CompletedIsTrue
<1>1. DagInv => CompletedIsTrue  BY DEF DagInv
<1> QED BY <1>1, DagCorrect, PTL

(* execute cancels the subtasks that are at work when it returns, except   *)
(* on the two ways out NoOrphans names.                                    *)
THEOREM NothingLeftRunning == Spec => []NoOrphans
<1>1. DagInv => NoOrphans  BY DEF DagInv
<1> QED BY <1>1, DagCorrect, PTL

(* run publishes one terminal event, and the endpoint's produce adds one   *)
(* for a failure before the plan.                                          *)
THEOREM OneTerminalEvent == Spec => []EndsWithTerminal
<1>1. DagInv => EndsWithTerminal
  <2> SUFFICES ASSUME DagInv PROVE EndsWithTerminal  OBVIOUS
  <2>1. TerminalMatches /\ streaming \in BOOLEAN /\ killed \in BOOLEAN  BY DEF DagInv, TypeOK
  <2>2. wire.terminals <= 1  BY <2>1 DEF TerminalMatches
  <2>3. ASSUME pc = "done", streaming, ~killed PROVE wire.terminals = 1
    BY <2>1, <2>3 DEF TerminalMatches
  <2> QED BY <2>2, <2>3 DEF EndsWithTerminal
<1> QED BY <1>1, DagCorrect, PTL

(* A step that reports a deadlock finds a task that could have been        *)
(* started if the plan can be ordered and nothing has failed.              *)
LEMMA DeadlockStep == DagInv /\ DeadlockIsReal /\ [Next]_vars => DeadlockIsReal'
<1> SUFFICES ASSUME DagInv, DeadlockIsReal, [Next]_vars, code' = "dependency_deadlock"
             PROVE  failed' # {} \/ ~Orderable(plan')
  BY DEF DeadlockIsReal, Orderable
<1>0. TypeOK /\ Split /\ TerminalMatches  BY DEF DagInv
<1>1. CASE PassDeadlock
  <2>1. active = {} /\ Ready = {} /\ ~LoopEnds /\ pc \notin Over
        /\ plan' = plan /\ failed' = failed
    BY <1>1 DEF PassDeadlock, Proceeds, AtTop, Over, loop
  <2> SUFFICES ASSUME failed = {}, Orderable(plan) PROVE FALSE
    BY <2>1 DEF Orderable
  <2>2. pending # {} /\ pending \in SUBSET DOMAIN plan
    BY <1>0, <2>1 DEF LoopEnds, TypeOK
  <2>3. PICK t \in pending : plan[t] \subseteq DOMAIN plan \ pending
    BY <2>2 DEF Orderable
  <2>4. DOMAIN plan \ pending \subseteq completed
    BY <1>0, <2>1 DEF Split
  <2> QED BY <2>1, <2>3, <2>4 DEF Ready
<1>2. CASE ~PassDeadlock
  <2>1. code = "dependency_deadlock"
    BY <1>2 DEF Next, Produce, Begin, Decompose, DecomposeFails, Pass, PassCancelled,
           PassTimedOut, PassOverBudget, PassStarts, PassEnds, StopReturns, Return,
           WaitReturns, Collect, CollectCompleted, CollectFailed, CollectFailFast,
           CollectCancelled, CollectCrashed, Taken, Emitted, Persist, Kill, Job, JobBegins,
           JobRefused, JobCrashes, JobReturns, JobRaises, JobEnds, JobCancelled, JobGoes,
           ConsumerReads, Disconnect, Leave, ConsumerEnds, Tick, vars, verdict
  <2>2. pc \in Over  BY <1>0, <2>1 DEF TerminalMatches
  <2>3. plan' = plan /\ failed' = failed
    BY <2>2 DEF Next, Produce, Begin, Decompose, DecomposeFails, Pass, PassCancelled,
           PassTimedOut, PassOverBudget, PassStarts, PassDeadlock, PassEnds, Proceeds, AtTop,
           WaitReturns, Collect, CollectCompleted, CollectFailed, CollectFailFast,
           CollectCancelled, CollectCrashed, Emitted, Persist, Kill, Job, JobBegins,
           JobRefused, JobCrashes, JobReturns, JobRaises, JobEnds, JobCancelled, JobGoes,
           ConsumerReads, Disconnect, Leave, ConsumerEnds, Tick, vars, loop, Over
  <2> QED BY <2>1, <2>3 DEF DeadlockIsReal, Orderable
<1> QED BY <1>1, <1>2

(* _execute_dag reports a deadlock only for a plan that cannot be ordered  *)
(* or after a subtask has failed.                                          *)
THEOREM DeadlockReported == Spec => []DeadlockIsReal
<1>1. Init => DeadlockIsReal  BY DEF Init, DeadlockIsReal
<1>2. DagInv /\ DeadlockIsReal /\ [Next]_vars => DeadlockIsReal'  BY DeadlockStep
<1> QED BY <1>1, <1>2, DagCorrect, PTL DEF Spec

(* What the wire tells is what happened, for every plan.                   *)
THEOREM TrueReports == Spec => []ReportsAreTrue
<1>1. ReportedOnce /\ CompletedIsTrue /\ EndsWithTerminal /\ DeadlockIsReal => ReportsAreTrue
  BY DEF ReportsAreTrue
<1> QED BY <1>1, OneReport, TrueCompletion, OneTerminalEvent, DeadlockReported, PTL

-----------------------------------------------------------------------------
(* The budget of the run is looked at once in a pass.  Until the next one  *)
(* the tokens of one batch are added, and a batch is no larger than what   *)
(* is in progress.                                                         *)

InProgress == Cardinality(active) <= MaxConcurrency
Room == Budget + MaxConcurrency * MaxTokens

SpendInv ==
  /\ InProgress
  /\ pc = "waiting" => tokens < Budget
  /\ pc = "collecting" => tokens + Cardinality(batch) * MaxTokens < Room
  /\ tokens < Room

LEMMA Product ==
  ASSUME NEW a \in Nat, NEW b \in Nat, NEW m \in Nat, a <= b
  PROVE  a * m \in Nat /\ a * m <= b * m
<1>1. PICK d \in Nat : b = a + d
  <2>1. b - a \in Nat /\ b = a + (b - a)
    OBVIOUS
  <2> QED BY <2>1
<1>2. b * m = a * m + d * m /\ d * m \in Nat /\ a * m \in Nat
  BY <1>1
<1> QED BY <1>2

(* Tasks are finitely many, so what is in progress can be counted.         *)
LEMMA Counted ==
  ASSUME IsFiniteSet(Tasks), NEW S, S \subseteq Tasks
  PROVE  IsFiniteSet(S) /\ Cardinality(S) \in Nat
<1>1. S \in SUBSET Tasks
  OBVIOUS
<1> QED BY <1>1, FS_Subset, FS_CardinalityType

(* Nothing is collected and nothing is started.                            *)
LEMMA SpendNothing ==
  ASSUME SpendInv, UNCHANGED <<active, batch, tokens>>,
         pc' # pc => pc' \notin {"waiting", "collecting"}
  PROVE  SpendInv'
BY DEF SpendInv, InProgress, Room

LEMMA SpendStep ==
  ASSUME IsFiniteSet(Tasks), Budget > 0, DagInv, SpendInv, [Next]_vars
  PROVE  SpendInv'
<1>1. /\ DOMAIN plan \subseteq Tasks /\ active \subseteq Tasks /\ batch \subseteq active
      /\ tokens \in Nat /\ cost \in [Tasks -> 0..MaxTokens]
  BY DEF DagInv, TypeOK
<1>2. MaxConcurrency \in Nat /\ Budget \in Nat /\ MaxTokens \in Nat
  BY BoundsAssumption
<1>3. /\ IsFiniteSet(active) /\ Cardinality(active) \in Nat
      /\ IsFiniteSet(batch) /\ Cardinality(batch) \in Nat /\ Cardinality(DOMAIN plan) \in Nat
  BY <1>1, Counted
<1>4. CASE PassStarts
  <2>1. /\ Cardinality(active') <= concurrency /\ ~ OverBudget /\ pc' = "waiting"
        /\ UNCHANGED <<batch, tokens>>
    BY <1>4 DEF PassStarts, Proceeds
  <2>2. active' \subseteq Tasks
    BY <1>1, <1>4 DEF PassStarts, Ready, DagInv, TypeOK
  <2>3. Cardinality(active') \in Nat
    BY <2>2, Counted
  <2>4. Cardinality(active') <= MaxConcurrency
    BY <1>2, <1>3, <2>1, <2>3 DEF concurrency
  <2>5. tokens < Budget
    BY <1>1, <1>2, <2>1 DEF OverBudget
  <2> QED BY <2>1, <2>4, <2>5 DEF SpendInv, InProgress, Room
<1>5. CASE WaitReturns
  <2>1. /\ batch' \subseteq active /\ pc = "waiting" /\ pc' = "collecting"
        /\ UNCHANGED <<active, tokens>>
    BY <1>5 DEF WaitReturns
  <2>2. Cardinality(batch') <= Cardinality(active) /\ Cardinality(batch') \in Nat
    BY <1>1, <1>3, <2>1, FS_Subset, Counted
  <2>3. Cardinality(batch') * MaxTokens <= MaxConcurrency * MaxTokens
    BY <1>2, <1>3, <2>2, Product DEF SpendInv, InProgress
  <2>4. tokens < Budget
    BY <2>1 DEF SpendInv
  <2> DEFINE p == Cardinality(batch') * MaxTokens
             q == MaxConcurrency * MaxTokens
  <2>5. p \in Nat /\ q \in Nat
    BY <1>2, <2>2, Product
  <2>6. tokens + p < Budget + q
    <3> HIDE DEF p, q
    <3>1. p <= q
      BY <2>3 DEF p, q
    <3> QED BY <1>1, <1>2, <2>4, <2>5, <3>1
  <2> QED BY <2>1, <2>6 DEF SpendInv, InProgress, Room
<1>6. ASSUME NEW t \in Tasks, CollectCompleted(t) \/ CollectFailed(t) PROVE SpendInv'
  <2>1. /\ pc = "collecting" /\ t \in batch /\ t \in active
        /\ batch' = batch \ {t} /\ active' = active \ {t}
        /\ pc' \in {"loop", "collecting"}
        /\ tokens' = tokens + cost[t] \/ tokens' = tokens
    BY <1>1, <1>6 DEF CollectCompleted, CollectFailed, Taken
  <2>2. /\ Cardinality(batch') = Cardinality(batch) - 1
        /\ Cardinality(active') = Cardinality(active) - 1
    BY <1>3, <2>1, FS_RemoveElement
  <2>3. tokens' \in Nat /\ tokens' <= tokens + MaxTokens
    BY <1>1, <1>2, <2>1
  <2>4. Cardinality(batch) * MaxTokens = Cardinality(batch') * MaxTokens + MaxTokens
    <3>1. \A n \in Nat : n * MaxTokens = (n - 1) * MaxTokens + MaxTokens
      BY <1>2
    <3> QED BY <1>3, <2>2, <3>1
  <2>5. Cardinality(batch') \in Nat
    BY <1>1, <2>1, Counted
  <2>6. Cardinality(batch') * MaxTokens \in Nat
    BY <1>2, <2>5, Product
  <2>7. Room \in Nat /\ tokens + Cardinality(batch) * MaxTokens < Room
    BY <1>2, <2>1, Product DEF SpendInv, Room
  <2>8. tokens' + Cardinality(batch') * MaxTokens < Room /\ tokens' < Room
    <3>1. \A n, k, p, q, r \in Nat :
            k <= n + MaxTokens /\ q = p + MaxTokens /\ n + q < r => k + p < r /\ k < r
      BY <1>2
    <3>2. Cardinality(batch) * MaxTokens \in Nat
      BY <1>2, <1>3, Product
    <3> QED BY <1>1, <2>3, <2>4, <2>6, <2>7, <3>1, <3>2
  <2> QED BY <1>2, <1>3, <2>1, <2>2, <2>8 DEF SpendInv, InProgress, Room
<1>7. CASE /\ UNCHANGED <<active, batch, tokens>>
           /\ pc' # pc => pc' \notin {"waiting", "collecting"}
  BY <1>7, SpendNothing
<1>8. ASSUME NEW t \in Tasks, Collect(t) PROVE SpendInv'
  <2>1. CASE CollectCompleted(t) \/ CollectFailed(t)
    BY <1>6, <2>1
  <2>2. CASE CollectFailFast(t) \/ CollectCancelled(t) \/ CollectCrashed(t)
    BY <1>7, <2>2 DEF CollectFailFast, CollectCancelled, CollectCrashed, StopReturns, Return, loop
  <2> QED BY <1>8, <2>1, <2>2 DEF Collect
<1>9. CASE \/ PassCancelled \/ PassTimedOut \/ PassOverBudget \/ PassDeadlock \/ PassEnds
  BY <1>7, <1>9 DEF PassCancelled, PassTimedOut, PassOverBudget, PassDeadlock, PassEnds,
                    StopReturns, Return, loop
<1>10. CASE Begin \/ Decompose \/ DecomposeFails \/ Emitted \/ Persist \/ Kill
  BY <1>7, <1>10 DEF Begin, Decompose, DecomposeFails, Emitted, Persist, Kill, Return, loop
<1>11. ASSUME NEW t \in Tasks, Job(t) PROVE SpendInv'
  BY <1>7, <1>11 DEF Job, JobBegins, JobRefused, JobCrashes, JobReturns, JobRaises, JobEnds,
                     JobCancelled, JobGoes, loop
<1>12. CASE ConsumerReads \/ Disconnect \/ ConsumerEnds \/ Tick \/ UNCHANGED vars
  BY <1>7, <1>12 DEF ConsumerReads, Disconnect, ConsumerEnds, Tick, Leave, vars, loop
<1> QED
  BY <1>4, <1>5, <1>8, <1>9, <1>10, <1>11, <1>12 DEF Next, Produce, Pass

(* The counted tokens of a run pass its budget by less than one round of   *)
(* concurrent subtasks, whatever the plan (_execute_dag looks at the       *)
(* budget before it starts subtasks, not when it adds their tokens).       *)
THEOREM OverrunIsBounded ==
  ASSUME IsFiniteSet(Tasks)
  PROVE  Spec => []OverrunBounded
<1>1. CASE Budget > 0
  <2>1. Init => SpendInv
    <3>1. MaxConcurrency * MaxTokens \in Nat
      BY BoundsAssumption, Product
    <3> QED BY <1>1, <3>1, FS_EmptySet, BoundsAssumption DEF Init, SpendInv, InProgress, Room
  <2>2. DagInv /\ SpendInv /\ [Next]_vars => SpendInv'
    BY <1>1, SpendStep
  <2>3. SpendInv => OverrunBounded
    BY DEF SpendInv, OverrunBounded, Room
  <2> QED BY <2>1, <2>2, <2>3, DagCorrect, PTL DEF Spec
<1>2. CASE ~(Budget > 0)
  <2>1. OverrunBounded
    BY <1>2 DEF OverrunBounded
  <2> QED BY <2>1, PTL
<1> QED BY <1>1, <1>2

-----------------------------------------------------------------------------
(* The timeline of a run.                                                  *)

Early   == {"new", "deciding", "planned"}
AtWork  == {"starting", "running", "draining", "closing"}
Kinds   == {"run_started", "subtasks_planned", "subtask_started"} \cup Deltas
             \cup Closings \cup TerminalKinds
Events  == [kind : Kinds, task : Subtasks \cup {None}]
Reports == [kind : Deltas, task : Subtasks]

TimelineType ==
  /\ run \in Early \cup {"executing", "finishing", "done"}
  /\ subtask \in [Subtasks -> AtWork \cup {"created", "ended"}]
  /\ events \in Seq(Events)
  /\ ready \in Seq(Reports \cup {GivenUp})
  /\ saving \subseteq DOMAIN events /\ stored \subseteq DOMAIN events
  /\ saving \cap stored = {}
  /\ count \in Nat /\ failures \in Nat /\ Cap \in Nat

(* Where a subtask is, and what of it is in the queue and in the timeline. *)
Holds(i, kinds, t) == events[i].kind \in kinds /\ events[i].task = t
Begun(t)   == \E i \in DOMAIN events : Holds(i, {"subtask_started"}, t)
HasClosed(t)  == \E i \in DOMAIN events : Holds(i, Closings, t)
Pending(t) == \E i \in DOMAIN ready : ready[i] \in Reports /\ ready[i].task = t

Nested(t) ==
  \A d \in DOMAIN events : Holds(d, Deltas, t) =>
    /\ \E s \in DOMAIN events : Holds(s, {"subtask_started"}, t) /\ s < d
    /\ \A c \in DOMAIN events : Holds(c, Closings, t) => d < c

Lives(t) ==
  /\ subtask[t] \in AtWork => Begun(t)
  /\ Pending(t) => subtask[t] \in {"running", "draining"}
  /\ HasClosed(t) => subtask[t] \in {"draining", "closing", "ended"} /\ ~ Pending(t)
  /\ t \in cancelling => subtask[t] \in AtWork
  /\ Nested(t)

(* The INSERTs under way, by where the run is.                             *)
Awaited(e) ==
  /\ e.task \in Subtasks
  /\ \/ e.kind = "subtask_started" /\ subtask[e.task] = "starting"
     \/ e.kind \in Deltas /\ subtask[e.task] \in {"running", "draining"}
     \/ e.kind \in Closings /\ subtask[e.task] = "closing"

Outlived(i) ==
  \/ events[i].task \in cancelled
  \/ \E j \in DOMAIN events : j < i /\ IsTerminal(events[j])

RunOrder ==
  /\ run \in Early => \A t \in Subtasks : subtask[t] = "created"
  /\ run \in Early \cup {"executing"} =>
       /\ cancelled = {} /\ cancelling = {}
       /\ \A i \in DOMAIN events : ~ IsTerminal(events[i])
  /\ cancelling \subseteq cancelled
  /\ run = "finishing" \/ row.owner # {} =>
       \E i \in DOMAIN events : IsTerminal(events[i])
  /\ \A i \in DOMAIN events :
       IsTerminal(events[i]) => events[i].task = None

Underway ==
  /\ run = "new" => saving = {}
  /\ run = "deciding" => \A i \in saving : Holds(i, {"run_started"}, None)
  /\ run = "planned" => \A i \in saving : Holds(i, {"subtasks_planned"}, None)
  /\ run = "executing" => \A i \in saving : Awaited(events[i])
  /\ run = "finishing" => \A i \in saving : Outlived(i) \/ IsTerminal(events[i])

(* After run_completed nothing is emitted.                                 *)
LastWord ==
  \A i \in DOMAIN events : events[i].kind = "run_completed" =>
    /\ i = Len(events) /\ saving \subseteq {i} /\ cancelled = {}
    /\ \A t \in Subtasks : subtask[t] = "ended"

(* The record of the run.                                                  *)
Looked ==
  row.owner # {} =>
    /\ run = "done" /\ \A i \in saving : Outlived(i)
    /\ row.status = "run_completed" =>
         saving = {} /\ \E i \in DOMAIN events : events[i].kind = "run_completed"

(* Nothing is lost within the cap while no INSERT fails.                   *)
Complete ==
  /\ count <= Cardinality(stored)
  /\ (failures = 0 /\ cancelled = {} /\ Len(events) <= Cap) =>
       saving \cup stored = DOMAIN events

TimelineInv ==
  /\ TimelineType /\ RunOrder /\ Underway /\ LastWord /\ Looked /\ Complete
  /\ \A t \in Subtasks : Lives(t)

-----------------------------------------------------------------------------
(* What emitting does.                                                     *)

LEMMA EmitFacts ==
  ASSUME TimelineType, NEW e \in Events, Emit(e)
  PROVE  /\ Len(events) \in Nat /\ DOMAIN events = 1..Len(events)
         /\ events' \in Seq(Events) /\ Len(events') = Len(events) + 1
         /\ DOMAIN events' = 1..(Len(events) + 1)
         /\ \A i \in DOMAIN events : events'[i] = events[i]
         /\ events'[Len(events) + 1] = e
         /\ saving \subseteq saving' /\ saving' \subseteq saving \cup {Len(events) + 1}
         /\ count < Cap => saving' = saving \cup {Len(events) + 1}
         /\ stored' = stored /\ count' = count /\ failures' = failures
<1>1. events \in Seq(Events) /\ events' = Append(events, e)
  BY DEF TimelineType, Emit
<1>2. /\ Len(events) \in Nat /\ DOMAIN events = 1..Len(events)
      /\ events' \in Seq(Events) /\ Len(events') = Len(events) + 1
      /\ DOMAIN events' = 1..(Len(events) + 1)
      /\ \A i \in DOMAIN events : events'[i] = events[i]
      /\ events'[Len(events) + 1] = e
  BY <1>1
<1>3. count \in Nat /\ Cap \in Nat
  BY DEF TimelineType
<1> QED BY <1>2, <1>3 DEF Emit, RecorderOnEvent

(* The types, but for the ready tasks and the subtasks.                    *)
LEMMA EmitType ==
  ASSUME TimelineType, NEW e \in Events, Emit(e)
  PROVE  /\ events' \in Seq(Events) /\ saving' \subseteq DOMAIN events'
         /\ stored' \subseteq DOMAIN events' /\ saving' \cap stored' = {}
         /\ count' \in Nat /\ failures' \in Nat
<1>1. /\ saving \subseteq DOMAIN events /\ stored \subseteq DOMAIN events
      /\ saving \cap stored = {} /\ count \in Nat /\ failures \in Nat
  BY DEF TimelineType
<1> DEFINE n == Len(events) + 1
<1>2. /\ n \notin DOMAIN events /\ DOMAIN events \subseteq DOMAIN events' /\ n \in DOMAIN events'
      /\ events' \in Seq(Events) /\ saving' \subseteq saving \cup {n}
      /\ stored' = stored /\ count' = count /\ failures' = failures
  BY EmitFacts
<1> HIDE DEF n
<1> QED BY <1>1, <1>2

(* The events of one subtask.                                              *)
LEMMA EmitNested ==
  ASSUME TimelineType, NEW e \in Events, Emit(e), NEW t \in Subtasks, Nested(t),
         (e.kind \in Deltas /\ e.task = t) => Begun(t) /\ ~ HasClosed(t)
  PROVE  /\ Nested(t)' /\ (Begun(t) => Begun(t)')
         /\ (e.kind = "subtask_started" /\ e.task = t) => Begun(t)'
         /\ HasClosed(t)' => HasClosed(t) \/ (e.kind \in Closings /\ e.task = t)
<1>1. /\ Len(events) \in Nat /\ DOMAIN events = 1..Len(events)
      /\ DOMAIN events' = 1..(Len(events) + 1)
      /\ \A i \in DOMAIN events : events'[i] = events[i]
      /\ events'[Len(events) + 1] = e
  BY EmitFacts
<1>2. \A i \in 1..(Len(events) + 1) : i \in DOMAIN events \/ i = Len(events) + 1
  BY <1>1
<1>3. Begun(t) => Begun(t)'
  BY <1>1 DEF Begun, Holds
<1>4. (e.kind = "subtask_started" /\ e.task = t) => Begun(t)'
  BY <1>1 DEF Begun, Holds
<1>5. HasClosed(t)' => HasClosed(t) \/ (e.kind \in Closings /\ e.task = t)
  BY <1>1, <1>2 DEF HasClosed, Holds, Closings
<1>6. Nested(t)'
  <2> SUFFICES ASSUME NEW d \in DOMAIN events', Holds(d, Deltas, t)'
               PROVE  /\ \E s \in DOMAIN events' : Holds(s, {"subtask_started"}, t)' /\ s < d
                      /\ \A c \in DOMAIN events' : Holds(c, Closings, t)' => d < c
    BY DEF Nested
  <2>1. Deltas \cap Closings = {}
    BY DEF Deltas, Closings
  <2>2. CASE d = Len(events) + 1
    <3>1. Begun(t) /\ ~ HasClosed(t)
      BY <1>1, <2>2 DEF Holds, Deltas
    <3>2. \E s \in DOMAIN events' : Holds(s, {"subtask_started"}, t)' /\ s < d
      BY <1>1, <2>2, <3>1 DEF Begun, Holds
    <3>3. ASSUME NEW c \in DOMAIN events', Holds(c, Closings, t)' PROVE FALSE
      <4>1. CASE c = d
        BY <2>1, <3>3, <4>1 DEF Holds, Deltas, Closings
      <4>2. CASE c \in DOMAIN events
        BY <1>1, <3>1, <3>3, <4>2 DEF Holds, HasClosed, Closings
      <4> QED BY <1>1, <1>2, <2>2, <4>1, <4>2
    <3> QED BY <3>2, <3>3
  <2>3. CASE d \in DOMAIN events
    <3>1. Holds(d, Deltas, t)
      BY <1>1, <2>3 DEF Holds, Deltas
    <3>2. \E s \in DOMAIN events' : Holds(s, {"subtask_started"}, t)' /\ s < d
      BY <1>1, <2>3, <3>1 DEF Nested, Holds
    <3>3. ASSUME NEW c \in DOMAIN events', Holds(c, Closings, t)' PROVE d < c
      <4>1. CASE c = Len(events) + 1
        BY <1>1, <2>3, <4>1
      <4>2. CASE c \in DOMAIN events
        BY <1>1, <2>3, <3>1, <3>3, <4>2 DEF Nested, Holds, Closings
      <4> QED BY <1>1, <1>2, <4>1, <4>2
    <3> QED BY <3>2, <3>3
  <2> QED BY <1>1, <1>2, <2>2, <2>3
<1> QED BY <1>3, <1>4, <1>5, <1>6

(* What an INSERT under way has outlived it still has.                     *)
LEMMA EmitOutlived ==
  ASSUME TimelineType, NEW e \in Events, Emit(e), cancelled \subseteq cancelled'
  PROVE  /\ \A i \in DOMAIN events : Outlived(i) => Outlived(i)'
         /\ (\E j \in DOMAIN events : IsTerminal(events[j])) =>
              \A n : n = Len(events) + 1 => Outlived(n)'
<1>1. /\ Len(events) \in Nat /\ DOMAIN events = 1..Len(events)
      /\ DOMAIN events' = 1..(Len(events) + 1)
      /\ \A i \in DOMAIN events : events'[i] = events[i]
  BY EmitFacts
<1> QED BY <1>1 DEF Outlived, IsTerminal, TerminalKinds

(* The rows are no more than the events.                                   *)
LEMMA StoredRows ==
  ASSUME NEW n \in Nat, NEW S, S \subseteq 1..n
  PROVE  IsFiniteSet(S) /\ Cardinality(S) \in Nat /\ Cardinality(S) <= n
<1>1. IsFiniteSet(1..n) /\ Cardinality(1..n) = n
  BY FS_Interval
<1>2. S \in SUBSET (1..n)
  OBVIOUS
<1>3. IsFiniteSet(S) /\ Cardinality(S) <= Cardinality(1..n)
  BY <1>1, <1>2, FS_Subset
<1> QED BY <1>1, <1>3, FS_CardinalityType

(* An event is lost at the cap only.                                       *)
LEMMA EmitComplete ==
  ASSUME TimelineType, NEW e \in Events, Emit(e), Complete, cancelled \subseteq cancelled'
  PROVE  Complete'
<1>1. /\ Len(events) \in Nat /\ DOMAIN events = 1..Len(events)
      /\ DOMAIN events' = 1..(Len(events) + 1) /\ Len(events') = Len(events) + 1
      /\ count < Cap => saving' = saving \cup {Len(events) + 1}
      /\ stored' = stored /\ count' = count /\ failures' = failures
  BY EmitFacts
<1>2. stored \subseteq 1..Len(events) /\ count \in Nat /\ Cap \in Nat
  BY <1>1 DEF TimelineType
<1>3. Cardinality(stored) \in Nat /\ Cardinality(stored) <= Len(events)
  BY <1>1, <1>2, StoredRows
<1>4. ASSUME failures = 0, cancelled' = {}, Len(events') <= Cap
      PROVE  saving' \cup stored' = DOMAIN events'
  <2>1. saving \cup stored = DOMAIN events
    BY <1>1, <1>2, <1>4 DEF Complete
  <2>2. count < Cap
    BY <1>1, <1>2, <1>3, <1>4 DEF Complete
  <2> QED BY <1>1, <2>1, <2>2
<1> QED BY <1>1, <1>4 DEF Complete

(* A step that emits nothing and writes nothing.                           *)
Unheard == UNCHANGED <<events, saving, stored, count, failures>>

LEMMA UnheardKeeps ==
  ASSUME TimelineInv, Unheard, cancelled' = cancelled
  PROVE  /\ events' \in Seq(Events) /\ saving' \subseteq DOMAIN events'
         /\ stored' \subseteq DOMAIN events' /\ saving' \cap stored' = {}
         /\ count' \in Nat /\ failures' \in Nat /\ Cap \in Nat
         /\ Complete' /\ \A i \in DOMAIN events : Outlived(i)' <=> Outlived(i)
         /\ \A t \in Subtasks :
              Nested(t)' /\ (Begun(t) => Begun(t)') /\ (HasClosed(t)' => HasClosed(t))
BY DEF TimelineInv, TimelineType, Unheard, Complete, Outlived, Lives, Nested, Begun, HasClosed, Holds

(* The subtasks do not move, and nothing is queued.                        *)
LEMMA RunLevelKeeps ==
  ASSUME TimelineInv, Unheard, UNCHANGED <<subtask, ready, cancelling, cancelled>>
  PROVE  /\ \A t \in Subtasks : Lives(t)'
         /\ run' \in Early \cup {"executing", "finishing", "done"} => TimelineType'
         /\ LastWord'
<1>1. /\ events' \in Seq(Events) /\ saving' \subseteq DOMAIN events'
      /\ stored' \subseteq DOMAIN events' /\ saving' \cap stored' = {}
      /\ count' \in Nat /\ failures' \in Nat /\ Cap \in Nat
      /\ \A t \in Subtasks :
           Nested(t)' /\ (Begun(t) => Begun(t)') /\ (HasClosed(t)' => HasClosed(t))
  BY UnheardKeeps
<1>2. \A t \in Subtasks : Lives(t)'
  BY <1>1 DEF TimelineInv, Lives, Pending
<1>3. run' \in Early \cup {"executing", "finishing", "done"} => TimelineType'
  BY <1>1 DEF TimelineInv, TimelineType
<1>4. LastWord'
  BY DEF TimelineInv, LastWord, Unheard
<1> QED BY <1>2, <1>3, <1>4

(* MultiAgentService.run between its events.                               *)
LEMMA SilentRun ==
  ASSUME TimelineInv,
         StreamFailUnexpected \/ Execute \/ StreamDisconnect \/ TimelineOver
  PROVE  TimelineInv'
<1>1. /\ Unheard /\ UNCHANGED <<subtask, ready, cancelling, cancelled, row>>
      /\ \/ run = "deciding" /\ run' = "done"
         \/ /\ run = "planned" /\ run' = "executing"
            /\ Written("subtasks_planned", None)
         \/ run' = run
  BY DEF StreamFailUnexpected, Execute, StreamDisconnect, TimelineOver,
         tasks, recorder, timelineVars, Unheard
<1>2. run \in Early \cup {"executing", "finishing", "done"}
  BY DEF TimelineInv, TimelineType
<1>3. TimelineType' /\ LastWord' /\ \A t \in Subtasks : Lives(t)'
  BY <1>1, <1>2, RunLevelKeeps DEF Early
<1>4. Complete' /\ \A i \in DOMAIN events : Outlived(i)' <=> Outlived(i)
  BY <1>1, UnheardKeeps
<1>5. RunOrder'
  BY <1>1 DEF TimelineInv, RunOrder, Unheard, Early
<1>6. Underway'
  <2>1. saving \subseteq DOMAIN events
    BY DEF TimelineInv, TimelineType
  <2>2. CASE run' = run
    BY <1>1, <1>4, <2>1, <2>2 DEF TimelineInv, Underway, Unheard, Holds, Awaited
  <2>3. CASE run = "planned" /\ run' = "executing"
    BY <1>1, <2>3 DEF TimelineInv, Underway, Unheard, Holds, Written
  <2>4. CASE run = "deciding" /\ run' = "done"
    BY <2>4 DEF Underway
  <2> QED BY <1>1, <2>2, <2>3, <2>4
<1>7. Looked'
  <2>1. saving \subseteq DOMAIN events
    BY DEF TimelineInv, TimelineType
  <2> QED BY <1>1, <1>4, <2>1 DEF TimelineInv, Looked, Unheard
<1> QED BY <1>3, <1>4, <1>5, <1>6, <1>7 DEF TimelineInv

(* _persist_run.                                                           *)
LEMMA PersistStep ==
  ASSUME TimelineInv, PersistRun
  PROVE  TimelineInv'
<1>1. /\ Unheard /\ UNCHANGED <<subtask, ready, cancelling, cancelled>>
      /\ run = "finishing" /\ run' = "done"
      /\ \A kind \in TerminalKinds : Written(kind, None)
  BY DEF PersistRun, tasks, recorder, Unheard
<1>2. TimelineType' /\ LastWord' /\ \A t \in Subtasks : Lives(t)'
  BY <1>1, RunLevelKeeps
<1>3. Complete' /\ \A i \in DOMAIN events : Outlived(i)' <=> Outlived(i)
  BY <1>1, UnheardKeeps
<1>4. RunOrder' /\ Underway'
  BY <1>1 DEF TimelineInv, RunOrder, Underway, Unheard, Early
<1>5. saving \subseteq DOMAIN events
  BY DEF TimelineInv, TimelineType
<1>6. \A i \in saving : ~ IsTerminal(events[i]) /\ Outlived(i)
  <2> SUFFICES ASSUME NEW i \in saving PROVE ~ IsTerminal(events[i]) /\ Outlived(i)
    OBVIOUS
  <2>1. ~ IsTerminal(events[i])
    BY <1>1, <1>5 DEF TimelineInv, RunOrder, IsTerminal, Written
  <2> QED BY <1>1, <2>1 DEF TimelineInv, Underway
<1>7. Looked'
  <2>1. CASE row' = row
    BY <1>1, <1>3, <1>5, <2>1 DEF TimelineInv, Looked, Unheard
  <2>2. CASE row' # row
    <3>1. PICK i \in DOMAIN events : IsTerminal(events[i]) /\ row'.status = events[i].kind
      BY <2>2 DEF PersistRun, Save
    <3>2. ASSUME row'.status = "run_completed" PROVE saving = {}
      <4>1. events[i].kind = "run_completed" /\ saving \subseteq {i}
        BY <3>1, <3>2 DEF TimelineInv, LastWord
      <4> QED BY <1>6, <3>1, <4>1
    <3> QED BY <1>1, <1>3, <1>5, <1>6, <3>1, <3>2 DEF Looked, Unheard
  <2> QED BY <2>1, <2>2
<1> QED BY <1>2, <1>3, <1>4, <1>7 DEF TimelineInv

(* The steps of a subtask between its events.                              *)
LEMMA SilentSubtask ==
  ASSUME TimelineInv, NEW t \in Subtasks, t \notin cancelling,
         \/ RunAgent(t) \/ Observe(t) \/ AgentEnds(t)
         \/ EndSubtask(t)
  PROVE  TimelineInv'
<1>1. /\ Unheard /\ UNCHANGED <<run, cancelling, cancelled, row>>
  BY DEF RunAgent, Observe, AgentEnds, EndSubtask,
         recorder, Unheard
<1>2. /\ events' \in Seq(Events) /\ saving' \subseteq DOMAIN events'
      /\ stored' \subseteq DOMAIN events' /\ saving' \cap stored' = {}
      /\ count' \in Nat /\ failures' \in Nat /\ Cap \in Nat /\ Complete'
      /\ \A i \in DOMAIN events : Outlived(i)' <=> Outlived(i)
      /\ \A s \in Subtasks :
           Nested(s)' /\ (Begun(s) => Begun(s)') /\ (HasClosed(s)' => HasClosed(s))
  BY <1>1, UnheardKeeps
<1>3. /\ subtask \in [Subtasks -> AtWork \cup {"created", "ended"}]
      /\ ready \in Seq(Reports \cup {GivenUp})
      /\ run \in Early \cup {"executing", "finishing", "done"}
      /\ saving \subseteq DOMAIN events /\ events \in Seq(Events)
  BY DEF TimelineInv, TimelineType
<1>4. /\ subtask' \in [Subtasks -> AtWork \cup {"created", "ended"}]
      /\ \A s \in Subtasks \ {t} : subtask'[s] = subtask[s]
      /\ \/ /\ subtask[t] = "starting" /\ subtask'[t] = "running"
            /\ Written("subtask_started", t) /\ ready' = ready
         \/ /\ subtask[t] = "running" /\ subtask'[t] = "running"
            /\ ready' = Append(ready, Event("subtask_delta", t))
         \/ /\ subtask[t] = "running" /\ subtask'[t] = "draining" /\ ready' = ready
         \/ /\ subtask[t] = "closing" /\ subtask'[t] = "ended" /\ ready' = ready
            /\ \A kind \in Closings : Written(kind, t)
  BY <1>3 DEF RunAgent, Observe, AgentEnds, EndSubtask,
              AtWork, Deltas
<1>5. /\ ready' \in Seq(Reports \cup {GivenUp})
      /\ \A s \in Subtasks : Pending(s)' => Pending(s) \/ (s = t /\ subtask'[t] = "running")
  <2>1. CASE ready' = ready
    BY <1>3, <2>1 DEF Pending
  <2>2. CASE ready' = Append(ready, Event("subtask_delta", t)) /\ subtask'[t] = "running"
    <3> DEFINE e == Event("subtask_delta", t)
    <3>1. e \in Reports /\ e.task = t
      BY DEF Event, Reports, Deltas
    <3> HIDE DEF e
    <3>2. /\ ready' \in Seq(Reports \cup {GivenUp})
          /\ \A i \in DOMAIN ready' : (i \in DOMAIN ready /\ ready'[i] = ready[i]) \/ ready'[i] = e
      BY <1>3, <2>2, <3>1 DEF e
    <3> QED BY <2>2, <3>1, <3>2 DEF Pending
  <2> QED BY <1>4, <2>1, <2>2
<1>6. TimelineType'
  BY <1>1, <1>2, <1>3, <1>4, <1>5 DEF TimelineType
<1>7. \A s \in Subtasks : Lives(s)'
  <2> SUFFICES ASSUME NEW s \in Subtasks PROVE Lives(s)'
    OBVIOUS
  <2>1. Lives(s)
    BY DEF TimelineInv
  <2>2. CASE s # t
    BY <1>1, <1>2, <1>4, <1>5, <2>1, <2>2 DEF Lives
  <2>3. CASE s = t
    <3>1. s \notin cancelling'
      BY <1>1, <2>3
    <3>2. Nested(s)' /\ (subtask'[s] \in AtWork => Begun(s)')
      BY <1>2, <1>4, <2>1, <2>3 DEF Lives, AtWork
    <3>3. Pending(s)' => subtask'[s] \in {"running", "draining"}
      BY <1>4, <1>5, <2>1, <2>3 DEF Lives
    <3>4. HasClosed(s)' => subtask'[s] \in {"draining", "closing", "ended"} /\ ~ Pending(s)'
      BY <1>2, <1>4, <1>5, <2>1, <2>3 DEF Lives
    <3> QED BY <3>1, <3>2, <3>3, <3>4 DEF Lives
  <2> QED BY <2>2, <2>3
<1>8. RunOrder'
  BY <1>1, <1>4 DEF TimelineInv, RunOrder, Unheard
<1>9. Underway'
  <2>1. ASSUME NEW i \in saving, run = "executing" PROVE Awaited(events[i])'
    <3>1. Awaited(events[i]) /\ events'[i] = events[i]
      BY <1>1, <2>1 DEF TimelineInv, Underway, Unheard
    <3>2. CASE events[i].task # t
      BY <1>4, <3>1, <3>2 DEF Awaited
    <3>3. CASE events[i].task = t
      BY <1>4, <2>1, <3>1, <3>3
      DEF Awaited, Written, Closings, Deltas
    <3> QED BY <3>2, <3>3
  <2> QED BY <1>1, <1>2, <1>3, <2>1 DEF TimelineInv, Underway, Unheard, Holds
<1>10. LastWord'
  BY <1>1, <1>4 DEF TimelineInv, LastWord, Unheard
<1>11. Looked'
  BY <1>1, <1>2, <1>3 DEF TimelineInv, Looked, Unheard
<1> QED BY <1>2, <1>6, <1>7, <1>8, <1>9, <1>10, <1>11 DEF TimelineInv

(* A subtask says something.                                               *)
LEMMA SubtaskEmits ==
  ASSUME TimelineInv, NEW t \in Subtasks, NEW e \in Events, Emit(e), e.task = t,
         e.kind \in {"subtask_started"} \cup Deltas \cup Closings,
         subtask[t] # "ended", run \notin Early, UNCHANGED <<run, cancelling, cancelled, row>>,
         subtask' \in [Subtasks -> AtWork \cup {"created", "ended"}], subtask'[t] \in AtWork,
         \A s \in Subtasks \ {t} : subtask'[s] = subtask[s],
         ready' \in Seq(Reports \cup {GivenUp}),
         \A s \in Subtasks : Pending(s)' => Pending(s),
         e.kind # "subtask_started" => Begun(t),
         e.kind \in Deltas => ~ HasClosed(t),
         Pending(t)' => subtask'[t] \in {"running", "draining"},
         (HasClosed(t) \/ e.kind \in Closings) =>
            subtask'[t] \in {"draining", "closing", "ended"} /\ ~ Pending(t)',
         run = "executing" => Awaited(e)' /\ \A i \in saving : Awaited(events[i])'
  PROVE  TimelineInv'
<1>1. /\ Len(events) \in Nat /\ DOMAIN events = 1..Len(events)
      /\ DOMAIN events' = 1..(Len(events) + 1)
      /\ \A i \in DOMAIN events : events'[i] = events[i]
      /\ events'[Len(events) + 1] = e
      /\ saving \subseteq saving' /\ saving' \subseteq saving \cup {Len(events) + 1}
  BY EmitFacts DEF TimelineInv
<1>2. \A i \in 1..(Len(events) + 1) : i \in DOMAIN events \/ i = Len(events) + 1
  BY <1>1
<1>3. saving \subseteq DOMAIN events /\ run \in Early \cup {"executing", "finishing", "done"}
      /\ Cap \in Nat
  BY DEF TimelineInv, TimelineType
<1>4. TimelineType'
  BY <1>3, EmitType DEF TimelineInv, TimelineType
<1>5. e.kind \notin TerminalKinds
  BY DEF TerminalKinds, Deltas, Closings
<1>6. \A s \in Subtasks : Lives(s)'
  <2> SUFFICES ASSUME NEW s \in Subtasks PROVE Lives(s)'
    OBVIOUS
  <2>1. Lives(s)
    BY DEF TimelineInv
  <2>2. /\ Nested(s)' /\ (Begun(s) => Begun(s)')
        /\ (e.kind = "subtask_started" /\ e.task = s) => Begun(s)'
        /\ HasClosed(s)' => HasClosed(s) \/ (e.kind \in Closings /\ e.task = s)
    BY <2>1, EmitNested DEF TimelineInv, Lives, Deltas
  <2>3. CASE s # t
    BY <2>1, <2>2, <2>3 DEF Lives
  <2>4. CASE s = t
    BY <2>1, <2>2, <2>4 DEF Lives
  <2> QED BY <2>3, <2>4
<1>7. RunOrder'
  <2>1. /\ run \in {"executing", "finishing", "done"} /\ run' = run
    BY <1>3
  <2>2. \A i \in DOMAIN events' : IsTerminal(events'[i]) =>
          i \in DOMAIN events /\ IsTerminal(events[i])
    BY <1>1, <1>2, <1>5 DEF IsTerminal
  <2>3. \A i \in DOMAIN events : i \in DOMAIN events' /\ events'[i] = events[i]
    BY <1>1
  <2> QED BY <2>1, <2>2, <2>3 DEF TimelineInv, RunOrder, IsTerminal
<1>8. /\ \A i \in saving : Outlived(i) => Outlived(i)'
      /\ (\E j \in DOMAIN events : IsTerminal(events[j])) =>
           \A n : n = Len(events) + 1 => Outlived(n)'
  BY <1>3, EmitOutlived DEF TimelineInv
<1>9. Underway'
  <2>1. CASE run = "executing"
    BY <1>1, <1>3, <2>1 DEF Underway
  <2>2. CASE run = "finishing"
    <3>1. \A i \in saving : Outlived(i) \/ IsTerminal(events[i])
      BY <2>2 DEF TimelineInv, Underway
    <3>2. \A n : n = Len(events) + 1 => Outlived(n)'
      BY <1>8, <2>2 DEF TimelineInv, RunOrder
    <3>3. \A i \in saving : events'[i] = events[i]
      BY <1>1, <1>3
    <3>4. \A i \in saving' : i \in saving \/ i = Len(events) + 1
      BY <1>1
    <3> QED BY <1>8, <2>2, <3>1, <3>2, <3>3, <3>4 DEF Underway, IsTerminal
  <2>3. CASE run = "done"
    BY <2>3 DEF Underway
  <2> QED BY <1>3, <2>1, <2>2, <2>3
<1>10. \A i \in DOMAIN events : events[i].kind # "run_completed"
  BY DEF TimelineInv, LastWord
<1>11. LastWord'
  <2>1. e.kind # "run_completed"
    BY <1>5 DEF TerminalKinds
  <2> QED BY <1>1, <1>2, <1>10, <2>1 DEF LastWord
<1>12. Looked'
  <2>1. ASSUME row.owner # {} PROVE row.status # "run_completed" /\ \A i \in saving' : Outlived(i)'
    <3>1. \A n : n = Len(events) + 1 => Outlived(n)'
      BY <1>8, <2>1 DEF TimelineInv, RunOrder
    <3>2. \A i \in saving' : i \in saving \/ i = Len(events) + 1
      BY <1>1
    <3> QED BY <1>8, <1>10, <2>1, <3>1, <3>2 DEF TimelineInv, Looked
  <2> QED BY <2>1 DEF TimelineInv, Looked
<1>13. Complete'
  BY EmitComplete DEF TimelineInv
<1> QED BY <1>4, <1>6, <1>7, <1>9, <1>11, <1>12, <1>13 DEF TimelineInv

(* The events of a subtask.                                                *)
LEMMA SubtaskStep ==
  ASSUME TimelineInv, NEW t \in Subtasks, t \notin cancelling,
         StartSubtask(t) \/ CloseSubtask(t)
  PROVE  TimelineInv'
<1>1. /\ subtask \in [Subtasks -> AtWork \cup {"created", "ended"}]
      /\ ready \in Seq(Reports \cup {GivenUp})
      /\ saving \subseteq DOMAIN events /\ events \in Seq(Events) /\ Lives(t)
  BY DEF TimelineInv, TimelineType
<1>2. /\ UNCHANGED <<run, cancelling, cancelled, row, ready>>
      /\ \A s \in Subtasks : Pending(s)' => Pending(s)
  BY DEF StartSubtask, CloseSubtask, Pending
<1>3. CASE StartSubtask(t)
  <2> DEFINE e == Event("subtask_started", t)
  <2>1. e \in Events /\ e.kind = "subtask_started" /\ e.task = t
    BY DEF Event, Events, Kinds
  <2>2. /\ Emit(e) /\ subtask[t] = "created" /\ run = "executing"
        /\ subtask' = [subtask EXCEPT ![t] = "starting"]
    BY <1>3 DEF StartSubtask
  <2> HIDE DEF e
  <2>3. /\ subtask' \in [Subtasks -> AtWork \cup {"created", "ended"}] /\ subtask'[t] = "starting"
        /\ \A s \in Subtasks \ {t} : subtask'[s] = subtask[s]
    BY <1>1, <2>2 DEF AtWork
  <2>4. ~ HasClosed(t) /\ ~ Pending(t)
    BY <1>1, <2>2 DEF Lives
  <2>5. Awaited(e)' /\ \A i \in saving : Awaited(events[i])'
    <3>1. \A i \in saving : Awaited(events[i]) /\ events'[i] = events[i]
      BY <1>1, <2>1, <2>2, EmitFacts DEF TimelineInv, Underway
    <3>2. \A i \in saving : events[i].task # t
      BY <2>2, <3>1 DEF Awaited
    <3> QED BY <2>1, <2>3, <3>1, <3>2 DEF Awaited
  <2>6. run \notin Early /\ subtask'[t] \in AtWork
    BY <2>2, <2>3 DEF Early, AtWork
  <2>7. e.kind \notin Deltas \cup Closings
    BY <2>1 DEF Deltas, Closings
  <2> QED BY <1>1, <1>2, <2>1, <2>2, <2>3, <2>4, <2>5, <2>6, <2>7, SubtaskEmits
<1>4. CASE CloseSubtask(t)
  <2>1. PICK kind \in Closings : Emit(Event(kind, t))
    BY <1>4 DEF CloseSubtask, Closings
  <2> DEFINE e == Event(kind, t)
  <2>2. e \in Events /\ e.kind = kind /\ e.task = t
    BY DEF Event, Events, Kinds
  <2>3. /\ Emit(e) /\ subtask[t] = "draining" /\ Drained(t)
        /\ subtask' = [subtask EXCEPT ![t] = "closing"]
    BY <1>4, <2>1 DEF CloseSubtask
  <2> HIDE DEF e
  <2>4. /\ subtask' \in [Subtasks -> AtWork \cup {"created", "ended"}] /\ subtask'[t] = "closing"
        /\ \A s \in Subtasks \ {t} : subtask'[s] = subtask[s]
    BY <1>1, <2>3 DEF AtWork
  <2>5. ~ Pending(t) /\ Begun(t)
    BY <1>1, <2>3 DEF Lives, AtWork, Drained, Pending
  <2>6. run = "executing" => Awaited(e)' /\ \A i \in saving : Awaited(events[i])'
    <3> SUFFICES ASSUME run = "executing" PROVE Awaited(e)' /\ \A i \in saving : Awaited(events[i])'
      OBVIOUS
    <3>1. \A i \in saving : Awaited(events[i]) /\ events'[i] = events[i]
      BY <1>1, <2>2, <2>3, EmitFacts DEF TimelineInv, Underway
    <3>2. \A i \in saving : events[i].task # t
      BY <2>3, <3>1 DEF Awaited, Drained, Written
    <3> QED BY <2>2, <2>4, <3>1, <3>2 DEF Awaited
  <2>7. run \notin Early /\ subtask'[t] \in AtWork
    BY <2>3, <2>4 DEF AtWork, TimelineInv, RunOrder
  <2>8. e.kind \notin Deltas /\ e.kind # "subtask_started" /\ e.kind \in Closings
    BY <2>2 DEF Deltas, Closings
  <2> QED BY <1>1, <1>2, <2>2, <2>3, <2>4, <2>5, <2>6, <2>7, <2>8, SubtaskEmits
<1> QED BY <1>3, <1>4

(* The loop runs the task of a report.                                     *)
LEMMA RunTaskStep ==
  ASSUME TimelineInv, RunTask
  PROVE  TimelineInv'
<1>1. /\ subtask \in [Subtasks -> AtWork \cup {"created", "ended"}]
      /\ ready \in Seq(Reports \cup {GivenUp}) /\ ready # <<>>
      /\ saving \subseteq DOMAIN events /\ events \in Seq(Events)
      /\ run \in Early \cup {"executing", "finishing", "done"}
  BY DEF TimelineInv, TimelineType, RunTask
<1>2. /\ UNCHANGED <<run, subtask, cancelling, cancelled, row>> /\ ready' = Tail(ready)
  BY DEF RunTask
<1>3. /\ ready' \in Seq(Reports \cup {GivenUp})
      /\ \A i \in DOMAIN ready' : i + 1 \in DOMAIN ready /\ ready'[i] = ready[i + 1]
      /\ Head(ready) = ready[1] /\ 1 \in DOMAIN ready /\ ready[1] \in Reports \cup {GivenUp}
  BY <1>1, <1>2
<1>4. \A s \in Subtasks : Pending(s)' => Pending(s)
  BY <1>3 DEF Pending
<1>5. CASE Head(ready) = GivenUp
  <2>1. Unheard
    BY <1>5 DEF RunTask, recorder, Unheard
  <2>2. /\ events' \in Seq(Events) /\ saving' \subseteq DOMAIN events'
        /\ stored' \subseteq DOMAIN events' /\ saving' \cap stored' = {}
        /\ count' \in Nat /\ failures' \in Nat /\ Cap \in Nat /\ Complete'
        /\ \A i \in DOMAIN events : Outlived(i)' <=> Outlived(i)
        /\ \A s \in Subtasks :
             Nested(s)' /\ (Begun(s) => Begun(s)') /\ (HasClosed(s)' => HasClosed(s))
    BY <1>2, <2>1, UnheardKeeps
  <2>3. TimelineType'
    BY <1>1, <1>2, <1>3, <2>2 DEF TimelineType
  <2>4. \A s \in Subtasks : Lives(s)'
    BY <1>2, <1>4, <2>2 DEF TimelineInv, Lives
  <2>5. RunOrder' /\ LastWord'
    BY <1>2, <2>1 DEF TimelineInv, RunOrder, LastWord, Unheard
  <2>6. Underway'
    BY <1>1, <1>2, <2>1, <2>2 DEF TimelineInv, Underway, Unheard, Holds, Awaited
  <2>7. Looked'
    BY <1>1, <1>2, <2>1, <2>2 DEF TimelineInv, Looked, Unheard
  <2> QED BY <2>2, <2>3, <2>4, <2>5, <2>6, <2>7 DEF TimelineInv
<1>6. CASE Head(ready) # GivenUp
  <2>1. PICK e \in Reports : e = Head(ready)
    BY <1>3, <1>6
  <2>2. PICK t \in Subtasks : e.task = t
    BY DEF Reports
  <2>3. e \in Events /\ e.kind \in Deltas
    BY DEF Reports, Events, Kinds
  <2>4. Emit(e)
    BY <1>6, <2>1 DEF RunTask
  <2>5. Pending(t)
    BY <1>3, <2>1, <2>2 DEF Pending
  <2>6. subtask[t] \in {"running", "draining"} /\ ~ HasClosed(t) /\ Begun(t)
    BY <2>5 DEF TimelineInv, Lives, AtWork
  <2>7. run \notin Early /\ subtask'[t] \in AtWork
    BY <1>2, <2>6 DEF AtWork, TimelineInv, RunOrder
  <2>8. run = "executing" => Awaited(e)' /\ \A i \in saving : Awaited(events[i])'
    <3> SUFFICES ASSUME run = "executing" PROVE Awaited(e)' /\ \A i \in saving : Awaited(events[i])'
      OBVIOUS
    <3>1. \A i \in saving : Awaited(events[i]) /\ events'[i] = events[i]
      BY <1>1, <2>3, <2>4, EmitFacts DEF TimelineInv, Underway
    <3> QED BY <1>2, <2>2, <2>3, <2>6, <3>1 DEF Awaited
  <2>9. e.kind # "subtask_started" /\ e.kind \notin Closings
    BY <2>3 DEF Deltas, Closings
  <2> QED BY <1>1, <1>2, <1>3, <1>4, <2>2, <2>3, <2>4, <2>6, <2>7, <2>8, <2>9, SubtaskEmits
<1> QED BY <1>5, <1>6

(* An INSERT returns.                                                      *)
LEMMA SaveStep ==
  ASSUME TimelineInv, NEW k \in DOMAIN events, SaveEvent(k)
  PROVE  TimelineInv'
<1>1. /\ UNCHANGED <<run, subtask, left, ready, cancelling, cancelled, events, row>>
      /\ k \in saving /\ saving' = saving \ {k}
      /\ \/ stored' = stored \cup {k} /\ count' = count + 1 /\ failures' = failures
         \/ failures' = failures + 1 /\ stored' = stored /\ count' = count
  BY DEF SaveEvent, tasks
<1>2. /\ saving \subseteq DOMAIN events /\ stored \subseteq DOMAIN events
      /\ saving \cap stored = {} /\ count \in Nat /\ failures \in Nat /\ Cap \in Nat
      /\ events \in Seq(Events)
  BY DEF TimelineInv, TimelineType
<1>3. TimelineType'
  <2>1. count' \in Nat /\ failures' \in Nat
    BY <1>1, <1>2
  <2>2. /\ saving' \subseteq DOMAIN events' /\ stored' \subseteq DOMAIN events'
        /\ saving' \cap stored' = {}
    BY <1>1, <1>2
  <2> QED BY <1>1, <1>2, <2>1, <2>2 DEF TimelineInv, TimelineType
<1>4. \A t \in Subtasks : Lives(t)'
  BY <1>1 DEF TimelineInv, Lives, Nested, Begun, HasClosed, Pending, Holds
<1>5. RunOrder'
  BY <1>1 DEF TimelineInv, RunOrder
<1>6. Underway'
  BY <1>1 DEF TimelineInv, Underway, Holds, Awaited, Outlived
<1>7. LastWord'
  BY <1>1 DEF TimelineInv, LastWord
<1>8. Looked'
  BY <1>1 DEF TimelineInv, Looked, Outlived
<1>9. Complete'
  <2>1. IsFiniteSet(stored) /\ Cardinality(stored) \in Nat
    <3>1. DOMAIN events = 1..Len(events) /\ Len(events) \in Nat
      BY <1>2
    <3> QED BY <1>2, <3>1, StoredRows
  <2>2. k \notin stored
    BY <1>1, <1>2
  <2>3. count' <= Cardinality(stored')
    <3>1. Cardinality(stored \cup {k}) = Cardinality(stored) + 1
      BY <2>1, <2>2, FS_AddElement
    <3>2. count <= Cardinality(stored)
      BY DEF TimelineInv, Complete
    <3>3. CASE stored' = stored \cup {k} /\ count' = count + 1
      BY <1>2, <2>1, <3>1, <3>2, <3>3
    <3>4. CASE stored' = stored /\ count' = count
      BY <3>2, <3>4
    <3> QED BY <1>1, <3>3, <3>4
  <2>4. ASSUME failures' = 0, cancelled = {}, Len(events) <= Cap
        PROVE  saving' \cup stored' = DOMAIN events
    <3>1. failures = 0 /\ stored' = stored \cup {k}
      BY <1>1, <1>2, <2>4
    <3>2. saving \cup stored = DOMAIN events
      BY <2>4, <3>1 DEF TimelineInv, Complete
    <3> QED BY <1>1, <3>1, <3>2
  <2> QED BY <1>1, <2>3, <2>4 DEF Complete
<1> QED BY <1>3, <1>4, <1>5, <1>6, <1>7, <1>8, <1>9 DEF TimelineInv

(* CancelledError reaches a subtask.                                       *)
LEMMA CancelStep ==
  ASSUME TimelineInv, NEW t \in Subtasks, CancelSubtask(t)
  PROVE  TimelineInv'
<1>1. /\ UNCHANGED <<run, cancelled, events, count, failures, row>>
      /\ t \in cancelling /\ cancelling' = cancelling \ {t}
      /\ saving' \subseteq saving /\ stored \subseteq stored'
      /\ \A i \in stored' : i \in stored \/ (i \in saving /\ i \notin saving')
      /\ subtask' = [subtask EXCEPT ![t] = "draining"]
      /\ \/ subtask[t] = "running"
         \/ \A i \in DOMAIN ready : ready[i].task = t => ready'[i] = GivenUp
      /\ ready' = [i \in DOMAIN ready |-> ready'[i]]
      /\ \A i \in DOMAIN ready : ready'[i] = ready[i] \/ ready'[i] = GivenUp
  BY DEF CancelSubtask
<1>2. /\ subtask \in [Subtasks -> AtWork \cup {"created", "ended"}]
      /\ ready \in Seq(Reports \cup {GivenUp})
      /\ saving \subseteq DOMAIN events /\ stored \subseteq DOMAIN events
      /\ saving \cap stored = {} /\ count \in Nat /\ failures \in Nat /\ Cap \in Nat
      /\ events \in Seq(Events) /\ run \in Early \cup {"executing", "finishing", "done"}
      /\ Lives(t)
  BY DEF TimelineInv, TimelineType
<1>3. /\ subtask' \in [Subtasks -> AtWork \cup {"created", "ended"}] /\ subtask'[t] = "draining"
      /\ \A s \in Subtasks \ {t} : subtask'[s] = subtask[s]
  BY <1>1, <1>2 DEF AtWork
<1>4. ready' \in Seq(Reports \cup {GivenUp})
  <2>1. ready' = [i \in 1..Len(ready) |-> ready'[i]] /\ Len(ready) \in Nat
    BY <1>1, <1>2
  <2>2. \A i \in 1..Len(ready) : ready'[i] \in Reports \cup {GivenUp}
    BY <1>1, <1>2
  <2> QED BY <2>1, <2>2
<1>5. GivenUp \notin Reports
  BY DEF GivenUp, Event, Reports, Deltas
<1>6. \A s \in Subtasks : Pending(s)' => Pending(s)
  BY <1>1, <1>5 DEF Pending
<1>7. TimelineType'
  BY <1>1, <1>2, <1>3, <1>4 DEF TimelineType
<1>8. \A s \in Subtasks : Lives(s)'
  <2> SUFFICES ASSUME NEW s \in Subtasks PROVE Lives(s)'
    OBVIOUS
  <2>1. /\ Lives(s) /\ (Nested(s)' <=> Nested(s)) /\ (Begun(s)' <=> Begun(s))
        /\ (HasClosed(s)' <=> HasClosed(s))
    BY <1>1 DEF TimelineInv, Nested, Begun, HasClosed, Holds
  <2>2. CASE s # t
    BY <1>1, <1>3, <1>6, <2>1, <2>2 DEF Lives
  <2>3. CASE s = t
    <3>1. Begun(s) /\ s \notin cancelling'
      BY <1>1, <2>1, <2>3 DEF Lives
    <3> QED BY <1>3, <1>6, <2>1, <2>3, <3>1 DEF Lives
  <2> QED BY <2>2, <2>3
<1>9. run \in {"finishing", "done"} /\ cancelled # {}
  BY <1>1, <1>2 DEF TimelineInv, RunOrder
<1>10. RunOrder'
  BY <1>1, <1>9 DEF TimelineInv, RunOrder, Early
<1>11. Underway'
  BY <1>1, <1>9 DEF TimelineInv, Underway, Outlived
<1>12. LastWord'
  BY <1>1, <1>9 DEF TimelineInv, LastWord
<1>13. Looked'
  BY <1>1 DEF TimelineInv, Looked, Outlived
<1>14. Complete'
  <2>1. DOMAIN events = 1..Len(events) /\ Len(events) \in Nat /\ stored' \subseteq DOMAIN events
    BY <1>1, <1>2
  <2>2. IsFiniteSet(stored') /\ Cardinality(stored') \in Nat /\ Cardinality(stored) \in Nat
    BY <1>2, <2>1, StoredRows
  <2>3. Cardinality(stored) <= Cardinality(stored')
    BY <1>1, <2>2, FS_Subset
  <2> QED BY <1>1, <1>2, <1>9, <2>2, <2>3 DEF TimelineInv, Complete
<1> QED BY <1>7, <1>8, <1>10, <1>11, <1>12, <1>13, <1>14 DEF TimelineInv

(* The events of the run itself.                                           *)
LEMMA RunEmits ==
  ASSUME TimelineInv, NEW e \in Events, Emit(e),
         e.kind \notin {"subtask_started"} \cup Deltas \cup Closings,
         cancelled \subseteq cancelled'
  PROVE  /\ events' \in Seq(Events) /\ saving' \subseteq DOMAIN events'
         /\ stored' \subseteq DOMAIN events' /\ saving' \cap stored' = {}
         /\ count' \in Nat /\ failures' \in Nat /\ Cap \in Nat /\ Complete'
         /\ \A t \in Subtasks :
              Nested(t)' /\ (Begun(t) => Begun(t)') /\ (HasClosed(t)' => HasClosed(t))
<1>1. /\ events' \in Seq(Events) /\ saving' \subseteq DOMAIN events'
      /\ stored' \subseteq DOMAIN events' /\ saving' \cap stored' = {}
      /\ count' \in Nat /\ failures' \in Nat
  BY EmitType DEF TimelineInv
<1>2. Cap \in Nat /\ Complete'
  BY EmitComplete DEF TimelineInv, TimelineType
<1>3. ASSUME NEW t \in Subtasks
      PROVE  Nested(t)' /\ (Begun(t) => Begun(t)') /\ (HasClosed(t)' => HasClosed(t))
  <2>1. Nested(t)
    BY DEF TimelineInv, Lives
  <2> QED BY <2>1, EmitNested DEF TimelineInv
<1> QED BY <1>1, <1>2, <1>3

LEMMA OpeningStep ==
  ASSUME TimelineInv, StartRun \/ PlanSubtasks
  PROVE  TimelineInv'
<1>1. PICK kind \in {"run_started", "subtasks_planned"} :
        /\ Emit(Event(kind, None))
        /\ \/ kind = "run_started" /\ run = "new" /\ run' = "deciding"
           \/ /\ kind = "subtasks_planned" /\ run = "deciding" /\ run' = "planned"
              /\ Written("run_started", None)
        /\ UNCHANGED <<subtask, ready, cancelling, cancelled, row>>
  BY DEF StartRun, PlanSubtasks, tasks
<1> DEFINE e == Event(kind, None)
<1>2. e \in Events /\ e.kind = kind /\ e.task = None /\ Emit(e)
  BY <1>1 DEF Event, Events, Kinds
<1> HIDE DEF e
<1>3. e.kind \notin {"subtask_started"} \cup Deltas \cup Closings
                      \cup TerminalKinds
  BY <1>2 DEF Deltas, Closings, TerminalKinds
<1>4. /\ events' \in Seq(Events) /\ saving' \subseteq DOMAIN events'
      /\ stored' \subseteq DOMAIN events' /\ saving' \cap stored' = {}
      /\ count' \in Nat /\ failures' \in Nat /\ Cap \in Nat /\ Complete'
      /\ \A t \in Subtasks :
           Nested(t)' /\ (Begun(t) => Begun(t)') /\ (HasClosed(t)' => HasClosed(t))
  BY <1>1, <1>2, <1>3, RunEmits
<1>5. /\ Len(events) \in Nat /\ DOMAIN events = 1..Len(events)
      /\ DOMAIN events' = 1..(Len(events) + 1)
      /\ \A i \in DOMAIN events : events'[i] = events[i]
      /\ events'[Len(events) + 1] = e
      /\ saving' \subseteq saving \cup {Len(events) + 1}
  BY <1>2, EmitFacts DEF TimelineInv
<1>6. \A i \in DOMAIN events' : i \in DOMAIN events \/ i = Len(events) + 1
  BY <1>5
<1>7. TimelineType'
  BY <1>1, <1>4 DEF TimelineInv, TimelineType, Early
<1>8. \A t \in Subtasks : Lives(t)'
  BY <1>1, <1>4 DEF TimelineInv, Lives, Pending
<1>9. run \in Early /\ run' \in Early /\ run' # "new" /\ run' \notin {"executing", "finishing", "done"}
  BY <1>1 DEF Early
<1>10. \A i \in DOMAIN events' : ~ IsTerminal(events'[i])
  <2>1. \A i \in DOMAIN events : ~ IsTerminal(events[i])
    BY <1>9 DEF TimelineInv, RunOrder
  <2> QED BY <1>3, <1>5, <1>6, <2>1 DEF IsTerminal
<1>11. row.owner = {}
  BY <1>1 DEF TimelineInv, Looked
<1>12. RunOrder'
  BY <1>1, <1>9, <1>10, <1>11 DEF TimelineInv, RunOrder
<1>13. saving = {}
  BY <1>1 DEF TimelineInv, Underway, Holds, Written
<1>14. Underway'
  BY <1>1, <1>2, <1>5, <1>13 DEF Underway, Holds
<1>15. LastWord'
  BY <1>10 DEF LastWord, IsTerminal, TerminalKinds
<1>16. Looked'
  BY <1>1, <1>11 DEF Looked
<1> QED BY <1>4, <1>7, <1>8, <1>12, <1>14, <1>15, <1>16 DEF TimelineInv

(* The terminal event.                                                     *)
LEMMA ClosingStep ==
  ASSUME TimelineInv, CompleteRun \/ StopRun
  PROVE  TimelineInv'
<1>1. PICK kind \in TerminalKinds :
        /\ Emit(Event(kind, None))
        /\ \/ /\ kind = "run_completed" /\ \A t \in Subtasks : subtask[t] = "ended"
              /\ UNCHANGED <<subtask, cancelling, cancelled>>
           \/ /\ kind = "run_stopped"
              /\ subtask' = [t \in Subtasks |->
                              IF subtask[t] = "created" THEN "ended" ELSE subtask[t]]
              /\ cancelled' = {t \in Subtasks : subtask[t] # "ended"}
              /\ cancelling' = {t \in cancelled' : subtask[t] # "created"}
        /\ run = "executing" /\ run' = "finishing" /\ UNCHANGED <<ready, row>>
  BY DEF CompleteRun, StopRun, tasks, TerminalKinds
<1>2. /\ subtask \in [Subtasks -> AtWork \cup {"created", "ended"}]
      /\ saving \subseteq DOMAIN events /\ row.owner = {}
      /\ cancelled = {} /\ cancelling = {}
      /\ \A i \in DOMAIN events : ~ IsTerminal(events[i])
  BY <1>1 DEF TimelineInv, TimelineType, Looked, RunOrder
<1> DEFINE e == Event(kind, None)
<1>3. e \in Events /\ e.kind = kind /\ e.task = None /\ Emit(e)
  BY <1>1 DEF Event, Events, Kinds
<1> HIDE DEF e
<1>4. e.kind \notin {"subtask_started"} \cup Deltas \cup Closings
  BY <1>3 DEF Deltas, Closings, TerminalKinds
<1>5. /\ events' \in Seq(Events) /\ saving' \subseteq DOMAIN events'
      /\ stored' \subseteq DOMAIN events' /\ saving' \cap stored' = {}
      /\ count' \in Nat /\ failures' \in Nat /\ Cap \in Nat /\ Complete'
      /\ \A t \in Subtasks :
           Nested(t)' /\ (Begun(t) => Begun(t)') /\ (HasClosed(t)' => HasClosed(t))
  BY <1>2, <1>3, <1>4, RunEmits
<1>6. /\ Len(events) \in Nat /\ DOMAIN events = 1..Len(events)
      /\ DOMAIN events' = 1..(Len(events) + 1) /\ Len(events') = Len(events) + 1
      /\ \A i \in DOMAIN events : events'[i] = events[i]
      /\ events'[Len(events) + 1] = e
      /\ saving' \subseteq saving \cup {Len(events) + 1}
  BY <1>3, EmitFacts DEF TimelineInv
<1>7. \A i \in DOMAIN events' : i \in DOMAIN events \/ i = Len(events) + 1
  BY <1>6
<1>8. /\ subtask' \in [Subtasks -> AtWork \cup {"created", "ended"}]
      /\ cancelling' \subseteq cancelled'
      /\ \A t \in Subtasks :
           /\ subtask'[t] = subtask[t] \/ (subtask[t] = "created" /\ subtask'[t] = "ended")
           /\ t \in cancelling' => subtask'[t] \in AtWork
  BY <1>1, <1>2 DEF AtWork
<1>9. TimelineType'
  BY <1>1, <1>5, <1>8 DEF TimelineInv, TimelineType
<1>10. \A t \in Subtasks : Lives(t)'
  <2> SUFFICES ASSUME NEW t \in Subtasks PROVE Lives(t)'
    OBVIOUS
  <2>1. Lives(t) /\ (Pending(t)' <=> Pending(t))
    BY <1>1 DEF TimelineInv, Pending
  <2>2. Nested(t)' /\ (Begun(t) => Begun(t)') /\ (HasClosed(t)' => HasClosed(t))
    BY <1>5
  <2>3. /\ subtask'[t] = subtask[t] \/ (subtask[t] = "created" /\ subtask'[t] = "ended")
        /\ t \in cancelling' => subtask'[t] \in AtWork
    BY <1>8
  <2> QED BY <2>1, <2>2, <2>3 DEF Lives, AtWork
<1>11. RunOrder'
  <2>1. \A i \in DOMAIN events' : IsTerminal(events'[i]) => events'[i].task = None
    BY <1>2, <1>3, <1>6, <1>7 DEF IsTerminal
  <2>2. \E i \in DOMAIN events' : IsTerminal(events'[i])
    BY <1>3, <1>6 DEF IsTerminal
  <2> QED BY <1>1, <1>8, <2>1, <2>2 DEF RunOrder, Early
<1>12. \A i \in saving : events[i].task \in Subtasks /\ subtask[events[i].task] # "ended"
  BY <1>1 DEF TimelineInv, Underway, Awaited
<1>13. Underway'
  <2>1. ASSUME NEW i \in saving PROVE Outlived(i)'
    BY <1>1, <1>2, <1>6, <1>12 DEF Outlived
  <2>2. \A i \in saving' : i \in saving \/ (i = Len(events) + 1 /\ IsTerminal(events'[i]))
    BY <1>3, <1>6 DEF IsTerminal
  <2> QED BY <1>1, <2>1, <2>2 DEF Underway
<1>14. LastWord'
  <2> SUFFICES ASSUME NEW i \in DOMAIN events', events'[i].kind = "run_completed"
               PROVE  /\ i = Len(events') /\ saving' \subseteq {i} /\ cancelled' = {}
                      /\ \A t \in Subtasks : subtask'[t] = "ended"
    BY DEF LastWord
  <2>1. i = Len(events) + 1
    BY <1>2, <1>6, <1>7 DEF IsTerminal, TerminalKinds
  <2>2. kind = "run_completed"
    BY <1>3, <1>6, <2>1
  <2>3. saving = {}
    BY <1>1, <1>12, <2>2
  <2> QED BY <1>1, <1>2, <1>6, <2>1, <2>2, <2>3
<1>15. Looked'
  BY <1>1, <1>2 DEF Looked
<1> QED BY <1>5, <1>9, <1>10, <1>11, <1>13, <1>14, <1>15 DEF TimelineInv

LEMMA TimelineStarts ==
  ASSUME TimelineInit, Cap \in Nat
  PROVE  TimelineInv
<1>1. events = <<>> /\ ready = <<>> /\ saving = {} /\ stored = {} /\ count = 0 /\ failures = 0
  BY DEF TimelineInit
<1>2. DOMAIN events = {} /\ DOMAIN ready = {} /\ Cardinality(stored) = 0 /\ row.owner = {}
  BY <1>1, FS_EmptySet DEF TimelineInit, NoRow
<1>3. run = "new" /\ cancelling = {} /\ cancelled = {} /\ \A t \in Subtasks : subtask[t] = "created"
  BY DEF TimelineInit
<1>4. TimelineType
  BY <1>1, <1>2 DEF TimelineInit, TimelineType, Early
<1>5. RunOrder /\ Underway
  BY <1>1, <1>2, <1>3 DEF RunOrder, Underway
<1>6. LastWord /\ Looked /\ Complete
  BY <1>1, <1>2 DEF LastWord, Looked, Complete
<1>7. \A t \in Subtasks : Lives(t)
  BY <1>2, <1>3 DEF Lives, Nested, Pending, HasClosed, AtWork
<1> QED BY <1>4, <1>5, <1>6, <1>7 DEF TimelineInv

LEMMA TimelineStep ==
  ASSUME TimelineInv, [TimelineNext]_timelineVars
  PROVE  TimelineInv'
<1>1. CASE StartRun \/ PlanSubtasks
  BY <1>1, OpeningStep
<1>2. CASE StreamFailUnexpected \/ Execute \/ StreamDisconnect \/ TimelineOver
  BY <1>2, SilentRun
<1>3. CASE CompleteRun \/ StopRun
  BY <1>3, ClosingStep
<1>4. CASE PersistRun
  BY <1>4, PersistStep
<1>5. CASE RunTask
  BY <1>5, RunTaskStep
<1>6. ASSUME NEW t \in Subtasks, Step(t) PROVE TimelineInv'
  <2>1. CASE t \notin cancelling /\ (StartSubtask(t) \/ CloseSubtask(t))
    BY <2>1, SubtaskStep
  <2>2. CASE /\ t \notin cancelling
             /\ \/ RunAgent(t) \/ Observe(t) \/ AgentEnds(t)
                \/ EndSubtask(t)
    BY <2>2, SilentSubtask
  <2>3. CASE CancelSubtask(t)
    BY <2>3, CancelStep
  <2> QED BY <1>6, <2>1, <2>2, <2>3 DEF Step
<1>7. ASSUME NEW k \in DOMAIN events, SaveEvent(k) PROVE TimelineInv'
  BY <1>7, SaveStep
<1>8. CASE UNCHANGED timelineVars
  <2>1. /\ Unheard /\ UNCHANGED <<subtask, ready, cancelling, cancelled, row, run>>
    BY <1>8 DEF timelineVars, tasks, recorder, Unheard
  <2>2. run \in Early \cup {"executing", "finishing", "done"} /\ saving \subseteq DOMAIN events
    BY DEF TimelineInv, TimelineType
  <2>3. TimelineType' /\ LastWord' /\ \A t \in Subtasks : Lives(t)'
    BY <2>1, <2>2, RunLevelKeeps
  <2>4. Complete' /\ \A i \in DOMAIN events : Outlived(i)' <=> Outlived(i)
    BY <2>1, UnheardKeeps
  <2>5. RunOrder'
    BY <2>1 DEF TimelineInv, RunOrder, Unheard
  <2>6. Underway'
    BY <2>1, <2>2, <2>4 DEF TimelineInv, Underway, Unheard, Holds, Awaited
  <2>7. Looked'
    BY <2>1, <2>2, <2>4 DEF TimelineInv, Looked, Unheard
  <2> QED BY <2>3, <2>4, <2>5, <2>6, <2>7 DEF TimelineInv
<1> QED BY <1>1, <1>2, <1>3, <1>4, <1>5, <1>6, <1>7, <1>8 DEF TimelineNext

(* Where the events of a run stand is kept by every step of it             *)
(* (MultiAgentService.run, SequencedObserver, MultiAgentEventRecorder).    *)
THEOREM TimelineInvariant == TimelineSpec => []TimelineInv
<1>1. TimelineInit => TimelineInv
  BY TimelineAssumption, TimelineStarts
<1>2. TimelineInv /\ [TimelineNext]_timelineVars => TimelineInv'
  BY TimelineStep
<1> QED BY <1>1, <1>2, PTL DEF TimelineSpec

(* What the agent of a subtask reports stands between the start and the    *)
(* end of the subtask, whenever and wherever it is cancelled               *)
(* (_SubtaskRuntimeEventObserver.drain).                                   *)
THEOREM ReportsAreNested == TimelineSpec => []TimelineNested
<1>1. TimelineInv => TimelineNested
  BY DEF TimelineInv, Lives, Nested, Holds, TimelineNested, Positions
<1> QED BY <1>1, TimelineInvariant, PTL

(* The rows by number, when none is missing.                               *)
LEMMA EveryRowListed ==
  ASSUME NEW n \in Nat, stored = 1..n, n <= Cap, Cap \in Nat
  PROVE  ListEvents = [k \in 1..n |-> k]
<1>1. Cardinality(stored) = n
  BY FS_Interval
<1>2. ASSUME NEW i \in 1..n PROVE Cardinality({j \in stored : j <= i}) = i
  <2>1. {j \in stored : j <= i} = 1..i
    OBVIOUS
  <2>2. Cardinality(1..i) = i
    BY FS_Interval
  <2> QED BY <2>1, <2>2
<1>3. ASSUME NEW k \in 1..n PROVE RowAt(k) = k
  <2>1. k \in stored /\ Cardinality({j \in stored : j <= k}) = k
    BY <1>2
  <2>2. /\ RowAt(k) \in stored
        /\ Cardinality({j \in stored : j <= RowAt(k)}) = k
    BY <2>1 DEF RowAt
  <2> QED BY <1>2, <2>2
<1> QED BY <1>1, <1>3 DEF ListEvents

(* The row of an event, read back, has all that its frame shows.           *)
LEMMA RowIsFrame ==
  ASSUME NEW e
  PROVE  ToStreamEvent(e, EventFromRow(EventRow(e)))
           = ToStreamEvent(e, FieldsOf(e.kind))
<1> DEFINE F == FieldsOf(e.kind)
<1>1. /\ EventRow(e).columns = F \ {"run_source"}
      /\ EventRow(e).payload = F
  BY DEF EventRow, ToPublicDict
<1> HIDE DEF F
<1>2. EventFromRow(EventRow(e)) = F \ {"run_source"}
  BY <1>1 DEF EventFromRow
<1>3. EventFromRow(EventRow(e)) \ {"run_source"} = F \ {"run_source"}
  BY <1>2
<1> QED BY <1>3 DEF ToStreamEvent, F

(* Once a run can be looked up, its replay does not change up to the       *)
(* terminal event, but for what cancelled tasks still write; and the       *)
(* replay of a completed run none of whose INSERTs failed and that is      *)
(* within the cap is, frame by frame, what the client was sent.            *)
THEOREM ReplaysAreSettled == TimelineSpec => []ReplayIsSettled
<1>1. TimelineInv => ReplayIsSettled
  <2> SUFFICES ASSUME TimelineInv, NEW s \in row.owner
               PROVE  /\ \A i \in saving :
                           \/ events[i].task \in cancelled
                           \/ \E j \in 1..(i - 1) : IsTerminal(events[j])
                      /\ row.status = "run_completed" /\ failures = 0 /\ Len(events) <= Cap
                         => Replay(s) = [i \in DOMAIN events |->
                              ToStreamEvent(events[i], FieldsOf(events[i].kind))]
    BY DEF ReplayIsSettled
  <2>1. events \in Seq(Events) /\ saving \subseteq DOMAIN events
    BY DEF TimelineInv, TimelineType
  <2>2. Len(events) \in Nat /\ DOMAIN events = 1..Len(events)
    BY <2>1
  <2>3. ASSUME NEW i \in saving
        PROVE  \/ events[i].task \in cancelled
               \/ \E j \in 1..(i - 1) : IsTerminal(events[j])
    <3>1. Outlived(i) /\ i \in 1..Len(events)
      BY <2>1, <2>2 DEF TimelineInv, Looked
    <3> QED BY <2>2, <3>1 DEF Outlived
  <2>4. ASSUME row.status = "run_completed", failures = 0, Len(events) <= Cap
        PROVE  Replay(s) = [i \in DOMAIN events |->
                 ToStreamEvent(events[i], FieldsOf(events[i].kind))]
    <3>1. saving = {} /\ \E i \in DOMAIN events : events[i].kind = "run_completed"
      BY <2>4 DEF TimelineInv, Looked
    <3>2. cancelled = {}
      BY <3>1 DEF TimelineInv, LastWord
    <3>3. stored = 1..Len(events)
      BY <2>2, <2>4, <3>1, <3>2 DEF TimelineInv, Complete
    <3>4. ListEvents = [k \in 1..Len(events) |-> k]
      BY <2>2, <2>4, <3>3, EveryRowListed, TimelineAssumption
    <3>5. GetRun(s) # NoRow
      <4>1. NoRow.owner = {}
        BY DEF NoRow
      <4> QED BY <4>1 DEF GetRun
    <3>6. Replay(s) = [i \in 1..Len(events) |->
            ToStreamEvent(events[i],
              EventFromRow(EventRow(events[i])))]
      BY <3>4, <3>5 DEF Replay
    <3>7. \A i \in 1..Len(events) :
            ToStreamEvent(events[i], EventFromRow(EventRow(events[i])))
              = ToStreamEvent(events[i], FieldsOf(events[i].kind))
      BY RowIsFrame
    <3> QED BY <2>2, <3>6, <3>7
  <2> QED BY <2>3, <2>4
<1> QED BY <1>1, TimelineInvariant, PTL
=============================================================================
