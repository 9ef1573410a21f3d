---------------------------- MODULE GraphExecutor ----------------------------
(***************************************************************************)
(* taktis/core/graph_executor.py: one designer graph executed wave by      *)
(* wave as one phase, with its gates, plan approval, loops, retries,       *)
(* fan-outs, its cancellation and its resumption.                          *)
(*                                                                         *)
(* A graph is [type, name, wires]: type maps each node to what the         *)
(* executor makes of it, name to the name its author gave it, "" for none, *)
(* a wire is <<node, port, node>>.  A text is the set of                   *)
(* marks found in it: "issue" is the pattern conditionals, loops and       *)
(* checkers look for, "FAILED" the summary of a task that failed.          *)
(*                                                                         *)
(* A coroutine that waits inside nested calls keeps them on `stack`.  The  *)
(* tasks are rows that end as WaveScheduler ends them; an event is heard   *)
(* if the executor waits for its task.                                     *)
(***************************************************************************)
EXTENDS Naturals, Sequences, FiniteSets, FiniteSetsExt, SequencesExt

CONSTANTS Graphs,      \* the graphs a flow may be given
          MaxTask,     \* bound: rows of one phase
          MaxRound,    \* max_iterations of loops, max_retries of checkers
          MaxItem,     \* items a fan-out may find in its text
          MaxParallel, \* max_parallel of fan-outs
          MayCome      \* which mishaps and operations may come together

(* parse_drawflow_graph keeps a connection only between nodes of the graph. *)
ASSUME GraphAssumption ==
  /\ \A g \in Graphs :
       /\ IsFiniteSet(DOMAIN g.type) /\ IsFiniteSet(g.wires)
       /\ DOMAIN g.name = DOMAIN g.type
       /\ g.wires \subseteq (DOMAIN g.type) \X Nat \X (DOMAIN g.type)
  /\ {MaxTask, MaxRound, MaxItem, MaxParallel} \subseteq Nat

VARIABLES
  graph,     \* the flow's JSON, the same for every resumption
  level,     \* GraphNode.wave
  results,   \* _results
  skipped,   \* nodes with skipped = True
  dropped,   \* history: targets of the ports this executor did not take
  task,      \* GraphNode.task_id, 0 for None
  rows,      \* the phase's task rows, in the order of their creation
  phase,     \* phases.status, "none" before create_phase
  pc,        \* where the wave loop stands
  wave,      \* its wave
  batch,     \* active_nodes of that wave
  todo,      \* nodes of the loop the wave loop is in, still to be handled
  failed,    \* phase_failed
  stack,     \* the calls the executor is inside of, innermost first
  wait,      \* pending of _wait_for_wave
  lost,      \* tasks it reports as not completed
  heard,     \* events in its two queues
  bell,      \* the event a gate or a plan waits for, and the answer
  cancelled, \* _cancelled
  resumed,   \* this executor runs resume_flow (_force_apply)
  restored,  \* completed_node_ids
  stray,     \* items of an abandoned fan-out not started yet
  applied,   \* history: by what leave plans were applied
  redone,    \* history: instant nodes run again below a revised agent
  happened   \* history: mishaps and operations so far, by kind

nodeVars == <<level, results, skipped, dropped, task>>
loopVars == <<phase, pc, wave, batch, todo, failed>>
callVars == <<stack, bell>>
waitVars == <<wait, lost, heard>>
flowVars == <<cancelled, resumed, restored, stray, applied, redone>>
graphVars == <<graph, nodeVars, rows, loopVars, callVars, waitVars, flowVars,
               happened>>

Node == DOMAIN graph.type
Type(n) == graph.type[n]

LLM == {n \in Node : Type(n) \in {"agent", "interactive", "checker", "router"}}
Instant == Node \ LLM

Text == SUBSET {"issue", "FAILED"}
NoText == {"none"}          \* no result event and no summary

Feeders(n) == {w[1] : w \in {v \in graph.wires : v[3] = n}}
Targets(n) == {w[3] : w \in {v \in graph.wires : v[1] = n}}
Port(n, p) == {w[3] : w \in {v \in graph.wires : v[1] = n /\ v[2] = p}}

RowStatus == {"running", "continuing", "awaiting_input", "pending",
              "completed", "failed", "cancelled"}
Terminal == {"completed", "failed", "cancelled"}

Happens(kind) ==
  /\ happened' = happened \cup {kind}
  /\ \E kinds \in MayCome : happened' \subseteq kinds
-----------------------------------------------------------------------------
(* topological_sort_waves: Kahn's algorithm, one queue entry at a time.    *)
Indegree == [n \in Node |-> Cardinality({w \in graph.wires : w[3] = n})]

(* Mutant of KahnStep: the first wire to a node decides its wave. *)
KahnFirstLevel(s) ==
  LET n == Head(s.queue)
      degree == [m \in Node |-> IF m \in Targets(n) THEN s.degree[m] - 1
                                ELSE s.degree[m]]
      free == {m \in Targets(n) : degree[m] = 0}
  IN [queue |-> Tail(s.queue) \o SetToSeq(free),
      degree |-> degree,
      level |-> [m \in Node |-> IF m \in Targets(n) /\ s.level[m] = 0
                                THEN s.level[n] + 1 ELSE s.level[m]],
      visited |-> s.visited + 1]

KahnStep(s) ==
  LET n == Head(s.queue)
      wires(m) == Cardinality({w \in graph.wires : w[1] = n /\ w[3] = m})
      degree == [m \in Node |-> s.degree[m] - wires(m)]
      free == {m \in Targets(n) : degree[m] = 0}
  IN [queue |-> Tail(s.queue) \o SetToSeq(free),
      degree |-> degree,
      level |-> [m \in Node |-> IF m \in Targets(n) /\ s.level[m] <= s.level[n]
                                THEN s.level[n] + 1 ELSE s.level[m]],
      visited |-> s.visited + 1]

Kahn ==
  LET sources == {n \in Node : Indegree[n] = 0}
      after[k \in 0 .. Cardinality(Node)] ==
        IF k = 0
        THEN [queue |-> SetToSeq(sources), degree |-> Indegree, visited |-> 0,
              level |-> [n \in Node |-> IF n \in sources THEN 1 ELSE 0]]
        ELSE IF after[k - 1].queue = <<>> THEN after[k - 1]
        ELSE KahnStep(after[k - 1])
  IN after[Cardinality(Node)]

InLevel(w) == {n \in Node : level[n] = w}
-----------------------------------------------------------------------------
(* _get_upstream_text *)
Upstream(n) == UNION {results[f] : f \in Feeders(n) \cap DOMAIN results}

ResultOf(n) == IF n \in DOMAIN results THEN results[n] ELSE {}

(* Mutant of Store: the absence of a result is kept as one. *)
StoreNothingToo(res, n, text) ==
  [m \in DOMAIN res \cup {n} |-> IF m = n THEN text ELSE res[m]]

(* Texts are kept in a partial function; an empty result is not kept. *)
Store(res, n, text) ==
  IF text = NoText THEN res ELSE [m \in DOMAIN res \cup {n} |->
                                    IF m = n THEN text ELSE res[m]]

(* _find_upstream_llm_node: breadth first, so any of the nearest ones. *)
NearestLLM(n) ==
  LET ring[k \in 0 .. Cardinality(Node)] ==
        IF k = 0 THEN Feeders(n)
        ELSE UNION {Feeders(m) : m \in ring[k - 1] \ LLM}
      hits == {k \in DOMAIN ring : ring[k] \cap LLM # {}}
  IN IF hits = {} THEN {} ELSE ring[Min(hits)] \cap LLM
-----------------------------------------------------------------------------
(* _mark_skipped: the candidates are the nodes below the roots; those with  *)
(* a live feeder are kept, until nothing changes, which leaves the largest  *)
(* set of candidates fed only by itself, the roots and what is skipped.     *)
Below(roots) ==
  LET closed(s) == \A m \in s \cup roots : Targets(m) \subseteq s
  IN {n \in Node \ roots : \A s \in SUBSET Node : closed(s) => n \in s}

(* Mutant of Pruned: everything below is skipped, fed or not. *)
PrunedWhateverFeeds(roots) == Below(roots)

Pruned(roots) ==
  UNION {s \in SUBSET Below(roots) :
           \A n \in s : Feeders(n) \subseteq s \cup roots \cup skipped}

MarkSkipped(roots) ==
  /\ skipped' = skipped \cup roots \cup Pruned(roots)
  /\ dropped' = dropped \cup roots

SkipNothing == UNCHANGED <<skipped, dropped>>
-----------------------------------------------------------------------------
(* create_task and start_task: the row is running when start_task returns. *)
NewRow(n, role) == [node |-> n, role |-> role, status |-> "running",
                    text |-> NoText, route |-> 1]

StartTask(n, role) ==
  /\ Len(rows) < MaxTask
  /\ rows' = Append(rows, NewRow(n, role))

NewId == Len(rows) + 1

(* _wait_for_wave subscribes right after the one task was started. *)
WaitFor(ids) == wait' = ids /\ lost' = {} /\ heard' = {}

(* An exception leaves every call up to the wave loop, which notes it, or  *)
(* to the handler around _handle_retry, which does not.                    *)
Raises ==
  /\ stack' = <<>>
  /\ failed' = (failed \/ pc = "instants")

Return == stack' = Tail(stack) /\ UNCHANGED failed

(* The local variables of a call: node, iteration, what is left to visit    *)
(* or to start, what was, the agent to revise and the task waited for.      *)
Frame(op, n) == [op |-> op, node |-> n, round |-> 0, queue |-> <<>>,
                 seen |-> {}, llm |-> n, row |-> 0]

Inside(op) == stack # <<>> /\ Head(stack).op = op
Caller == Head(stack)
Replace(frames) == stack' = frames \o Tail(stack) /\ UNCHANGED failed
-----------------------------------------------------------------------------
(* _execute_instant_node.  The nodes that do not wait are done in one step; *)
(* `rest` is the stack to return to.                                        *)
Keep(n, text, rest) ==
  /\ results' = Store(results, n, text)
  /\ stack' = rest
  /\ UNCHANGED <<failed, bell, applied, happened>>

(* output_parser, text_transform and file_writer keep their text or a part  *)
(* of it, an aggregator all of it, api_call an answer from outside: a       *)
(* failed request is a text, too.                                           *)
TextOf(n) ==
  CASE Type(n) = "transform"  -> SUBSET Upstream(n)
    [] Type(n) = "aggregator" -> {Upstream(n)}
    [] Type(n) = "api_call"   -> {{}, {"issue"}}

ExecuteText(n, rest) ==
  /\ Type(n) \in {"transform", "aggregator", "api_call"}
  /\ \E text \in TextOf(n) : Keep(n, text, rest)
  /\ SkipNothing

(* A pattern that does not compile, a file that cannot be written, a spec   *)
(* or a plan that cannot be parsed.                                         *)
ExecuteRaises(n) ==
  /\ Type(n) \in {"transform", "conditional", "generator", "plan_applier"}
  /\ Happens("raise")
  /\ Raises
  /\ SkipNothing
  /\ UNCHANGED <<results, bell, applied>>

(* A condition on the text, or on the upstream tasks (task_failed).         *)
Passes(n) ==
  IF Type(n) = "task_failed"
  THEN \E f \in Feeders(n) : task[f] # 0 /\ "FAILED" \in ResultOf(f)
  ELSE "issue" \notin Upstream(n)

(* _execute_conditional *)
ExecuteConditional(n, rest) ==
  /\ Type(n) \in {"conditional", "task_failed"}
  /\ LET taken == IF Passes(n) THEN 1 ELSE 2
     IN MarkSkipped(Port(n, 3 - taken) \ Port(n, taken))
  /\ Keep(n, Upstream(n), rest)

(* _execute_pipeline_generator stores a summary of the template it saved.   *)
ExecuteGenerator(n, rest) ==
  /\ Type(n) = "generator"
  /\ Keep(n, {}, rest)
  /\ SkipNothing

(* apply_plan creates phases and tasks, which are other phases' business.   *)
Apply(n, leave, rest) ==
  /\ results' = Store(results, n, {})
  /\ applied' = applied \cup {leave}
  /\ stack' = rest
  /\ UNCHANGED <<failed, bell, happened>>

(* A type the executor does not know is passed over.                        *)
ExecuteUnknown(n, rest) ==
  /\ Type(n) = "unknown"
  /\ stack' = rest
  /\ SkipNothing
  /\ UNCHANGED <<results, failed, bell, applied, happened>>

ExecutePlanApplier(n, rest) ==
  /\ Type(n) = "plan_applier"
  /\ SkipNothing
  /\ IF resumed THEN Apply(n, "resumed", rest)
     ELSE /\ bell' = "silent"
          /\ stack' = <<Frame("plan", n)>> \o rest
          /\ UNCHANGED <<results, failed, applied, happened>>

(* human_gate, loop and fan_out wait: their frames do the work.             *)
ExecuteWaiting(n, rest) ==
  /\ Type(n) \in {"human_gate", "loop"}
  /\ bell' = IF Type(n) = "human_gate" THEN "silent" ELSE bell
  /\ stack' = <<Frame(Type(n), n)>> \o rest
  /\ SkipNothing
  /\ UNCHANGED <<results, failed, applied, happened>>

ExecuteFanOut(n, rest) ==
  /\ Type(n) = "fan_out"
  /\ \E items \in 0 .. MaxItem :
        IF items = 0
        THEN Keep(n, {}, rest) /\ UNCHANGED waitVars
        ELSE /\ stack' = <<[Frame("fan_out", n) EXCEPT !.round = items]>> \o rest
             /\ WaitFor({})
             /\ UNCHANGED <<results, failed, bell, applied, happened>>
  /\ SkipNothing

ExecuteInstantNode(n, rest) ==
  \/ ExecuteFanOut(n, rest)
  \/ /\ \/ ExecuteText(n, rest)
        \/ ExecuteRaises(n)
        \/ ExecuteConditional(n, rest)
        \/ ExecuteGenerator(n, rest)
        \/ ExecuteUnknown(n, rest)
        \/ ExecutePlanApplier(n, rest)
        \/ ExecuteWaiting(n, rest)
     /\ UNCHANGED waitVars
-----------------------------------------------------------------------------
(* execute: a cyclic graph raises before a phase is created.                *)
ExecutorInit ==
  /\ graph \in Graphs
  /\ level = [n \in Node |-> 0]
  /\ results = [n \in {} |-> {}]
  /\ skipped = {} /\ dropped = {}
  /\ task = [n \in Node |-> 0]
  /\ rows = <<>>
  /\ phase = "none" /\ pc = "new" /\ wave = 1
  /\ batch = {} /\ todo = {} /\ failed = FALSE
  /\ stack = <<>> /\ bell = "silent"
  /\ wait = {} /\ lost = {} /\ heard = {}
  /\ cancelled = FALSE /\ resumed = FALSE /\ restored = {}
  /\ stray = 0 /\ applied = {} /\ redone = {} /\ happened = {}

Execute ==
  /\ pc = "new"
  /\ LET sorted == Kahn IN
     IF sorted.visited = Cardinality(Node)
     THEN level' = sorted.level /\ pc' = "wave" /\ phase' = "open"
     ELSE pc' = "over" /\ UNCHANGED <<level, phase>>
  /\ UNCHANGED <<graph, results, skipped, dropped, task, rows, wave, batch,
                 todo, failed, callVars, waitVars, flowVars, happened>>

(* The phase's final status. *)
Finish(fails) ==
  /\ pc' = "over"
  /\ phase' = IF fails THEN "failed" ELSE "complete"

(* Top of the wave loop. *)
EnterWave ==
  /\ pc = "wave"
  /\ IF cancelled \/ InLevel(wave) = {}
     THEN Finish(failed \/ (cancelled /\ InLevel(wave) # {}))
          /\ UNCHANGED <<batch, todo>>
     ELSE /\ batch' = InLevel(wave) \ skipped
          /\ todo' = batch' \cap Instant
          /\ pc' = "instants"
          /\ UNCHANGED phase
  /\ UNCHANGED <<graph, nodeVars, rows, wave, failed, callVars, waitVars,
                 flowVars, happened>>

(* The instant nodes one after the other; an exception does not stop them.  *)
RunInstant(n) ==
  /\ pc = "instants" /\ stack = <<>>
  /\ n \in todo
  /\ todo' = todo \ {n}
  /\ ExecuteInstantNode(n, <<>>)
  /\ UNCHANGED <<graph, level, task, rows, phase, pc, wave, batch, cancelled,
                 resumed, restored, stray, redone>>

(* Mutant of InstantsDone: a failed instant node does not stop the wave. *)
InstantsDoneAnyhow ==
  /\ pc = "instants" /\ stack = <<>> /\ todo = {}
  /\ pc' = "starting"
  /\ todo' = (batch \cap LLM) \ restored
  /\ UNCHANGED <<graph, nodeVars, rows, phase, wave, batch, failed, callVars,
                 waitVars, flowVars, happened>>

InstantsDone ==
  /\ pc = "instants" /\ stack = <<>> /\ todo = {}
  /\ IF failed THEN Finish(TRUE) /\ UNCHANGED todo
     ELSE /\ pc' = "starting"
          /\ todo' = (batch \cap LLM) \ restored
          /\ UNCHANGED phase
  /\ UNCHANGED <<graph, nodeVars, rows, wave, batch, failed, callVars,
                 waitVars, flowVars, happened>>

(* _create_and_start_llm_node; a refused one does not stop the others.      *)
StartNode(n) ==
  /\ pc = "starting" /\ n \in todo
  /\ todo' = todo \ {n}
  /\ \/ /\ StartTask(n, "node")
        /\ task' = [task EXCEPT ![n] = NewId]
        /\ UNCHANGED <<failed, happened>>
     \/ /\ Happens("refused")
        /\ failed' = TRUE
        /\ UNCHANGED <<task, rows>>
  /\ UNCHANGED <<graph, level, results, skipped, dropped, phase, pc, wave,
                 batch, callVars, waitVars, flowVars>>

(* Tasks that were started are left running when another one was refused.   *)
NodesStarted ==
  /\ pc = "starting" /\ todo = {}
  /\ IF failed THEN Finish(TRUE) /\ UNCHANGED waitVars
     ELSE /\ pc' = "waiting"
          /\ WaitFor({task[n] : n \in (batch \cap LLM) \ restored})
          /\ UNCHANGED phase
  /\ UNCHANGED <<graph, nodeVars, rows, wave, batch, todo, failed, callVars,
                 flowVars, happened>>
-----------------------------------------------------------------------------
(* Mutant of WaitWakes: every completion is believed. *)
WaitWakesBelieving ==
  LET status(t) == rows[t].status
      told == {t \in wait : <<t, "completed">> \in heard}
      fell == {t \in wait \ told : <<t, "failed">> \in heard}
      polled == {t \in wait \ (told \cup fell) : status(t) \in Terminal}
  IN /\ pc \in {"instants", "waiting", "retrying"}
     /\ heard # {} \/ polled # {}
     /\ wait' = wait \ (told \cup fell \cup polled)
     /\ lost' = lost \cup fell \cup {t \in polled : status(t) # "completed"}
     /\ heard' = {}
     /\ UNCHANGED <<graph, nodeVars, rows, loopVars, callVars, flowVars,
                    happened>>

(* Mutant of WaitWakes: the rows are not polled. *)
WaitWakesOnEvents ==
  LET status(t) == rows[t].status
      told == {t \in wait : /\ <<t, "completed">> \in heard
                            /\ status(t) # "awaiting_input"}
      fell == {t \in wait \ told : <<t, "failed">> \in heard}
  IN /\ pc \in {"instants", "waiting", "retrying"}
     /\ heard # {}
     /\ wait' = wait \ (told \cup fell)
     /\ lost' = lost \cup fell
     /\ heard' = {}
     /\ UNCHANGED <<graph, nodeVars, rows, loopVars, callVars, flowVars,
                    happened>>

(* _wait_for_wave: the queues are drained, then the rows are polled.  A     *)
(* completion is not believed while the row says awaiting_input.            *)
WaitWakes ==
  LET status(t) == rows[t].status
      told == {t \in wait : /\ <<t, "completed">> \in heard
                            /\ status(t) # "awaiting_input"}
      fell == {t \in wait \ told : <<t, "failed">> \in heard}
      polled == {t \in wait \ (told \cup fell) : status(t) \in Terminal}
  IN /\ pc \in {"instants", "waiting", "retrying"}
     /\ heard # {} \/ polled # {}
     /\ wait' = wait \ (told \cup fell \cup polled)
     /\ lost' = lost \cup fell \cup {t \in polled : status(t) # "completed"}
     /\ heard' = {}
     /\ UNCHANGED <<graph, nodeVars, rows, loopVars, callVars, flowVars,
                    happened>>

(* _get_task_result for each node of the wave, then the routers' ports.     *)
Collected(nodes) ==
  LET told == {n \in nodes : rows[task[n]].text # NoText}
  IN [n \in DOMAIN results \cup told |->
        IF n \in told THEN rows[task[n]].text ELSE results[n]]

NotRouted(n) ==
  LET taken == rows[task[n]].route
  IN (Targets(n) \ Port(n, taken))

WaveDone ==
  /\ pc = "waiting" /\ wait = {}
  /\ LET new == (batch \cap LLM) \ restored IN
     /\ results' = Collected(new)
     /\ MarkSkipped(UNION {NotRouted(n) : n \in
          {m \in batch \cap DOMAIN results' : Type(m) = "router"}})
     /\ todo' = {n \in new : Type(n) = "checker"}
  /\ failed' = (failed \/ lost # {})
  /\ pc' = "retrying"
  /\ UNCHANGED <<graph, level, task, rows, phase, wave, batch, callVars,
                 waitVars, flowVars, happened>>

RetryNode(n) ==
  /\ pc = "retrying" /\ stack = <<>> /\ n \in todo
  /\ todo' = todo \ {n}
  /\ stack' = <<Frame("retry", n)>>
  /\ UNCHANGED <<graph, nodeVars, rows, phase, pc, wave, batch, failed, bell,
                 waitVars, flowVars, happened>>

(* _run_waves stops after a failed wave, _run_waves_resume at the next one. *)
RetriesDone ==
  /\ pc = "retrying" /\ stack = <<>> /\ todo = {}
  /\ IF failed /\ ~resumed THEN Finish(TRUE) /\ UNCHANGED wave
     ELSE pc' = "wave" /\ wave' = wave + 1 /\ UNCHANGED phase
  /\ UNCHANGED <<graph, nodeVars, rows, batch, todo, failed, callVars,
                 waitVars, flowVars, happened>>
-----------------------------------------------------------------------------
(* _execute_human_gate once its event is set.                               *)
GateWakes ==
  /\ Inside("human_gate") /\ bell # "silent"
  /\ LET n == Caller.node
         taken == IF bell = "approved" THEN 1 ELSE 2
     IN IF cancelled
        THEN Raises /\ SkipNothing /\ UNCHANGED results
        ELSE /\ MarkSkipped(Port(n, 3 - taken) \ Port(n, taken))
             /\ results' = Store(results, n, Upstream(n))
             /\ Return
  /\ UNCHANGED <<graph, level, task, rows, phase, pc, wave, batch, todo, bell,
                 waitVars, flowVars, happened>>

(* _execute_plan_applier once its event is set, by whomever.                *)
PlanWakes ==
  /\ Inside("plan") /\ bell # "silent"
  /\ Apply(Caller.node, bell, Tail(stack))
  /\ UNCHANGED <<graph, level, skipped, dropped, task, rows, phase, pc, wave,
                 batch, todo, waitVars, cancelled, resumed, restored, stray,
                 redone>>

(* The revision both _execute_loop and _handle_retry ask an agent for.      *)
StartRevision(llm) ==
  \/ /\ StartTask(llm, "revision")
     /\ WaitFor({NewId})
     /\ Replace(<<[Caller EXCEPT !.op = "revising", !.llm = llm,
                                 !.row = NewId]>>)
     /\ UNCHANGED happened
  \/ /\ Happens("refused")
     /\ Raises
     /\ UNCHANGED <<rows, waitVars>>

(* _execute_loop: the check before each iteration, and after the last.      *)
LoopTurn ==
  /\ Inside("loop")
  /\ LET n == Caller.node
         text == Upstream(n)
         passes == "issue" \notin text \/ NearestLLM(n) = {}
         leaves(port) == /\ results' = Store(results, n, text)
                         /\ MarkSkipped(Port(n, port))
                         /\ Return
     IN \/ /\ passes
           /\ leaves(2)
           /\ UNCHANGED <<rows, waitVars, happened>>
        \/ /\ ~passes /\ Caller.round = MaxRound
           /\ \/ leaves(1) /\ UNCHANGED happened
              \/ /\ Happens("raise") /\ Raises
                 /\ results' = Store(results, n, text) /\ SkipNothing
           /\ UNCHANGED <<rows, waitVars>>
        \/ /\ ~passes /\ Caller.round < MaxRound
           /\ IF cancelled
              THEN Raises /\ UNCHANGED <<rows, waitVars, happened>>
              ELSE \E llm \in NearestLLM(n) : StartRevision(llm)
           /\ SkipNothing /\ UNCHANGED results
  /\ UNCHANGED <<graph, level, task, phase, pc, wave, batch, todo, bell,
                 flowVars>>

(* _handle_retry: no iteration left, nothing found, or nobody to revise.    *)
RetryTurn ==
  /\ Inside("retry")
  /\ LET n == Caller.node
         stops == \/ "issue" \notin ResultOf(n)
                  \/ Caller.round = MaxRound
                  \/ NearestLLM(n) = {}
     IN IF stops THEN Return /\ UNCHANGED <<rows, waitVars, happened>>
        ELSE \E llm \in NearestLLM(n) : StartRevision(llm)
  /\ UNCHANGED <<graph, nodeVars, phase, pc, wave, batch, todo, bell,
                 flowVars>>

(* The result of the revision, even of one that failed, takes the place of  *)
(* the agent's; then the instant nodes below the agent run again.           *)
RevisionDone ==
  /\ Inside("revising") /\ wait = {}
  /\ results' = Store(results, Caller.llm, rows[Caller.row].text)
  /\ \E queue \in SetToSeqs(Targets(Caller.llm)) :
        LET again == IF Type(Caller.node) = "loop" THEN "loop" ELSE "recheck"
            round == Caller.round + 1
        IN Replace(<<[Frame("rerun", Caller.node) EXCEPT !.queue = queue],
                     [Caller EXCEPT !.op = again, !.round = round]>>)
  /\ UNCHANGED <<graph, level, skipped, dropped, task, rows, phase, pc, wave,
                 batch, todo, bell, waitVars, flowVars, happened>>

(* _rerun_downstream_instant_nodes, breadth first up to the asking node.    *)
RerunNode ==
  /\ Inside("rerun") /\ Caller.queue # <<>>
  /\ LET n == Head(Caller.queue)
         tail == [Caller EXCEPT !.queue = Tail(@)]
         reached(more) == <<[tail EXCEPT !.queue = @ \o more,
                                         !.seen = @ \cup {n}]>> \o Tail(stack)
         passed == n \in Caller.seen \cup LLM \cup {Caller.node}
                     \/ Type(n) = "human_gate"
     IN IF passed
        THEN /\ Replace(<<tail>>)
             /\ SkipNothing
             /\ UNCHANGED <<results, bell, applied, redone, waitVars, happened>>
        ELSE /\ \E more \in SetToSeqs(Targets(n)) :
                   ExecuteInstantNode(n, reached(more))
             /\ redone' = redone \cup {n}
  /\ UNCHANGED <<graph, level, task, rows, phase, pc, wave, batch, todo,
                 cancelled, resumed, restored, stray>>

RerunDone ==
  /\ Inside("rerun") /\ Caller.queue = <<>>
  /\ Return
  /\ UNCHANGED <<graph, nodeVars, rows, phase, pc, wave, batch, todo, bell,
                 waitVars, flowVars, happened>>

(* The checker looks at the revised result.                                 *)
StartRecheck ==
  /\ Inside("recheck")
  /\ \/ /\ StartTask(Caller.node, "recheck")
        /\ WaitFor({NewId})
        /\ Replace(<<[Caller EXCEPT !.op = "checking", !.row = NewId]>>)
        /\ UNCHANGED happened
     \/ /\ Happens("refused")
        /\ Raises
        /\ UNCHANGED <<rows, waitVars>>
  /\ UNCHANGED <<graph, nodeVars, phase, pc, wave, batch, todo, bell,
                 flowVars>>

RecheckDone ==
  /\ Inside("checking") /\ wait = {}
  /\ results' = Store(results, Caller.node, rows[Caller.row].text)
  /\ Replace(<<[Caller EXCEPT !.op = "retry"]>>)
  /\ UNCHANGED <<graph, level, skipped, dropped, task, rows, phase, pc, wave,
                 batch, todo, bell, waitVars, flowVars, happened>>
-----------------------------------------------------------------------------
(* _execute_fan_out: items start as the semaphore lets them.                *)
ItemStarts ==
  /\ Inside("fan_out") /\ Caller.round > 0
  /\ Cardinality(wait) < MaxParallel
  /\ LET fewer == [Caller EXCEPT !.round = @ - 1] IN
     \/ /\ cancelled
        /\ Replace(<<fewer>>)
        /\ UNCHANGED <<rows, waitVars, stray, happened>>
     \/ /\ ~cancelled
        /\ StartTask(Caller.node, "item")
        /\ wait' = wait \cup {NewId}
        /\ Replace(<<[fewer EXCEPT !.seen = @ \cup {NewId}]>>)
        /\ UNCHANGED <<lost, heard, stray, happened>>
     \/ /\ ~cancelled
        /\ Happens("refused")
        /\ Raises
        /\ stray' = fewer.round
        /\ UNCHANGED <<rows, waitVars>>
  /\ UNCHANGED <<graph, nodeVars, phase, pc, wave, batch, todo, bell,
                 cancelled, resumed, restored, applied, redone>>

(* gather raised, which does not stop the other items' coroutines.          *)
StrayStarts ==
  /\ stray > 0 /\ ~cancelled /\ pc # "dead"
  /\ Cardinality({i \in DOMAIN rows : /\ rows[i].role = "item"
                                      /\ rows[i].status = "running"})
       < MaxParallel
  /\ stray' = stray - 1
  /\ StartTask(CHOOSE n \in Node : Type(n) = "fan_out", "item")
  /\ UNCHANGED <<graph, nodeVars, loopVars, callVars, waitVars, cancelled,
                 resumed, restored, applied, redone, happened>>

ItemsDone ==
  /\ Inside("fan_out") /\ Caller.round = 0 /\ wait = {}
  /\ LET text == UNION {rows[i].text \ NoText : i \in Caller.seen}
     IN results' = Store(results, Caller.node, text)
  /\ Return
  /\ UNCHANGED <<graph, level, skipped, dropped, task, rows, phase, pc, wave,
                 batch, todo, bell, waitVars, flowVars, happened>>
-----------------------------------------------------------------------------
(* Users: approve_plan, approve_gate, reject_gate, cancel.                  *)
Alive == pc \notin {"new", "over", "dead"}

UserAnswers ==
  /\ \/ Inside("plan") /\ bell' = "approved"
     \/ Inside("human_gate") /\ bell' \in {"approved", "rejected"}
  /\ UNCHANGED <<graph, nodeVars, rows, loopVars, stack, waitVars, flowVars,
                 happened>>

UserCancels ==
  /\ Alive /\ ~cancelled
  /\ Happens("cancel")
  /\ cancelled' = TRUE
  /\ bell' = IF bell = "silent" THEN "cancelled" ELSE bell
  /\ UNCHANGED <<graph, nodeVars, rows, loopVars, stack, waitVars, resumed,
                 restored, stray, applied, redone>>
-----------------------------------------------------------------------------
(* What becomes of a running row, and the event that goes with it.          *)
Turned(t, status, text, event) ==
  /\ rows' = [rows EXCEPT ![t].status = status, ![t].text = text]
  /\ heard' = IF t \in wait THEN heard \cup {<<t, event>>} ELSE heard
  /\ UNCHANGED <<graph, nodeVars, loopVars, callVars, wait, lost, flowVars>>

Active(t) == rows[t].status \in {"running", "continuing"}

TakesTurns(t) == rows[t].role = "node" /\ Type(rows[t].node) = "interactive"

RowCompletes(t) ==
  /\ rows[t].status = IF TakesTurns(t) THEN "continuing" ELSE "running"
  /\ \E text \in {{}, {"issue"}}, route \in 1 .. 2 :
        /\ rows' = [rows EXCEPT ![t].status = "completed", ![t].text = text,
                                ![t].route = route]
        /\ route = 1 \/ Type(rows[t].node) = "router"
  /\ heard' = IF t \in wait THEN heard \cup {<<t, "completed">>} ELSE heard
  /\ UNCHANGED <<graph, nodeVars, loopVars, callVars, wait, lost, flowVars,
                 happened>>

(* A turn of an interactive task ends like a run that completed.            *)
TurnEnds(t) ==
  /\ Active(t) /\ TakesTurns(t)
  /\ \E text \in {{}, {"issue"}} :
        Turned(t, "awaiting_input", text, "completed")
  /\ UNCHANGED happened

RowFails(t) ==
  /\ Active(t)
  /\ Happens("failure")
  /\ Turned(t, "failed", {"FAILED"}, "failed")

(* A retryable error: the row waits for a rerun that does not come.         *)
RowRequeued(t) ==
  /\ rows[t].status = "running"
  /\ Happens("requeue")
  /\ Turned(t, "pending", {}, "failed")

RowStopped(t) ==
  /\ Active(t)
  /\ Happens("stop")
  /\ Turned(t, "cancelled", rows[t].text, "failed")

(* The user goes on; early, if the executor has not yet looked at the end   *)
(* of the turn before.                                                      *)
RowContinued(t) ==
  /\ rows[t].status = "awaiting_input"
  /\ rows' = [rows EXCEPT ![t].status = "continuing"]
  /\ IF <<t, "completed">> \in heard THEN Happens("early")
     ELSE UNCHANGED happened
  /\ UNCHANGED <<graph, nodeVars, loopVars, callVars, waitVars, flowVars>>
-----------------------------------------------------------------------------
(* The server dies; recover_stale_tasks fails what ran, since a designer    *)
(* phase has no checkpoint.                                                 *)
Gone == /\ pc' = "dead"
        /\ stack' = <<>> /\ wait' = {} /\ heard' = {} /\ stray' = 0
        /\ UNCHANGED <<graph, nodeVars, phase, wave, batch, todo, failed, lost,
                       bell, cancelled, resumed, restored, applied, redone>>

Crash ==
  /\ Alive
  /\ Happens("crash")
  /\ Gone
  /\ rows' = [t \in DOMAIN rows |->
                IF Active(t) \/ rows[t].status = "awaiting_input"
                THEN [rows[t] EXCEPT !.status = "failed", !.text = {"FAILED"}]
                ELSE rows[t]]

(* A database error in the wait of a wave leaves execute; tasks go on.      *)
FlowDies ==
  /\ pc = "waiting"
  /\ Happens("dies")
  /\ Gone
  /\ UNCHANGED rows

(* The name a node's row is given; revisions, re-checks and items have      *)
(* names made up for them.                                                  *)
RowName(n) ==
  IF graph.name[n] # "" THEN graph.name[n]
  ELSE IF Type(n) = "router" THEN "LLM Router" ELSE "Agent"

(* resume_flow, with an executor of its own.  The last row with the wave    *)
(* and the name of a node counts, if it completed with a result; whose row  *)
(* it is, is not asked.  Bound: one resumption.                             *)
LastRow(n) ==
  Max({0} \cup {t \in DOMAIN rows : /\ rows[t].role = "node"
                                    /\ level[rows[t].node] = level[n]
                                    /\ RowName(rows[t].node) = graph.name[n]})

Restorable == {n \in LLM : /\ LastRow(n) # 0
                           /\ rows[LastRow(n)].status = "completed"
                           /\ rows[LastRow(n)].text # NoText}

ResumeFlow ==
  /\ pc \in {"over", "dead"} /\ phase \in {"open", "failed"}
  /\ ~resumed
  /\ Happens("resume")
  /\ restored' = Restorable
  /\ results' = [n \in Restorable |-> rows[LastRow(n)].text]
  /\ task' = [n \in Node |-> IF n \in Restorable THEN LastRow(n) ELSE 0]
  /\ resumed' = TRUE /\ cancelled' = FALSE /\ failed' = FALSE
  /\ skipped' = {} /\ dropped' = {} /\ redone' = {}
  /\ pc' = "wave" /\ wave' = 1 /\ phase' = "open"
  /\ batch' = {} /\ todo' = {} /\ stack' = <<>> /\ bell' = "silent"
  /\ WaitFor({})
  /\ UNCHANGED <<graph, level, rows, stray, applied>>
-----------------------------------------------------------------------------
ExecutorStep ==
  \/ EnterWave \/ InstantsDone \/ NodesStarted \/ WaitWakes
  \/ WaveDone \/ RetriesDone \/ GateWakes \/ PlanWakes \/ LoopTurn
  \/ RetryTurn \/ RevisionDone \/ RerunNode \/ RerunDone \/ StartRecheck
  \/ RecheckDone \/ ItemStarts \/ StrayStarts \/ ItemsDone
  \/ \E n \in Node : RunInstant(n) \/ StartNode(n) \/ RetryNode(n)

RowEnds(t) == RowCompletes(t) \/ TurnEnds(t)

ExecutorNext ==
  \/ Execute \/ ExecutorStep
  \/ UserAnswers \/ UserCancels \/ Crash \/ FlowDies \/ ResumeFlow
  \/ \E t \in DOMAIN rows :
        RowEnds(t) \/ RowFails(t) \/ RowRequeued(t) \/ RowStopped(t)
        \/ RowContinued(t)

(* The event loop keeps running coroutines, and a run ends; users may be    *)
(* slow for ever, with starting a flow, too.                                *)
ExecutorFairness ==
  /\ WF_graphVars(ExecutorStep)
  /\ \A t \in 1 .. MaxTask : WF_graphVars(t \in DOMAIN rows /\ RowEnds(t))

ExecutorSpec ==
  ExecutorInit /\ [][ExecutorNext]_graphVars /\ ExecutorFairness
-----------------------------------------------------------------------------
(* The type invariant.                                                      *)
ExecutorTypeOK ==
  /\ level \in [Node -> 0 .. Cardinality(Node)]
  /\ DOMAIN results \subseteq Node
  /\ \A n \in DOMAIN results : results[n] \in Text
  /\ skipped \cup dropped \cup batch \cup todo \cup restored \subseteq Node
  /\ task \in [Node -> 0 .. Len(rows)]
  /\ \A t \in DOMAIN rows : /\ rows[t].status \in RowStatus
                            /\ rows[t].text \in Text \cup {NoText}
  /\ wait \cup lost \subseteq DOMAIN rows
  /\ phase \in {"none", "open", "failed", "complete"}

(* topological_sort_waves against its purpose: a graph is refused exactly   *)
(* if it has a cycle, every wire leads to a later wave, and a node is in    *)
(* the earliest wave its wires allow.                                       *)
WavesLayered ==
  LET deepest(n) == Max({0} \cup {level[f] : f \in Feeders(n)}) IN
  /\ pc = "over" /\ phase = "none" =>
       \E cycle \in (SUBSET Node) \ {{}} :
          \A n \in cycle : Feeders(n) \cap cycle # {}
  /\ phase # "none" => \A n \in Node : level[n] = deepest(n) + 1

(* _mark_skipped against its purpose: the skipped nodes are the targets of  *)
(* the ports not taken and whatever has no other feeder than skipped nodes, *)
(* however many conditionals, gates, routers and loops decided, in which    *)
(* order and how often.                                                     *)
SkipExact ==
  LET closed(s) == /\ dropped \subseteq s
                   /\ \A n \in Node :
                         Feeders(n) \in (SUBSET s) \ {{}} => n \in s
  IN /\ closed(skipped)
     /\ \A s \in SUBSET skipped : closed(s) => s = skipped

(* An agent is started by the wave loop only when every feeder has been     *)
(* skipped or is done, also after a crash: it never misses the text it was  *)
(* wired to.  It is not started if it is skipped itself, unless a node      *)
(* above it was run again for a revision: a conditional that then decides   *)
(* otherwise skips what the wave is about to start.  Excepted, here and     *)
(* below: a user who continued an interactive task before the wait had seen *)
(* its turn end, and an agent that a resumption mistook for another one of  *)
(* its wave whose row has its name.                                         *)
Done(n) ==
  IF n \in LLM
  THEN /\ task[n] # 0
       /\ rows[task[n]].node = n /\ rows[task[n]].status = "completed"
  ELSE n \in DOMAIN results \/ Type(n) = "unknown"

Mistaken(n) ==
  /\ n \in restored
  /\ \E m \in Node \ {n} : /\ level[m] = level[n]
                           /\ RowName(m) = graph.name[n]
                           /\ rows[task[n]].node = m

AgentsFed ==
  [][\A n \in LLM :
      pc = "starting" /\ task'[n] # task[n] /\ "early" \notin happened =>
        /\ n \in skipped => \E d \in redone : n \in Below({d})
        /\ \A f \in Feeders(n) :
              f \in skipped \/ Done(f) \/ Mistaken(f)]_graphVars

(* A flow that reports its phase complete has run every node that was not   *)
(* skipped, with the exceptions above, and none of the tasks it waited for  *)
(* is unfinished.                                                           *)
CompleteSound ==
  phase = "complete" /\ "early" \notin happened =>
    /\ \A n \in Node \ skipped : Done(n) \/ Mistaken(n)
    /\ \A t \in DOMAIN rows :
          rows[t].role = "revision" => rows[t].status \in Terminal \cup {"pending"}

(* Every flow ends, or waits for its user: at a gate, for the approval of a *)
(* plan, or for the next turn of a task.  One wait never ends: for a task   *)
(* put back to pending before its failure could be heard.                   *)
WaitsForUser ==
  \/ Inside("plan") \/ Inside("human_gate")
  \/ \E t \in wait : rows[t].status \in {"awaiting_input", "continuing"}

Forgotten == \E t \in wait : rows[t].status = "pending"

FlowEnds == <>[](~Alive \/ WaitsForUser \/ Forgotten)

(* The promise of _execute_plan_applier: it "waits for approve_plan to be   *)
(* called before applying".  A cancellation rings the same bell.            *)
PlanNeedsApproval == "cancelled" \notin applied
=============================================================================
