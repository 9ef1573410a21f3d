--------------------------- MODULE MCGraphExecutor ---------------------------
(* Graphs for TLC.  Small ones of every shape, and one for each kind of     *)
(* node in the company it is used in.                                       *)
EXTENDS GraphExecutor, TLC

(* Every node has a name of its own, where nothing else is said.            *)
Names(n) == [i \in 1 .. n |-> ToString(i)]

(* Every graph of three nodes: an agent and two conditionals; cycles, too.  *)
Shapes ==
  {[type |-> 1 :> "agent" @@ 2 :> "conditional" @@ 3 :> "conditional",
    name |-> Names(3), wires |-> w] :
     w \in SUBSET {<<1, 1, 2>>, <<1, 1, 3>>, <<2, 2, 1>>, <<2, 1, 3>>,
                   <<2, 2, 3>>, <<3, 1, 2>>}}

(* Two conditionals over a common descendant, a router before them.         *)
Branches ==
  [type |-> 1 :> "router" @@ 2 :> "conditional" @@ 3 :> "conditional" @@
            4 :> "transform" @@ 5 :> "aggregator" @@ 6 :> "agent",
   name |-> Names(6),
   wires |-> {<<1, 1, 2>>, <<1, 1, 3>>, <<1, 2, 4>>, <<2, 1, 4>>, <<2, 2, 5>>,
              <<3, 1, 5>>, <<3, 2, 6>>, <<4, 1, 5>>, <<5, 1, 6>>}]

(* Roadmapper, parser, checker, plan and an agent on top.                   *)
Planning ==
  [type |-> 1 :> "agent" @@ 2 :> "transform" @@ 3 :> "checker" @@
            4 :> "plan_applier" @@ 5 :> "agent",
   name |-> Names(5),
   wires |-> {<<1, 1, 2>>, <<2, 1, 3>>, <<3, 1, 4>>, <<3, 1, 5>>}]

(* Interactive agent, gate, two ways on.                                    *)
Gated ==
  [type |-> 1 :> "interactive" @@ 2 :> "human_gate" @@ 3 :> "agent" @@
            4 :> "api_call" @@ 5 :> "task_failed",
   name |-> Names(5),
   wires |-> {<<1, 1, 2>>, <<2, 1, 3>>, <<2, 2, 4>>, <<1, 1, 5>>, <<5, 1, 4>>}]

(* Agent, transformation, loop, two ways on.                                *)
Looping ==
  [type |-> 1 :> "agent" @@ 2 :> "transform" @@ 3 :> "loop" @@
            4 :> "generator" @@ 5 :> "agent",
   name |-> Names(5),
   wires |-> {<<1, 1, 2>>, <<2, 1, 3>>, <<3, 1, 4>>, <<3, 2, 5>>}]

Fanning ==
  [type |-> 1 :> "api_call" @@ 2 :> "fan_out" @@ 3 :> "loop" @@ 4 :> "agent",
   name |-> Names(4),
   wires |-> {<<1, 1, 2>>, <<2, 1, 3>>, <<3, 1, 4>>}]

(* A loop asks for a revision on which a conditional decides again, too.    *)
Revised ==
  [type |-> 1 :> "agent" @@ 2 :> "conditional" @@ 3 :> "transform" @@
            4 :> "loop" @@ 5 :> "agent",
   name |-> Names(5),
   wires |-> {<<1, 1, 2>>, <<1, 1, 3>>, <<3, 1, 4>>, <<2, 2, 5>>}]

(* Two agents of one wave whose rows have the same name, given or not; a     *)
(* node of a type the executor does not know.                                *)
Namesakes ==
  {[type |-> 1 :> "agent" @@ 2 :> "agent" @@ 3 :> "agent" @@ 4 :> "unknown",
    name |-> 1 :> "Agent" @@ 2 :> other @@ 3 :> "3" @@ 4 :> "4",
    wires |-> {<<1, 1, 3>>, <<2, 1, 3>>, <<1, 1, 4>>}] :
     other \in {"", "Agent"}}

AllGraphs == Shapes \cup Namesakes \cup {Branches, Planning, Gated, Looping,
                                        Revised, Fanning}

Mixes == {{"failure", "resume", "raise"}, {"requeue", "stop"},
          {"crash", "resume"}, {"dies", "resume"}, {"cancel", "resume"},
          {"early"}, {"refused", "resume"}}
=============================================================================
