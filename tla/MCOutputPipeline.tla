-------------------------- MODULE MCOutputPipeline --------------------------
(* Short queues, so that each of them overflows. *)
EXTENDS OutputPipeline, TLC

PageQueues == {Out, End}
Mixes == {{"overflow", "stop"}, {"overflow", "input"}, {"overflow", "error"},
          {"ask", "parallel", "stop"}, {"ask", "overflow"}, {"noise"}, {"idle"}}
=============================================================================
