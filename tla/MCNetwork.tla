----------------------------- MODULE MCNetwork -----------------------------
(***************************************************************************)
(* Instances of Network.  The values are numbers, topics are odd and even; *)
(* the transducer maps 1 and 3, drops 2 and signals for 4; the function of *)
(* pipeline-async gives two results for 1, one for 3 and none for others.  *)
(***************************************************************************)
EXTENDS Network

MCXf == <<11, Nil, 13, Error>>
MCResults == << <<11, 12>>, << >>, <<13>>, << >> >>
MCTopic == <<1, 0, 1, 0>>

Base == [kind |-> "pipe", inOrder |-> TRUE, closeP |-> TRUE, loaded |-> FALSE, items |-> << <<1, 2, 3>> >>,
         srcCap |-> 1, sinkCap |-> 1, sinks |-> 1, workers |-> 2, quits |-> 0,
         script |-> << >>, subscribed |-> [t \in {0, 1} |-> << >>], topics |-> <<0, 1, 1>>,
         ops |-> << >>, priority |-> FALSE, default |-> FALSE, calls |-> 0]

Line == [Base EXCEPT !.kind = "pipeline", !.loaded = TRUE]

Pipelines ==
  {Line,
   [Line EXCEPT !.items = << <<1, 3>> >>, !.inOrder = FALSE, !.closeP = FALSE],
   [Line EXCEPT !.items = << <<4, 3>> >>],
   [Line EXCEPT !.items = << <<1, 3>> >>, !.quits = 1],
   [Line EXCEPT !.items = << <<1, 3>> >>, !.kind = "async", !.workers = 1],
   [Line EXCEPT !.items = << <<2, 3>> >>, !.kind = "async", !.inOrder = FALSE]}

Merges ==
  {[Base EXCEPT !.kind = "merge", !.items = << <<1, 2>>, <<3, 4>> >>, !.sinkCap = 4],
   [Base EXCEPT !.kind = "merge", !.items = << <<1, 2>>, <<3, 4>> >>, !.inOrder = FALSE],
   [Base EXCEPT !.kind = "merge", !.items = << <<1, 2>>, <<3, 4>> >>, !.sinkCap = 0],
   [Base EXCEPT !.kind = "merge", !.items = << <<1>>, <<3>>, <<4>> >>, !.quits = 1],
   [Base EXCEPT !.kind = "pipe", !.items = << <<1, 2, 3, 4>> >>],
   [Base EXCEPT !.kind = "pipe", !.closeP = FALSE],
   [Base EXCEPT !.kind = "pipe", !.items = << <<1, 2, 3, 4>> >>, !.quits = 1]}

Sink(i) == <<"sink", i>>

Publications ==
  {[Base EXCEPT !.kind = "pub", !.items = << <<1, 2, 3>> >>, !.sinks = 3,
      !.subscribed = [t \in {0, 1} |-> IF t = 0 THEN <<Sink(1)>> ELSE <<Sink(2)>>],
      !.script = <<[op |-> "sub", topic |-> 1, ch |-> Sink(3)], [op |-> "unsub", topic |-> 1, ch |-> Sink(3)]>>],
   [Base EXCEPT !.kind = "pub", !.items = << <<1, 3>> >>, !.sinks = 3, !.inOrder = FALSE,
      !.subscribed = [t \in {0, 1} |-> IF t = 0 THEN <<Sink(1)>> ELSE <<Sink(3), Sink(2)>>],
      !.script = <<[op |-> "unsub-all", topic |-> 1], [op |-> "unsub-all", topic |-> Nil]>>]}

Take(c) == [op |-> "take", ch |-> c]
Choice == [Base EXCEPT !.kind = "alts", !.items = << <<1, 2>>, <<3>> >>, !.srcCap = 2, !.calls = 3,
             !.ops = <<Take(<<"timeout", 1>>), Take(<<"src", 1>>), Take(<<"src", 2>>)>>]

Selects ==
  {Choice, [Choice EXCEPT !.priority = TRUE], [Choice EXCEPT !.default = TRUE, !.srcCap = 1],
   [Choice EXCEPT !.ops = Append(@, [op |-> "put", ch |-> Sink(1), val |-> 9]), !.quits = 1]}

AllSetups == Pipelines \cup Merges \cup Publications \cup Selects
=============================================================================
