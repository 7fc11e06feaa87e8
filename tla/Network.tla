------------------------------ MODULE Network ------------------------------
(***************************************************************************)
(* A network that core-async.lisp builds, between threads that fill its    *)
(* sources with onto-chan and threads that take from its sinks: pipeline,  *)
(* pipeline-async, merge, pipe, a publication, or a thread that calls      *)
(* alts!!.                                                                 *)
(***************************************************************************)
EXTENDS Pipeline, Merge, Publication, Select

CONSTANT Setups

(* Which network, and what it is given.  quits is the number of values after *)
(* which a consumer closes its sink and stops, 0 for never; loaded says that *)
(* to-chan!! has made the sources; subscribed is the table of the            *)
(* publication when its first value is put.                                  *)
SetupType(s) ==
  /\ s.kind \in {"pipeline", "async", "merge", "pipe", "pub", "alts"}
  /\ {s.inOrder, s.closeP, s.loaded, s.priority, s.default} \subseteq BOOLEAN
  /\ {s.srcCap, s.sinkCap, s.sinks, s.workers, s.quits, s.calls} \subseteq Nat
  /\ \A i \in DOMAIN s.items : Range(s.items[i]) \subseteq DOMAIN Xf

ASSUME NetworkAssumption ==
  /\ \A s \in Setups : SetupType(s)
  /\ DOMAIN Xf = DOMAIN Results /\ DOMAIN Topic = DOMAIN Xf
  /\ {Nil, Error, Unresolved, Abandoned} \cap DOMAIN Xf = {}

vars == <<setup, chanVars, bodyVars, count, pubVars>>

-----------------------------------------------------------------------------
Sources(s) == DOMAIN s.items
Sinks(s) == 1 .. s.sinks

Named(role, I) == {<<role, i>> : i \in I}

\* The threads of a network that are not feeders or consumers.
InnerThreads(s) ==
  CASE s.kind = "pipeline" -> {Dispatcher, Sequencer} \cup Named("worker", 1 .. s.workers)
    [] s.kind = "async" -> {Dispatcher, Sequencer} \cup Named("worker", 1 .. s.workers)
                             \cup Named("af", DOMAIN s.items[1])
    [] s.kind \in {"merge", "pipe"} -> Named("arm", Sources(s))
    [] s.kind = "pub" -> {<<"pub", 1>>, <<"client", 1>>}
    [] s.kind = "alts" -> {<<"alts", 1>>, <<"timer", 1>>}

Threads(s) == InnerThreads(s) \cup Named("feeder", Sources(s)) \cup Named("consumer", Sinks(s))

Capacities(s) ==
  LET of(role, I, n) == [c \in Named(role, I) |-> n]
  IN  of("src", Sources(s), s.srcCap) @@ of("sink", Sinks(s), s.sinkCap)
        @@ of("jobs", {1}, s.workers) @@ of("results", {1}, s.workers)
        @@ of("out", DOMAIN s.items[1], 1) @@ of("timeout", {1}, 0)

Begins(s, p) ==
               CASE p[1] = "feeder" -> IF s.loaded THEN "done" ELSE "run"
               [] p[1] = "client" -> "run"
               [] p[1] = "af" -> "not started"
               [] p[1] = "alts" -> "first"
               [] p[1] = "timer" -> "sleep"
               [] OTHER -> "take"

ToGoThrough(s, p) == CASE p[1] = "feeder" -> s.items[p[2]]
                       [] p[1] = "client" -> s.script
                       [] p[1] = "alts" -> s.ops
                       [] OTHER -> << >>

\* The channel to-chan!! returns: it holds all of the collection, and is closed.
Loaded(s) == [NewChan(Len(s)) EXCEPT !.buf = s, !.closed = TRUE]

Init ==
  /\ setup \in Setups
  /\ ch = [c \in DOMAIN Capacities(setup) |->
             IF setup.loaded /\ c[1] = "src" THEN Loaded(setup.items[c[2]])
                                             ELSE NewChan(Capacities(setup)[c])]
  /\ call = [p \in Threads(setup) |-> "none"]
  /\ cell = [p \in Threads(setup) |-> Unresolved]
  /\ pc = [p \in Threads(setup) |-> Begins(setup, p)]
  /\ loc = [p \in Threads(setup) |-> IF p[1] \in {"dispatcher", "worker", "sequencer"} THEN NoJob ELSE Nil]
  /\ todo = [p \in Threads(setup) |-> ToGoThrough(setup, p)]
  /\ got = [p \in Threads(setup) |-> << >>]
  /\ count = Len(setup.items)
  /\ subs = setup.subscribed /\ pubLock = Nil

-----------------------------------------------------------------------------
(* The threads at both ends. *)

\* onto-chan: put the values one by one until one is refused, then close.
Feed(p) ==
  LET c == <<"src", p[2]>> IN
  /\ pc[p] = "run"
  /\ \/ todo[p] # << >> /\ PutBlocks(p, c) /\ UNCHANGED bodyVars
     \/ /\ todo[p] # << >>
        /\ \E accepted \in BOOLEAN :
             /\ PutAnswers(p, c, Head(todo[p]), accepted)
             /\ todo' = [todo EXCEPT ![p] = IF accepted THEN Tail(@) ELSE << >>]
        /\ UNCHANGED <<pc, loc, got>>
     \/ todo[p] = << >> /\ CloseThen(p, c, "done")

Quits(p) == setup.quits > 0 /\ Len(got[p]) = setup.quits

\* A user of the network who takes until the end, or closes the sink before it.
Consume(p) ==
  LET c == <<"sink", p[2]>> IN
  /\ pc[p] = "take"
  /\ \/ ~Quits(p) /\ TakeBlocks(p, c) /\ UNCHANGED bodyVars
     \/ /\ ~Quits(p)
        /\ \E v \in Answers(p, c) :
             /\ TakeAnswers(p, c, v)
             /\ IF v = Nil THEN pc' = [pc EXCEPT ![p] = "done"] /\ UNCHANGED got
                           ELSE got' = [got EXCEPT ![p] = Append(@, v)] /\ UNCHANGED pc
        /\ UNCHANGED <<loc, todo>>
     \/ Quits(p) /\ CloseThen(p, c, "quit")

Ends(p) == (p[1] = "feeder" /\ Feed(p)) \/ (p[1] = "consumer" /\ Consume(p))

Step(p) ==
  /\ \/ (Ends(p) \/ PipelineStep(p) \/ SelectStep(p)) /\ UNCHANGED <<count, pubVars>>
     \/ MergeStep(p) /\ UNCHANGED pubVars
     \/ PubStep(p) /\ UNCHANGED count
  /\ UNCHANGED setup

Next == \E p \in DOMAIN pc : Step(p)

\* As long as a thread other than a client can go on, one of them does, and alts!!, which may
\* go round for ever, does not keep the feeders from going on.
ThreadsGoOn == \E p \in DOMAIN pc : p[1] # "client" /\ Step(p)
FeedersGoOn == \E p \in DOMAIN pc : p[1] = "feeder" /\ Step(p)
Spec == Init /\ [][Next]_vars /\ WF_vars(ThreadsGoOn) /\ WF_vars(FeedersGoOn)

-----------------------------------------------------------------------------
(* Properties. *)

\* Threads sleep only in the call they are in, and nobody sleeps twice.
TypeOK ==
  /\ call \in [DOMAIN pc -> {"none", "put", "take"}]
  /\ \A c \in DOMAIN ch :
       /\ Len(ch[c].buf) <= ch[c].cap
       /\ IsInjective(ch[c].notEmpty) /\ IsInjective(ch[c].notFull)
       /\ \A p \in Range(ch[c].notEmpty) : call[p] = "take"
       /\ \A p \in Range(ch[c].notFull) : call[p] = "put"

\* What sink i has been given: the values its consumer has, was handed, and can take.
Stream(i) ==
  LET p == <<"consumer", i>>
  IN  got[p] \o (IF cell[p] \in {Unresolved, Nil} THEN << >> ELSE <<cell[p]>>) \o ch[<<"sink", i>>].buf

HasQuit(i) == pc[<<"consumer", i>>] = "quit"

\* pipeline and pipeline-async: TO is given the results of FROM's values in the order of FROM,
\* nothing for a value the transducer drops, none twice and none skipped, although the workers
\* finish in any order and any of the sleeping threads may be woken.
PipelineInOrder ==
  setup.kind \in {"pipeline", "async"} => IsPrefix(Stream(1), Expected(setup.items[1]))

FromSource(i, s) == SelectSeq(s, LAMBDA v : v \in Range(setup.items[i]))

\* What has come through from a source is a prefix of what was put there: merge, pipe and alts!!
\* drop, repeat and reorder none of a source's values, however the sources interleave.
SourcesInOrder ==
  LET taken == IF setup.kind = "alts"
                 THEN LET rs == SelectSeq(got[<<"alts", 1>>], LAMBDA r : r.ch \in Named("src", Sources(setup)))
                      IN  [k \in DOMAIN rs |-> rs[k].val]
                 ELSE Stream(1)
  IN  setup.kind \in {"merge", "pipe", "alts"} =>
        \A i \in Sources(setup) : IsPrefix(FromSource(i, taken), setup.items[i])

Sum(s) == FoldFunction(+, 0, [i \in DOMAIN s |-> Len(s[i])])

\* An output that the network has closed has been given everything: the last result of a
\* pipeline, every value of every source of merge and pipe.  Only close-p permits the close.
ClosedMeansAll ==
  (setup.kind \in {"pipeline", "async", "merge", "pipe"} /\ ch[<<"sink", 1>>].closed /\ ~HasQuit(1)) =>
    /\ setup.closeP
    /\ setup.kind \in {"pipeline", "async"} => Stream(1) = Expected(setup.items[1])
    /\ setup.kind \in {"merge", "pipe"} => Len(Stream(1)) = Sum(setup.items)

Matching(i) == SelectSeq(setup.items[1], LAMBDA v : Topic[v] = setup.topics[i])

\* A subscriber is given a run of the values of its topic, without a gap, and all of them to
\* the end when its channel is closed with the source.
SubscriberSeesRun ==
  setup.kind = "pub" =>
    \A i \in Sinks(setup) :
      LET m == Matching(i) IN
      /\ \E from_ \in 0 .. Len(m) : IsPrefix(Stream(i), SubSeq(m, from_ + 1, Len(m)))
      /\ (ch[<<"sink", i>>].closed /\ ~HasQuit(i)) => IsSuffix(Stream(i), m)

\* The values that come out of a network are those that went in, in the order of their source,
\* whichever of its threads run, sleep and are woken in between.
DeliversInOrder == TypeOK /\ PipelineInOrder /\ SourcesInOrder /\ SubscriberSeesRun

\* A channel that is not subscribed is put nothing into: when unsub has returned, no value that
\* was being dispatched follows.
UnsubscribedIsQuiet ==
  [][setup.kind = "pub" =>
       \A i \in Sinks(setup) :
         (\A t \in DOMAIN subs : ~Contains(subs[t], <<"sink", i>>)) => Len(Stream(i)') = Len(Stream(i))]_vars

\* Networks whose consumer i can count on an end: threads are woken in the order in which they
\* went to sleep (a job is lost otherwise), no transducer signals, the consumer does not quit,
\* at most one arm of a merge can be asleep on its output, nobody unsubscribes from the topic.
Promised(i) ==
  /\ setup.closeP /\ setup.inOrder /\ setup.quits = 0
  /\ setup.kind = "pipeline" => Error \notin {Xf[v] : v \in Range(setup.items[1])}
  /\ setup.kind = "merge" => setup.sinkCap >= Sum(setup.items)
  /\ setup.kind = "pub" => /\ Contains(setup.subscribed[setup.topics[i]], <<"sink", i>>)
                           /\ \A k \in DOMAIN setup.script : setup.script[k].topic \notin {setup.topics[i], Nil}
  /\ setup.kind # "alts"

\* The consumers of such a network are told the end: every thread between the source's end and
\* the sink's passes it on, and none waits for another in a circle.
EndReaches == <>(\A i \in Sinks(setup) : Promised(i) => pc[<<"consumer", i>>] = "done")

\* The calls of alts!! return as long as the channels have values: a closed or empty channel
\* elsewhere in the list, or a refused put, does not keep it from them.  (The channels here hold
\* what they are fed: poll! does not wake a put that sleeps on a full buffer.)
AltsReturn ==
  <>((setup.kind = "alts" /\ (setup.default \/ \A i \in Sources(setup) : Len(setup.items[i]) <= setup.srcCap)) =>
       Len(got[<<"alts", 1>>]) = setup.calls)
=============================================================================
