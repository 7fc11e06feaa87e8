------------------------------ MODULE Pipeline ------------------------------
(***************************************************************************)
(* pipeline and pipeline-async: a dispatcher numbers the values of FROM    *)
(* and puts each with a result channel of its own on jobs, and the result  *)
(* channel on results; workers take jobs; a sequencer takes the result     *)
(* channels in the order of dispatch and puts what they give on TO.        *)
(*                                                                         *)
(* The channels a body keeps to itself until it has filled and closed them *)
(* (in-ch, xf-ch) are not shared, so what is put there and taken again is  *)
(* part of the step that hands it on.                                      *)
(***************************************************************************)
EXTENDS Chans

CONSTANTS Xf,       \* by value: what the transducer puts in its place, Nil if nothing, or Error
          Error,    \* the transducer signals, and there is no ex-handler
          Results   \* by value: what the function of pipeline-async puts on its result-ch

from == <<"src", 1>>
to == <<"sink", 1>>
jobs == <<"jobs", 1>>
results == <<"results", 1>>
OutCh(i) == <<"out", i>>

Async == setup.kind = "async"
NoJob == [out |-> 0, val |-> Nil]

-----------------------------------------------------------------------------
(* The dispatcher. *)

Dispatcher == <<"dispatcher", 1>>

\* Mutant: the dispatcher returns at the end of FROM without closing anything.
DispatchTakeLeaves(p) ==
  /\ pc[p] = "take"
  /\ \/ TakeBlocks(p, from) /\ UNCHANGED bodyVars
     \/ \E v \in Answers(p, from) :
          /\ TakeAnswers(p, from, v)
          /\ pc' = [pc EXCEPT ![p] = IF v = Nil THEN "done" ELSE "job"]
          /\ loc' = [loc EXCEPT ![p] = [out |-> @.out + 1, val |-> v]]
          /\ UNCHANGED <<todo, got>>

DispatchTake(p) ==
  /\ pc[p] = "take"
  /\ \/ TakeBlocks(p, from) /\ UNCHANGED bodyVars
     \/ \E v \in Answers(p, from) :
          /\ TakeAnswers(p, from, v)
          /\ pc' = [pc EXCEPT ![p] = IF v = Nil THEN "closeJobs" ELSE "job"]
          /\ loc' = [loc EXCEPT ![p] = [out |-> @.out + 1, val |-> v]]
          /\ UNCHANGED <<todo, got>>

\* Put x on c, accepted or not, and go on at pc.
PutThen(p, c, x, next) ==
  /\ \/ PutBlocks(p, c) /\ UNCHANGED pc
     \/ /\ \E accepted \in BOOLEAN : PutAnswers(p, c, x, accepted)
        /\ pc' = [pc EXCEPT ![p] = next]
  /\ UNCHANGED <<loc, todo, got>>

CloseThen(p, c, next) ==
  /\ Close(c)
  /\ pc' = [pc EXCEPT ![p] = next]
  /\ UNCHANGED <<loc, todo, got>>

Dispatch(p) ==
  \/ DispatchTake(p)
  \/ pc[p] = "job" /\ PutThen(p, jobs, loc[p], "result")
  \/ pc[p] = "result" /\ PutThen(p, results, loc[p].out, "take")
  \/ pc[p] = "closeJobs" /\ CloseThen(p, jobs, "closeResults")
  \/ pc[p] = "closeResults" /\ CloseThen(p, results, "done")

-----------------------------------------------------------------------------
(* The workers. *)

Af(i) == <<"af", i>>

\* A worker begins job j.  The function of pipeline-async does its work in a thread of
\* its own; an error of the transducer unwinds the worker's thread.
StartJob(p, j) ==
  IF Async
    THEN /\ todo' = [todo EXCEPT ![Af(j.out)] = Results[j.val]]
         /\ pc' = [pc EXCEPT ![Af(j.out)] = "run"]
    ELSE /\ pc' = [pc EXCEPT ![p] = IF Xf[j.val] = Error THEN "dead" ELSE "put"]
         /\ UNCHANGED todo

WorkerTake(p) ==
  /\ pc[p] = "take"
  /\ \/ TakeBlocks(p, jobs) /\ UNCHANGED bodyVars
     \/ /\ TakeAnswers(p, jobs, Nil)
        /\ pc' = [pc EXCEPT ![p] = "done"]
        /\ UNCHANGED <<loc, todo, got>>
     \/ \E j \in Answers(p, jobs) \ {Nil} :
          /\ TakeAnswers(p, jobs, j)
          /\ StartJob(p, j)
          /\ loc' = [loc EXCEPT ![p] = j]
          /\ UNCHANGED got

Work(p) ==
  \/ WorkerTake(p)
  \/ pc[p] = "put" /\ PutThen(p, OutCh(loc[p].out), Xf[loc[p].val], "close")
  \/ pc[p] = "close" /\ CloseThen(p, OutCh(loc[p].out), "take")

\* The function of pipeline-async: puts its results on result-ch and closes it.
RunAf(p) ==
  /\ pc[p] = "run"
  /\ IF todo[p] = << >>
       THEN CloseThen(p, OutCh(p[2]), "done")
       ELSE /\ \/ PutBlocks(p, OutCh(p[2])) /\ UNCHANGED todo
               \/ /\ \E accepted \in BOOLEAN : PutAnswers(p, OutCh(p[2]), Head(todo[p]), accepted)
                  /\ todo' = [todo EXCEPT ![p] = Tail(@)]
            /\ UNCHANGED <<pc, loc, got>>

-----------------------------------------------------------------------------
(* The sequencer. *)

Sequencer == <<"sequencer", 1>>

SequencerTake(p) ==
  /\ pc[p] = "take"
  /\ \/ TakeBlocks(p, results) /\ UNCHANGED bodyVars
     \/ \E i \in Answers(p, results) :
          /\ TakeAnswers(p, results, i)
          /\ pc' = [pc EXCEPT ![p] = IF i = Nil THEN "close" ELSE "result"]
          /\ loc' = [loc EXCEPT ![p].out = i]
          /\ UNCHANGED <<todo, got>>

\* Mutant: the sequencer polls the result channel instead of waiting for it.
SequencerResultPolls(p) ==
  /\ pc[p] = "result"
  /\ \E v \in {Nil} \cup Range(ch[OutCh(loc[p].out)].buf) :
       /\ PollAnswers(OutCh(loc[p].out), v) \/ (v = Nil /\ UNCHANGED chanVars)
       /\ pc' = [pc EXCEPT ![p] = IF v = Nil THEN "take" ELSE "put"]
       /\ loc' = [loc EXCEPT ![p].val = v]
       /\ UNCHANGED <<todo, got>>

\* One value of a result channel; pipeline takes the first only.
SequencerResult(p) ==
  /\ pc[p] = "result"
  /\ LET c == OutCh(loc[p].out) IN
     \/ TakeBlocks(p, c) /\ UNCHANGED bodyVars
     \/ \E v \in Answers(p, c) :
          /\ TakeAnswers(p, c, v)
          /\ pc' = [pc EXCEPT ![p] = IF v = Nil THEN "take" ELSE "put"]
          /\ loc' = [loc EXCEPT ![p].val = v]
          /\ UNCHANGED <<todo, got>>

Sequence(p) ==
  \/ SequencerTake(p)
  \/ SequencerResult(p)
  \/ pc[p] = "put" /\ PutThen(p, to, loc[p].val, IF Async THEN "result" ELSE "take")
  \/ pc[p] = "close" /\ setup.closeP /\ CloseThen(p, to, "done")
  \/ /\ pc[p] = "close" /\ ~setup.closeP
     /\ pc' = [pc EXCEPT ![p] = "done"]
     /\ UNCHANGED <<loc, todo, got, chanVars>>

PipelineStep(p) ==
  \/ p[1] = "dispatcher" /\ Dispatch(p)
  \/ p[1] = "worker" /\ Work(p)
  \/ p[1] = "af" /\ RunAf(p)
  \/ p[1] = "sequencer" /\ Sequence(p)

-----------------------------------------------------------------------------
\* What TO should be given for the values s of FROM: nothing from the first error on.
Expected(s) ==
  LET r == [i \in DOMAIN s |-> Xf[s[i]]]
      before == SelectInSeq(r, LAMBDA x : x = Error) - 1
      good == IF before < 0 THEN r ELSE SubSeq(r, 1, before)
  IN  IF Async THEN FlattenSeq([i \in DOMAIN s |-> Results[s[i]]])
               ELSE SelectSeq(good, LAMBDA x : x # Nil)
=============================================================================
