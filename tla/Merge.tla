------------------------------- MODULE Merge -------------------------------
(***************************************************************************)
(* merge and pipe: one arm per source takes its values and puts them on    *)
(* the one output channel.  merge counts the arms that have seen the end   *)
(* of their source, under the lock of the output channel, and the last one *)
(* closes it; pipe has one arm and no count.                               *)
(***************************************************************************)
EXTENDS Chans

VARIABLE count   \* of merge: sources whose end no arm has reported

src(i) == <<"src", i>>
out == <<"sink", 1>>

\* Mutant: the first arm to finish closes the output.
ArmEndsFirst(p) ==
  /\ IF setup.kind = "merge" THEN count' = count - 1 ELSE UNCHANGED count
  /\ Close(out)

\* The end of a source has been reached.
ArmEnds(p) ==
  IF setup.kind = "merge"
    THEN /\ count' = count - 1
         /\ IF count' = 0 THEN Close(out) ELSE UNCHANGED chanVars
    ELSE /\ IF setup.closeP THEN Close(out) ELSE UNCHANGED chanVars
         /\ UNCHANGED count

ArmTake(p) ==
  /\ pc[p] = "take"
  /\ \/ TakeBlocks(p, src(p[2])) /\ UNCHANGED bodyVars
     \/ \E v \in Answers(p, src(p[2])) :
          /\ TakeAnswers(p, src(p[2]), v)
          /\ pc' = [pc EXCEPT ![p] = IF v = Nil THEN "end" ELSE "put"]
          /\ loc' = [loc EXCEPT ![p] = v]
          /\ UNCHANGED <<todo, got>>
  /\ UNCHANGED count

\* An arm whose put is refused returns, and does not count as ended.
ArmPut(p) ==
  /\ pc[p] = "put"
  /\ \/ PutBlocks(p, out) /\ UNCHANGED pc
     \/ \E accepted \in BOOLEAN :
          /\ PutAnswers(p, out, loc[p], accepted)
          /\ pc' = [pc EXCEPT ![p] = IF accepted THEN "take" ELSE "done"]
  /\ UNCHANGED <<loc, todo, got, count>>

ArmEnd(p) ==
  /\ pc[p] = "end"
  /\ ArmEnds(p)
  /\ pc' = [pc EXCEPT ![p] = "done"]
  /\ UNCHANGED <<loc, todo, got>>

MergeStep(p) == p[1] = "arm" /\ (ArmTake(p) \/ ArmPut(p) \/ ArmEnd(p))
=============================================================================
