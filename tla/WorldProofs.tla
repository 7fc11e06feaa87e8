----------------------------- MODULE WorldProofs -----------------------------
(***************************************************************************)
(* The guards of optimised regions, for any number of regions, names and   *)
(* defining threads.  The invariant that carries the argument is about the *)
(* index: a valid cell that the world still knows is found under each name *)
(* its region assumes, so a note under any of them reaches it.             *)
(***************************************************************************)
EXTENDS World, FiniteSetTheorems, TLAPS

\* A region has a cell from its registration on, and only then can be forgotten.
CellInv == \A r \in Regions : /\ cell[r] = "none" <=> phase[r] \in {"source", "compiled"}
                              /\ r \in orphans => cell[r] # "none"
                              /\ cell[r] = "none" => hit[r] = {}

\* The index leads to registered regions, under names that they assume.
IndexInv == \A n \in Names : \A r \in index[n] :
              /\ r \in Regions /\ n \in Assumes[r]
              /\ cell[r] # "none" /\ r \notin orphans

\* A valid cell is in the index under each of its names.
ValidIndexed == \A r \in Live : cell[r] = "valid" => \A n \in Assumes[r] : r \in index[n]

\* Only a class is on its way from the emitted to the run definition.
EmittedInv == \A d \in Definers : pc[d] = "emitted" => name[d] \in Classes

Inv == /\ TypeOK /\ CellInv /\ IndexInv /\ ValidIndexed /\ EmittedInv
       /\ GuardSound /\ NotedIsOff /\ InvalidHasCause

\* The facts about the parameters, one by one.
LEMMA Parameters ==
  /\ Classes \subseteq Names /\ NoName \notin Names
  /\ \A r \in Regions : /\ Assumes[r] \subseteq Names
                        /\ Checked[r] \subseteq Assumes[r]
                        /\ Checked[r] \cap Classes = {}
  /\ IsFiniteSet(Regions) /\ MaxNotes \in Nat
BY WorldAssumption DEF WorldAssumption

\* A subset of the regions can be counted.
LEMMA Countable ==
  ASSUME NEW S, S \subseteq Regions
  PROVE  IsFiniteSet(S) /\ Cardinality(S) \in Nat
BY Parameters, FS_Subset, FS_CardinalityType

\* A fresh image has no regions, and no one defines anything.
LEMMA InitInv == Init => Inv
<1> SUFFICES ASSUME Init PROVE Inv
  OBVIOUS
<1>1. TypeOK
  BY Parameters DEF Init, TypeOK
<1>2. CellInv /\ IndexInv /\ ValidIndexed /\ EmittedInv
  BY DEF Init, CellInv, IndexInv, ValidIndexed, EmittedInv, Live
<1>3. GuardSound /\ NotedIsOff /\ InvalidHasCause
  BY DEF Init, GuardSound, NotedIsOff, InvalidHasCause, Live, TakesFastPath
<1>4. QED
  BY <1>1, <1>2, <1>3 DEF Inv

\* Steps that change none of the state that the invariant speaks of.
LEMMA StutterInv == Inv /\ UNCHANGED vars => Inv'
BY DEF Inv, vars, counters, TypeOK, CellInv, IndexInv, ValidIndexed, EmittedInv, GuardSound,
       NotedIsOff, InvalidHasCause, Live, TakesFastPath

LEMMA CompileInv == ASSUME Inv, NEW r \in Regions, CompileRegion(r) PROVE Inv'
<1>1. TypeOK'
  BY DEF Inv, TypeOK, CompileRegion, counters
<1>2. CellInv' /\ IndexInv' /\ ValidIndexed' /\ EmittedInv'
  BY DEF Inv, TypeOK, CompileRegion, counters, CellInv, IndexInv, ValidIndexed, EmittedInv, Live
<1>3. GuardSound' /\ NotedIsOff' /\ InvalidHasCause'
  BY DEF Inv, TypeOK, CompileRegion, counters, GuardSound, NotedIsOff, InvalidHasCause, Live,
         TakesFastPath
<1>4. QED
  BY <1>1, <1>2, <1>3 DEF Inv

LEMMA RegisterInv == ASSUME Inv, NEW r \in Regions, RegisterRegion(r) PROVE Inv'
<1>1. TypeOK'
  BY DEF Inv, TypeOK, RegisterRegion
<1>2. cell[r] = "none" /\ r \notin orphans
  BY DEF Inv, CellInv, RegisterRegion
<1>3. CellInv' /\ EmittedInv'
  BY DEF Inv, TypeOK, RegisterRegion, CellInv, EmittedInv
<1>4. IndexInv'
  BY <1>2 DEF Inv, TypeOK, RegisterRegion, IndexInv
<1>5. ValidIndexed'
  BY <1>2, Parameters DEF Inv, TypeOK, RegisterRegion, ValidIndexed, Live
<1>6. InvalidHasCause'
  BY DEF Inv, TypeOK, RegisterRegion, InvalidHasCause
<1>7. NotedIsOff'
  BY <1>2 DEF Inv, TypeOK, RegisterRegion, NotedIsOff, CellInv, Live
<1>8. GuardSound'
  <2> SUFFICES ASSUME NEW q \in Regions, q \in Live', TakesFastPath(q)',
                      NEW n \in Checked[q] \cap changed
               PROVE  \E d \in Definers : pc[d] = "defined" /\ name[d] = n
    BY DEF GuardSound, RegisterRegion, Live
  <2>1. CASE q = r
    BY <2>1 DEF Inv, TypeOK, RegisterRegion, TakesFastPath
  <2>2. CASE q # r
    BY <2>2 DEF Inv, TypeOK, RegisterRegion, TakesFastPath, GuardSound, Live
  <2>3. QED
    BY <2>1, <2>2
<1>9. QED
  BY <1>1, <1>3, <1>4, <1>5, <1>6, <1>7, <1>8 DEF Inv

LEMMA RecheckInv == ASSUME Inv, NEW r \in Regions, Recheck(r) PROVE Inv'
<1>1. TypeOK'
  BY DEF Inv, TypeOK, Recheck, counters
<1>2. CellInv' /\ IndexInv' /\ EmittedInv'
  BY DEF Inv, TypeOK, Recheck, counters, CellInv, IndexInv, EmittedInv
<1>3. ValidIndexed' /\ NotedIsOff'
  BY DEF Inv, TypeOK, Recheck, counters, ValidIndexed, NotedIsOff, Live
<1>4. InvalidHasCause'
  BY DEF Inv, TypeOK, Recheck, counters, InvalidHasCause, Trusted
<1>5. GuardSound'
  <2> SUFFICES ASSUME NEW q \in Regions, q \in Live', TakesFastPath(q)',
                      NEW n \in Checked[q] \cap changed
               PROVE  \E d \in Definers : pc[d] = "defined" /\ name[d] = n
    BY DEF GuardSound, Recheck, Live, counters
  <2>1. CASE q = r
    BY <2>1 DEF Inv, TypeOK, Recheck, TakesFastPath, Trusted
  <2>2. CASE q # r
    BY <2>2 DEF Inv, TypeOK, Recheck, TakesFastPath, GuardSound, Live
  <2>3. QED
    BY <2>1, <2>2
<1>6. QED
  BY <1>1, <1>2, <1>3, <1>4, <1>5 DEF Inv

\* What a note under a name does to the cells, whoever sends it.  A definition that has
\* taken effect is noted under its own name, so the note also settles GuardSound's debt.
LEMMA NoteInv ==
  ASSUME Inv, NEW n \in Names, NoteRedefinition(n), UNCHANGED <<phase, changed, orphans>>
  PROVE  /\ cell' \in [Regions -> {"none", "valid", "noted", "rejected", "panicked"}]
         /\ index' \in [Names -> SUBSET Regions] /\ summaries' \subseteq Names
         /\ invalidated' \in Nat /\ noted' \in Nat /\ invalidating' \in Nat
         /\ hit' \in [Regions -> SUBSET Names]
         /\ CellInv' /\ IndexInv' /\ ValidIndexed' /\ NotedIsOff' /\ InvalidHasCause'
         /\ \A r \in Live' : TakesFastPath(r)' => r \in Live /\ TakesFastPath(r) /\ n \notin Assumes[r]
<1> DEFINE live == {r \in index[n] : cell[r] = "valid"}
<1>1. live \subseteq Regions /\ Cardinality(live) \in Nat
  BY Countable DEF Inv, TypeOK
<1>2. \A r \in Regions : cell'[r] = IF r \in live THEN "noted" ELSE cell[r]
  BY DEF NoteRedefinition
<1>3. /\ cell' \in [Regions -> {"none", "valid", "noted", "rejected", "panicked"}]
      /\ index' \in [Names -> SUBSET Regions] /\ summaries' \subseteq Names
      /\ hit' \in [Regions -> SUBSET Names]
  BY DEF Inv, TypeOK, NoteRedefinition
<1>4. invalidated' \in Nat /\ noted' \in Nat /\ invalidating' \in Nat
  BY <1>1 DEF Inv, TypeOK, NoteRedefinition
<1>5. \A r \in live : cell[r] = "valid" /\ r \in Live /\ n \in Assumes[r]
  BY DEF Inv, IndexInv, Live
<1>6. \A r \in Live : r \in Regions /\ (cell[r] = "valid" /\ n \in Assumes[r] => r \in live)
  BY DEF Inv, ValidIndexed, Live
<1>7. Live' = Live
  BY <1>1, <1>2 DEF Live
<1>8. CellInv'
  BY <1>1, <1>2 DEF Inv, TypeOK, NoteRedefinition, CellInv
<1>9. IndexInv'
  BY <1>1, <1>2 DEF Inv, TypeOK, NoteRedefinition, IndexInv
<1>10. ValidIndexed'
  BY <1>2, <1>6, <1>7, Parameters DEF Inv, TypeOK, NoteRedefinition, ValidIndexed
<1>11. NotedIsOff'
  BY <1>2, <1>6, <1>7 DEF Inv, TypeOK, NoteRedefinition, NotedIsOff
<1>12. InvalidHasCause'
  <2>1. \A r \in live : phase[r] \in {"registered", "active"}
    BY <1>1, <1>5 DEF Inv, CellInv, TypeOK
  <2>2. \A r \in Regions : hit[r] \subseteq hit'[r] /\ (r \in live => n \in hit'[r])
    BY <1>5, <2>1 DEF Inv, TypeOK, NoteRedefinition
  <2>3. QED
    BY <1>2, <2>2 DEF Inv, TypeOK, InvalidHasCause
<1>13. \A r \in Live' : TakesFastPath(r)' => r \in Live /\ TakesFastPath(r) /\ n \notin Assumes[r]
  BY <1>2, <1>6, <1>7 DEF TakesFastPath
<1>14. QED
  BY <1>3, <1>4, <1>8, <1>9, <1>10, <1>11, <1>12, <1>13

LEMMA NoteDefinitionInv == ASSUME Inv, NEW d \in Definers, NoteDefinition(d) PROVE Inv'
<1>1. name[d] \in Names
  BY DEF Inv, TypeOK, NoteDefinition
<1>2. NoteRedefinition(name[d]) /\ UNCHANGED <<phase, changed, orphans>>
  BY DEF NoteDefinition
<1>3. TypeOK'
  BY <1>1, <1>2, NoteInv, Parameters DEF Inv, TypeOK, NoteDefinition
<1>4. CellInv' /\ IndexInv' /\ ValidIndexed' /\ NotedIsOff' /\ InvalidHasCause'
  BY <1>1, <1>2, NoteInv
<1>5. EmittedInv'
  BY DEF Inv, TypeOK, NoteDefinition, EmittedInv
<1>6. GuardSound'
  <2> SUFFICES ASSUME NEW r \in Live', TakesFastPath(r)', NEW n \in Checked[r] \cap changed
               PROVE  \E e \in Definers : pc'[e] = "defined" /\ name'[e] = n
    BY DEF GuardSound, NoteDefinition
  <2>1. r \in Live /\ TakesFastPath(r) /\ name[d] \notin Assumes[r]
    BY <1>1, <1>2, NoteInv
  <2>2. PICK e \in Definers : pc[e] = "defined" /\ name[e] = n
    BY <2>1 DEF Inv, GuardSound
  <2>3. e # d
    BY <2>1, <2>2, Parameters DEF Live
  <2>4. QED
    BY <2>2, <2>3 DEF NoteDefinition, Inv, TypeOK
<1>7. QED
  BY <1>3, <1>4, <1>5, <1>6 DEF Inv

LEMMA EmitDefclassInv ==
  ASSUME Inv, NEW d \in Definers, NEW n \in Names, EmitDefclass(d, n) PROVE Inv'
<1>2. NoteRedefinition(n) /\ UNCHANGED <<phase, changed, orphans>>
  BY DEF EmitDefclass
<1>3. TypeOK'
  BY <1>2, NoteInv, Parameters DEF Inv, TypeOK, EmitDefclass
<1>4. CellInv' /\ IndexInv' /\ ValidIndexed' /\ NotedIsOff' /\ InvalidHasCause'
  BY <1>2, NoteInv
<1>5. EmittedInv'
  BY DEF Inv, TypeOK, EmitDefclass, EmittedInv
<1>6. GuardSound'
  <2> SUFFICES ASSUME NEW r \in Live', TakesFastPath(r)', NEW m \in Checked[r] \cap changed
               PROVE  \E e \in Definers : pc'[e] = "defined" /\ name'[e] = m
    BY DEF GuardSound, EmitDefclass
  <2>1. r \in Live /\ TakesFastPath(r)
    BY <1>2, NoteInv
  <2>2. PICK e \in Definers : pc[e] = "defined" /\ name[e] = m
    BY <2>1 DEF Inv, GuardSound
  <2>3. e # d
    BY <2>2 DEF EmitDefclass
  <2>4. QED
    BY <2>2, <2>3 DEF EmitDefclass, Inv, TypeOK
<1>7. QED
  BY <1>3, <1>4, <1>5, <1>6 DEF Inv

\* A definer's steps that leave the registry alone.
LEMMA DefinerInv ==
  ASSUME Inv, NEW d \in Definers,
         \/ \E n \in Names : BeginDefinition(d, n)
         \/ Define(d)
         \/ RunDefclass(d)
  PROVE  Inv'
<1>0. /\ UNCHANGED <<phase, cell, index, orphans, hit>> /\ UNCHANGED counters
      /\ summaries' \subseteq summaries /\ changed \subseteq changed'
  BY DEF BeginDefinition, Define, RunDefclass
<1>1. TypeOK'
  <2>1. CASE \E n \in Names : BeginDefinition(d, n)
    BY <2>1, Parameters DEF Inv, TypeOK, BeginDefinition, counters
  <2>2. CASE Define(d)
    BY <2>2 DEF Inv, TypeOK, Define, counters
  <2>3. CASE RunDefclass(d)
    BY <2>3 DEF Inv, TypeOK, RunDefclass, counters
  <2>4. QED
    BY <2>1, <2>2, <2>3
<1>2. CellInv' /\ IndexInv' /\ ValidIndexed' /\ NotedIsOff' /\ InvalidHasCause'
  BY <1>0 DEF Inv, CellInv, IndexInv, ValidIndexed, NotedIsOff, InvalidHasCause, Live
<1>3. EmittedInv'
  BY DEF Inv, TypeOK, EmittedInv, BeginDefinition, Define, RunDefclass
<1>4. GuardSound'
  <2> SUFFICES ASSUME NEW r \in Regions, r \in Live, TakesFastPath(r),
                      NEW n \in Checked[r] \cap changed'
               PROVE  \E e \in Definers : pc'[e] = "defined" /\ name'[e] = n
    BY <1>0 DEF GuardSound, Live, TakesFastPath
  <2>1. CASE n \in changed
    <3>1. PICK e \in Definers : pc[e] = "defined" /\ name[e] = n
      BY <2>1 DEF Inv, GuardSound
    <3>2. e # d
      BY <3>1 DEF BeginDefinition, Define, RunDefclass
    <3>3. QED
      BY <3>1, <3>2 DEF BeginDefinition, Define, RunDefclass, Inv, TypeOK
  <2>2. CASE n \notin changed
    <3>1. n = name[d]
      BY <2>2 DEF BeginDefinition, Define, RunDefclass
    <3>2. ~RunDefclass(d)
      BY <3>1, Parameters DEF RunDefclass, Inv, EmittedInv
    <3>3. Define(d)
      BY <2>2, <3>2 DEF BeginDefinition
    <3>4. QED
      BY <3>1, <3>3 DEF Define, Inv, TypeOK
  <2>3. QED
    BY <2>1, <2>2
<1>5. QED
  BY <1>1, <1>2, <1>3, <1>4 DEF Inv

LEMMA InferInv == ASSUME Inv, NEW n \in Names, InferSummary(n) PROVE Inv'
<1>1. TypeOK'
  BY DEF Inv, TypeOK, InferSummary, counters
<1>2. QED
  BY <1>1 DEF Inv, InferSummary, CellInv, IndexInv, ValidIndexed, EmittedInv, GuardSound,
              NotedIsOff, InvalidHasCause, Live, TakesFastPath

LEMMA PanicInv == ASSUME Inv, InvalidateAllRegions PROVE Inv'
<1> DEFINE live == {r \in UNION {index[n] : n \in Names} : cell[r] = "valid"}
<1>1. live \subseteq Regions /\ Cardinality(live) \in Nat
  BY Countable DEF Inv, TypeOK
<1>2. \A r \in Regions : cell'[r] = IF r \in live THEN "panicked" ELSE cell[r]
  BY DEF InvalidateAllRegions
<1>3. TypeOK'
  BY <1>1 DEF Inv, TypeOK, InvalidateAllRegions
<1>4. CellInv' /\ IndexInv' /\ EmittedInv'
  BY <1>2 DEF Inv, TypeOK, InvalidateAllRegions, CellInv, IndexInv, EmittedInv
<1>5. Live' = Live
  BY <1>1, <1>2 DEF Live, InvalidateAllRegions
<1>6. \A r \in Live : (cell'[r] = "valid" => cell[r] = "valid" /\ Assumes[r] = {})
  <2> SUFFICES ASSUME NEW r \in Live, cell'[r] = "valid"
               PROVE  cell[r] = "valid" /\ Assumes[r] = {}
    OBVIOUS
  <2>1. cell[r] = "valid" /\ r \notin live
    BY <1>2 DEF Live
  <2>2. \A n \in Assumes[r] : n \in Names /\ r \in index[n]
    BY <2>1, Parameters DEF Inv, ValidIndexed, Live
  <2>3. QED
    BY <2>1, <2>2
<1>7. ValidIndexed' /\ NotedIsOff'
  BY <1>5, <1>6 DEF Inv, InvalidateAllRegions, ValidIndexed, NotedIsOff
<1>8. InvalidHasCause'
  BY <1>2 DEF Inv, InvalidateAllRegions, InvalidHasCause
<1>9. GuardSound'
  BY <1>5, <1>6, Parameters DEF Inv, InvalidateAllRegions, GuardSound, TakesFastPath, Live
<1>10. QED
  BY <1>3, <1>4, <1>7, <1>8, <1>9 DEF Inv

LEMMA ResetInv == ASSUME Inv, ResetWorld PROVE Inv'
<1>1. TypeOK'
  BY DEF Inv, TypeOK, ResetWorld
<1>2. Live' = {}
  BY DEF Live, ResetWorld
<1>3. QED
  BY <1>1, <1>2 DEF Inv, ResetWorld, CellInv, IndexInv, ValidIndexed, EmittedInv, GuardSound,
              NotedIsOff, InvalidHasCause

\* The invariant is inductive.
LEMMA NextInv == Inv /\ [Next]_vars => Inv'
<1> SUFFICES ASSUME Inv, [Next]_vars PROVE Inv'
  OBVIOUS
<1>1. ASSUME NEW r \in Regions, CompileRegion(r) \/ RegisterRegion(r) \/ Recheck(r) PROVE Inv'
  BY <1>1, CompileInv, RegisterInv, RecheckInv
<1>2. ASSUME NEW n \in Names, InferSummary(n) PROVE Inv'
  BY <1>2, InferInv
<1>3. ASSUME NEW d \in Definers,
             \/ \E n \in Names : BeginDefinition(d, n) \/ EmitDefclass(d, n)
             \/ Define(d) \/ NoteDefinition(d) \/ RunDefclass(d)
      PROVE  Inv'
  BY <1>3, DefinerInv, NoteDefinitionInv, EmitDefclassInv
<1>4. CASE InvalidateAllRegions \/ ResetWorld
  BY <1>4, PanicInv, ResetInv
<1>5. CASE UNCHANGED vars
  BY <1>5, StutterInv
<1>6. QED
  BY <1>1, <1>2, <1>3, <1>4, <1>5 DEF Next

LEMMA SpecInv == Spec => []Inv
BY InitInv, NextInv, PTL DEF Spec

\* World's state keeps its types.
THEOREM TypeCorrect == Spec => []TypeOK
<1>1. Inv => TypeOK
  BY DEF Inv
<1>2. QED
  BY <1>1, SpecInv, PTL

\* No region runs on methods that have been customised, but for a definition that is
\* about to be noted: %register-region-trusted-form needs no lock beyond register-region's.
THEOREM GuardsAreSound == Spec => []GuardSound
<1>1. Inv => GuardSound
  BY DEF Inv
<1>2. QED
  BY <1>1, SpecInv, PTL

\* A note under any of its names turns the guard of a registered region off for good.
THEOREM NotesReachRegions == Spec => []NotedIsOff
<1>1. Inv => NotedIsOff
  BY DEF Inv
<1>2. QED
  BY <1>1, SpecInv, PTL

\* Nothing but an assumed name, a failed second look or the panic switch turns one off.
THEOREM NothingElseInvalidates == Spec => []InvalidHasCause
<1>1. Inv => InvalidHasCause
  BY DEF Inv
<1>2. QED
  BY <1>1, SpecInv, PTL

-----------------------------------------------------------------------------
(* The counters. *)

\* The cells that count as invalidated.
Off == {r \in Live : cell[r] \in {"noted", "panicked"}}

\* StatsExact depends on the cells and the forgotten regions only.
LEMMA SameStats ==
  ASSUME StatsExact, Live' = Live, Off' = Off, registered' = registered,
         invalidated' = invalidated, invalidating' = invalidating, noted' = noted
  PROVE  StatsExact'
BY DEF StatsExact, Off

\* Cells that are turned off for the first time are counted one by one.
LEMMA CountOff ==
  ASSUME Inv, NEW live, live \subseteq Live, \A r \in live : cell[r] = "valid",
         Live' = Live, Off' = Off \cup live
  PROVE  Cardinality(Off') = Cardinality(Off) + Cardinality(live)
<1>1. Off \cap live = {}
  BY DEF Off
<1>2. IsFiniteSet(Off) /\ IsFiniteSet(live)
  BY Countable DEF Off, Live
<1>3. Cardinality(Off) \in Nat /\ Cardinality(live) \in Nat
  BY Countable DEF Off, Live
<1>4. QED
  BY <1>1, <1>2, <1>3, FS_Union, FS_EmptySet

LEMMA NoteStats ==
  ASSUME Inv, StatsExact, NEW n \in Names, NoteRedefinition(n),
         UNCHANGED <<phase, changed, orphans, registered>>
  PROVE  StatsExact'
<1> DEFINE live == {r \in index[n] : cell[r] = "valid"}
<1>1. live \subseteq Live /\ \A r \in live : cell[r] = "valid"
  BY DEF Inv, IndexInv, Live
<1>2. \A r \in Regions : cell'[r] = IF r \in live THEN "noted" ELSE cell[r]
  BY DEF NoteRedefinition
<1>3. Live' = Live
  BY <1>1, <1>2 DEF Live
<1>4. Off' = Off \cup live
  BY <1>1, <1>2, <1>3 DEF Off, Live
<1>5. Cardinality(Off') = Cardinality(Off) + Cardinality(live)
  BY <1>1, <1>3, <1>4, CountOff
<1>6. invalidated' = invalidated + Cardinality(live)
  BY DEF NoteRedefinition
<1>7. invalidating' <= noted'
  BY DEF NoteRedefinition, StatsExact, Inv, TypeOK
<1>8. QED
  BY <1>3, <1>5, <1>6, <1>7 DEF StatsExact, Off

\* Every step keeps the counters in line with the cells.
LEMMA NextStats == Inv /\ StatsExact /\ [Next]_vars => StatsExact'
<1> SUFFICES ASSUME Inv, StatsExact, [Next]_vars PROVE StatsExact'
  OBVIOUS
<1>1. ASSUME NEW r \in Regions, RegisterRegion(r) PROVE StatsExact'
  <2>1. cell[r] = "none" /\ r \notin orphans
    BY <1>1 DEF Inv, CellInv, RegisterRegion
  <2>2. Live' = Live \cup {r} /\ r \notin Live
    BY <1>1, <2>1 DEF Live, RegisterRegion, Inv, TypeOK
  <2>3. Off' = Off
    BY <1>1, <2>1, <2>2 DEF Off, RegisterRegion, Inv, TypeOK, Live
  <2>4. IsFiniteSet(Live) /\ Cardinality(Live) \in Nat
    BY Countable DEF Live
  <2>5. Cardinality(Live') = Cardinality(Live) + 1
    BY <2>2, <2>4, FS_AddElement
  <2>6. QED
    BY <1>1, <2>3, <2>5 DEF StatsExact, RegisterRegion, Off
<1>2. ASSUME NEW r \in Regions, Recheck(r) PROVE StatsExact'
  <2>1. Live' = Live
    BY <1>2 DEF Live, Recheck, Inv, TypeOK
  <2>2. Off' = Off
    BY <1>2, <2>1 DEF Off, Recheck, Inv, TypeOK, Live
  <2>3. QED
    BY <1>2, <2>1, <2>2, SameStats DEF Recheck, counters
<1>3. ASSUME UNCHANGED <<cell, orphans>>, UNCHANGED counters PROVE StatsExact'
  BY <1>3 DEF StatsExact, counters, Live
<1>4. ASSUME NEW d \in Definers, NoteDefinition(d) PROVE StatsExact'
  <2>1. name[d] \in Names
    BY <1>4 DEF Inv, TypeOK, NoteDefinition
  <2>2. QED
    BY <1>4, <2>1, NoteStats DEF NoteDefinition
<1>5. ASSUME NEW d \in Definers, NEW n \in Names, EmitDefclass(d, n) PROVE StatsExact'
  BY <1>5, NoteStats DEF EmitDefclass
<1>6. CASE InvalidateAllRegions
  <2> DEFINE live == {r \in UNION {index[n] : n \in Names} : cell[r] = "valid"}
  <2>1. live \subseteq Live /\ \A r \in live : cell[r] = "valid"
    BY DEF Inv, IndexInv, Live
  <2>2. \A r \in Regions : cell'[r] = IF r \in live THEN "panicked" ELSE cell[r]
    BY <1>6 DEF InvalidateAllRegions
  <2>3. Live' = Live
    BY <1>6, <2>1, <2>2 DEF Live, InvalidateAllRegions
  <2>4. Off' = Off \cup live
    BY <2>1, <2>2, <2>3 DEF Off, Live
  <2>5. Cardinality(Off') = Cardinality(Off) + Cardinality(live)
    BY <2>1, <2>3, <2>4, CountOff
  <2>6. /\ invalidated' = invalidated + Cardinality(live)
        /\ UNCHANGED <<registered, noted, invalidating>>
    BY <1>6 DEF InvalidateAllRegions
  <2>7. QED
    BY <2>3, <2>5, <2>6 DEF StatsExact, Off
<1>7. CASE ResetWorld
  <2>1. Live' = {}
    BY <1>7 DEF Live, ResetWorld
  <2>2. QED
    BY <1>7, <2>1, FS_EmptySet DEF StatsExact, ResetWorld
<1>8. ASSUME NEW r \in Regions, CompileRegion(r) PROVE StatsExact'
  BY <1>3, <1>8 DEF CompileRegion
<1>9. ASSUME NEW n \in Names, InferSummary(n) PROVE StatsExact'
  BY <1>3, <1>9 DEF InferSummary
<1>10. ASSUME NEW d \in Definers,
              \/ \E n \in Names : BeginDefinition(d, n)
              \/ Define(d) \/ RunDefclass(d)
       PROVE  StatsExact'
  BY <1>3, <1>10 DEF BeginDefinition, Define, RunDefclass
<1>11. CASE UNCHANGED vars
  BY <1>3, <1>11 DEF vars, counters
<1>12. QED
  BY <1>1, <1>2, <1>4, <1>5, <1>6, <1>7, <1>8, <1>9, <1>10, <1>11 DEF Next

\* world-stats is exact: the regions registered and invalidated since the last reset.
THEOREM CountersAreExact == Spec => []StatsExact
<1>1. Init => StatsExact
  <2> SUFFICES ASSUME Init PROVE StatsExact
    OBVIOUS
  <2>1. Live = {} /\ {r \in Live : cell[r] \in {"noted", "panicked"}} = {}
    BY DEF Init, Live
  <2>2. registered = 0 /\ invalidated = 0 /\ invalidating = 0 /\ noted = 0
    BY DEF Init
  <2>3. QED
    BY <2>1, <2>2, FS_EmptySet DEF StatsExact
<1>2. QED
  BY <1>1, SpecInv, NextStats, PTL DEF Spec
=============================================================================
