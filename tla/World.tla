------------------------------- MODULE World -------------------------------
(***************************************************************************)
(* world.lisp: optimised regions of compiled code in a live image.         *)
(*                                                                         *)
(* A region is emitted twice, behind a guard that reads the car of its     *)
(* validity cell.  It is compiled (the compiler looks at the method        *)
(* tables), later loaded (register-region allocates the cell and indexes   *)
(* it under the names the conversion assumed; the emitted form then looks  *)
(* at the method tables again, outside of the lock), and then entered any  *)
(* number of times.  Other threads evaluate definitions meanwhile: the     *)
(* emitted code of a defn or defmethod first takes effect and then calls   *)
(* note-redefinition; that of a defclass does so in the other order, when  *)
(* it is emitted.                                                          *)
(*                                                                         *)
(* A name is a definition's name; changed are the names whose definition   *)
(* is not the one the conversions rely on.                                 *)
(***************************************************************************)
EXTENDS Naturals, FiniteSets

CONSTANTS Names, Regions, Definers,
          Classes,    \* the names that defclass defines
          Assumes,    \* region -> the names it is registered under
          Checked,    \* region -> those whose methods are looked at again at load time
          Inferred,   \* region -> those that it knows from an inferred summary
          NoName,
          MaxNotes    \* bound: calls of note-redefinition

ASSUME WorldAssumption ==
  /\ Classes \subseteq Names /\ NoName \notin Names
  /\ Assumes \in [Regions -> SUBSET Names]
  /\ Checked \in [Regions -> SUBSET (Names \ Classes)]
  /\ Inferred \in [Regions -> SUBSET Names]
  /\ \A r \in Regions : Checked[r] \cup Inferred[r] \subseteq Assumes[r]
  /\ MaxNotes \in Nat /\ IsFiniteSet(Regions)

VARIABLES phase,      \* "source", "compiled", "registered", "active", by region
          cell,       \* a region's cell: "none", "valid", or by what it became invalid
          index,      \* *region-deps*: name -> regions
          summaries,  \* the names in *inferred-summaries*
          changed,    \* the names whose definition has been replaced
          pc, name,   \* what a definer is doing, and with which name
          registered, invalidated, noted, invalidating,  \* the four counters
          orphans,    \* the regions that reset-world has forgotten: history
          hit         \* the assumed names noted since a region's registration: history

vars == <<phase, cell, index, summaries, changed, pc, name,
          registered, invalidated, noted, invalidating, orphans, hit>>

counters == <<registered, invalidated, noted, invalidating>>

Init == /\ phase = [r \in Regions |-> "source"]
        /\ cell = [r \in Regions |-> "none"]
        /\ index = [n \in Names |-> {}]
        /\ summaries = {} /\ changed = {}
        /\ pc = [d \in Definers |-> "idle"]
        /\ name = [d \in Definers |-> NoName]
        /\ registered = 0 /\ invalidated = 0 /\ noted = 0 /\ invalidating = 0
        /\ orphans = {} /\ hit = [r \in Regions |-> {}]

-----------------------------------------------------------------------------
(* The life of a region. *)

\* %kind-trusted-p: none of the operations has been customised.
Trusted(r) == Checked[r] \cap changed = {}

\* A region is converted if its operations are trusted and its helpers summarised.
CompileRegion(r) ==
  /\ phase[r] = "source"
  /\ Trusted(r)
  /\ Inferred[r] \subseteq summaries
  /\ phase' = [phase EXCEPT ![r] = "compiled"]
  /\ UNCHANGED <<cell, index, summaries, changed, pc, name, counters, orphans, hit>>

\* Mutant: the cell is indexed under the first of its names only.
RegisterRegionUnderOne(r) ==
  /\ phase[r] = "compiled"
  /\ phase' = [phase EXCEPT ![r] = IF Checked[r] = {} THEN "active" ELSE "registered"]
  /\ cell' = [cell EXCEPT ![r] = "valid"]
  /\ index' = LET n == CHOOSE n \in Assumes[r] : TRUE
              IN  [index EXCEPT ![n] = @ \cup {r}]
  /\ registered' = registered + 1
  /\ UNCHANGED <<summaries, changed, pc, name, invalidated, noted, invalidating, orphans, hit>>

\* A region without trust checks is in use as soon as it is registered.
RegisterRegion(r) ==
  /\ phase[r] = "compiled"
  /\ phase' = [phase EXCEPT ![r] = IF Checked[r] = {} THEN "active" ELSE "registered"]
  /\ cell' = [cell EXCEPT ![r] = "valid"]
  /\ index' = [n \in Names |-> IF n \in Assumes[r] THEN index[n] \cup {r} ELSE index[n]]
  /\ registered' = registered + 1
  /\ UNCHANGED <<summaries, changed, pc, name, invalidated, noted, invalidating, orphans, hit>>

\* Mutant: the verdict of compile time is taken for the one of load time.
RecheckNothing(r) ==
  /\ phase[r] = "registered"
  /\ phase' = [phase EXCEPT ![r] = "active"]
  /\ UNCHANGED <<cell, index, summaries, changed, pc, name, counters, orphans, hit>>

\* The second half of the load-time form: the trust check, and the plain store.
Recheck(r) ==
  /\ phase[r] = "registered"
  /\ phase' = [phase EXCEPT ![r] = "active"]
  /\ cell' = IF cell[r] = "valid" /\ ~Trusted(r) THEN [cell EXCEPT ![r] = "rejected"] ELSE cell
  /\ UNCHANGED <<index, summaries, changed, pc, name, counters, orphans, hit>>

\* What the guard of an emitted region reads.
TakesFastPath(r) == phase[r] = "active" /\ cell[r] = "valid"

-----------------------------------------------------------------------------
(* Definitions. *)

\* compile-form of a function definition caches what it inferred about it.
InferSummary(n) ==
  /\ n \notin Classes \cup summaries
  /\ summaries' = summaries \cup {n}
  /\ UNCHANGED <<phase, cell, index, changed, pc, name, counters, orphans, hit>>

NoteRedefinition(n) ==
  LET live == {r \in index[n] : cell[r] = "valid"}
  IN  /\ noted < MaxNotes
      /\ noted' = noted + 1
      /\ summaries' = summaries \ {n}
      /\ invalidating' = IF index[n] = {} THEN invalidating ELSE invalidating + 1
      /\ cell' = [r \in Regions |-> IF r \in live THEN "noted" ELSE cell[r]]
      /\ invalidated' = invalidated + Cardinality(live)
      /\ index' = [index EXCEPT ![n] = {}]
      /\ hit' = [r \in Regions |-> IF phase[r] \in {"registered", "active"} /\ n \in Assumes[r]
                                     THEN hit[r] \cup {n} ELSE hit[r]]

\* The code of a definition: forget the summary, define, note; three steps.
BeginDefinition(d, n) ==
  /\ pc[d] = "idle" /\ n \notin Classes
  /\ pc' = [pc EXCEPT ![d] = "evaluating"]
  /\ name' = [name EXCEPT ![d] = n]
  /\ summaries' = summaries \ {n}
  /\ UNCHANGED <<phase, cell, index, changed, counters, orphans, hit>>

Define(d) ==
  /\ pc[d] = "evaluating"
  /\ pc' = [pc EXCEPT ![d] = "defined"]
  /\ changed' = changed \cup {name[d]}
  /\ UNCHANGED <<phase, cell, index, summaries, name, counters, orphans, hit>>

NoteDefinition(d) ==
  /\ pc[d] = "defined"
  /\ NoteRedefinition(name[d])
  /\ pc' = [pc EXCEPT ![d] = "idle"]
  /\ name' = [name EXCEPT ![d] = NoName]
  /\ UNCHANGED <<phase, changed, registered, orphans>>

\* emit-defclass of a known class notes it; the class changes when the code is run.
EmitDefclass(d, n) ==
  /\ pc[d] = "idle" /\ n \in Classes
  /\ NoteRedefinition(n)
  /\ pc' = [pc EXCEPT ![d] = "emitted"]
  /\ name' = [name EXCEPT ![d] = n]
  /\ UNCHANGED <<phase, changed, registered, orphans>>

RunDefclass(d) ==
  /\ pc[d] = "emitted"
  /\ pc' = [pc EXCEPT ![d] = "idle"]
  /\ name' = [name EXCEPT ![d] = NoName]
  /\ changed' = changed \cup {name[d]}
  /\ UNCHANGED <<phase, cell, index, summaries, counters, orphans, hit>>

-----------------------------------------------------------------------------
(* The panic switch, and the testing helper. *)

InvalidateAllRegions ==
  LET live == {r \in UNION {index[n] : n \in Names} : cell[r] = "valid"}
  IN  /\ cell' = [r \in Regions |-> IF r \in live THEN "panicked" ELSE cell[r]]
      /\ invalidated' = invalidated + Cardinality(live)
      /\ index' = [n \in Names |-> {}]
      /\ summaries' = {}
      /\ UNCHANGED <<phase, changed, pc, name, registered, noted, invalidating, orphans, hit>>

\* The cells keep their state, but nothing leads to them any more.  (Bound: the world
\* is not reset again once that has cut off a region.)
ResetWorld ==
  /\ orphans = {}
  /\ index' = [n \in Names |-> {}]
  /\ summaries' = {}
  /\ registered' = 0 /\ invalidated' = 0 /\ noted' = 0 /\ invalidating' = 0
  /\ orphans' = {r \in Regions : cell[r] # "none"}
  /\ UNCHANGED <<phase, cell, changed, pc, name, hit>>

Next == \/ \E r \in Regions : CompileRegion(r) \/ RegisterRegion(r) \/ Recheck(r)
        \/ \E n \in Names : InferSummary(n)
        \/ \E d \in Definers : \/ \E n \in Names : BeginDefinition(d, n) \/ EmitDefclass(d, n)
                               \/ Define(d) \/ NoteDefinition(d) \/ RunDefclass(d)
        \/ InvalidateAllRegions \/ ResetWorld

Spec == Init /\ [][Next]_vars

-----------------------------------------------------------------------------
(* Properties. *)

Live == {r \in Regions : cell[r] # "none"} \ orphans

(* Types. *)
TypeOK ==
  /\ phase \in [Regions -> {"source", "compiled", "registered", "active"}]
  /\ cell \in [Regions -> {"none", "valid", "noted", "rejected", "panicked"}]
  /\ index \in [Names -> SUBSET Regions]
  /\ summaries \subseteq Names /\ changed \subseteq Names
  /\ pc \in [Definers -> {"idle", "evaluating", "defined", "emitted"}]
  /\ name \in [Definers -> Names \cup {NoName}]
  /\ \A d \in Definers : pc[d] = "idle" <=> name[d] = NoName
  /\ registered \in Nat /\ invalidated \in Nat /\ noted \in Nat /\ invalidating \in Nat
  /\ orphans \subseteq Regions /\ hit \in [Regions -> SUBSET Names]

\* The operations that a conversion bypasses keep the methods it relies on while
\* its guard lets it: whenever they are customised before, during or after the load,
\* either the second look or note-redefinition turns the guard off; only a definition
\* that has taken effect and is about to be noted may be ahead of it.  This is the
\* argument of %register-region-trusted-form's docstring.
GuardSound ==
  \A r \in Live : TakesFastPath(r) =>
    \A n \in Checked[r] \cap changed : \E d \in Definers : pc[d] = "defined" /\ name[d] = n

\* A redefinition that has been noted since the region was registered has turned its
\* guard off, under whichever of its names, however often cells and index entries
\* have been removed since.
NotedIsOff == \A r \in Live : cell[r] = "valid" => hit[r] = {}

\* "Invalidates exactly the regions whose conversion assumed NAME": a guard is off
\* because of an assumed name, a failed second look or the panic switch.
InvalidHasCause ==
  \A r \in Regions : /\ cell[r] = "noted" => hit[r] # {}
                     /\ cell[r] = "rejected" => Checked[r] \cap changed # {}

\* What world-stats says: a region counts as invalidated once, however many of its
\* names are redefined; those that the second look rejected do not count.
StatsExact ==
  /\ registered = Cardinality(Live)
  /\ invalidated = Cardinality({r \in Live : cell[r] \in {"noted", "panicked"}})
  /\ invalidating <= noted
=============================================================================
