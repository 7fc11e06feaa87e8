------------------------------- MODULE Schema -------------------------------
(***************************************************************************)
(* Persistent objects and the versions of their class, src/src/            *)
(* persistence.lisp: a class is redefined while objects of it exist; an    *)
(* object is migrated when it is first used after that.  The first         *)
(* NativeLimit slots of a class are CLOS slots, the others live in a       *)
(* vector, by position.  A slot may name the slot it renames, its alias.   *)
(*                                                                         *)
(* A redefinition is three steps (the snapshot and the counter, the reset  *)
(* of the keyword cache, the new maps and layout), a keyword lookup that   *)
(* misses the cache is two.  Objects are not used between the last two     *)
(* steps of a redefinition.  One object variable holds the newest result   *)
(* of the functional updates made through it.  Metadata is left out.       *)
(***************************************************************************)
EXTENDS Integers, Sequences, SequencesExt, FiniteSets

CONSTANTS Names,          \* slot names; a keyword is the name it spells
          None,           \* no alias, no slot, no cached lookup
          Initform,       \* the names whose slots are defined with an initform
          NativeLimit,    \* +native-slot-limit+
          Schemas,        \* slot lists a defclass may give
          Objects, Readers,
          Keywords,       \* the keywords that are looked up
          MaxVersions,    \* bound on the definitions of the class
          MaxCalls        \* bound on the updates and lookups

ASSUME SchemaAssumption ==
  /\ None \notin Names /\ Initform \subseteq Names
  /\ Keywords \subseteq Names
  /\ NativeLimit \in Nat \ {0} /\ MaxVersions \in Nat \ {0} /\ MaxCalls \in Nat
  /\ \A S \in Schemas :
       /\ S \in Seq([name : Names, alias : Names \cup {None}])
       /\ \A i, j \in DOMAIN S : S[i].name = S[j].name => i = j

VARIABLES
  defs,        \* the definitions so far; snapshot v holds the aliases of defs[v + 1]
  counter,     \* %version-counter
  overflow,    \* %overflow-indices, which a narrow definition leaves as it was
  kwMap,       \* %keyword-to-slot
  cache,       \* %last-keyword-lookup
  phase,       \* how far a redefinition is
  calls,       \* the number of updates and lookups so far
  obj,         \* the objects
  look,        \* the lookup each reader is in: keyword and slot name read
  means,       \* history: what every slot of an object should hold
  careful,     \* history: the object met no redefinition or call that is known to
               \*   lose values, and no update under the old name of a slot
  overlap      \* history: a lookup read the maps before a redefinition replaced them

vars == <<defs, counter, overflow, kwMap, cache, phase, calls, obj, look, means, careful, overlap>>

-----------------------------------------------------------------------------
(* Definitions of the class. *)

NameSet(S) == {S[i].name : i \in DOMAIN S}
Wide(S) == Len(S) > NativeLimit
Pos(S, n) == CHOOSE i \in DOMAIN S : S[i].name = n
NativeSeq(S) == [i \in 1..(IF Wide(S) THEN NativeLimit ELSE Len(S)) |-> S[i].name]
Native(S) == {NativeSeq(S)[i] : i \in DOMAIN NativeSeq(S)}

(* %slot-aliases: the slots that have an alias, and it. *)
Aliases(S) == [n \in {m \in NameSet(S) : S[Pos(S, m)].alias # None} |-> S[Pos(S, n)].alias]

(* Overflow slots are numbered from 1 here. *)
OverflowIndices(S) == [n \in NameSet(S) \ Native(S) |-> Pos(S, n) - NativeLimit]

(* A slot's own keyword, else the first slot that has the keyword's name as alias. *)
KeywordMap(S) ==
  [k \in Names |->
     IF k \in NameSet(S) THEN k
     ELSE LET i == SelectInSeq(S, LAMBDA s : s.alias = k)
          IN  IF i = 0 THEN None ELSE S[i].name]

Current == defs[Len(defs)]

-----------------------------------------------------------------------------
(* Objects.  A value is the name it was written to and a mark: 0 at birth,  *)
(* 1 by an update, 2 for the value of an initform.                          *)

Values == Names \X (0..2)
Unbound == <<None, 0>>      \* the unbound marker, and :unbound in a vector
Broken == <<None, 1>>       \* reading the slot signals an error

(* An object has the layout (the number of a definition) and the CLOS slots *)
(* it was given last, its %schema-version, its %persistent-vector ("unset"  *)
(* is an unbound CLOS slot), and whether a thread owns it as a transient.   *)
NoObject == [layout |-> 0]
Failed == [layout |-> -1]   \* an operation signalled an error

Blank == [n \in Names |-> Unbound]
Exists(o) == obj[o] \notin {NoObject, Failed}
UpToDate(o) == Exists(o) /\ obj[o].layout = Len(defs)

(* slot-value of a slot of the current definition or of a name that a stale *)
(* index map still holds (slot-missing).                                    *)
Slot(x, n) ==
  IF n \in Native(defs[x.layout]) THEN x.native[n]
  ELSE IF n \notin DOMAIN overflow THEN Unbound
  ELSE IF x.vecState = "nil" THEN Unbound
  ELSE IF x.vecState = "unset" \/ overflow[n] > Len(x.vec) THEN Broken
  ELSE x.vec[overflow[n]]

Cached(k) == cache # None /\ cache[1] = k

(* Mutant: whatever is cached is a hit. *)
SlotNameAnyHit(k) == IF cache # None THEN cache[2] ELSE kwMap[k]

SlotName(k) == IF Cached(k) THEN cache[2] ELSE kwMap[k]

Idle == phase \in {"stable", "snapshot"}

-----------------------------------------------------------------------------
(* A redefinition. *)

Init ==
  /\ \E S \in Schemas : /\ defs = <<S>>
                        /\ overflow = OverflowIndices(S)
                        /\ kwMap = KeywordMap(S)
  /\ counter = 0 /\ calls = 0
  /\ cache = None
  /\ phase = "stable"
  /\ obj = [o \in Objects |-> NoObject]
  /\ look = [r \in Readers |-> None]
  /\ means = [o \in Objects |-> Blank]
  /\ careful = [o \in Objects |-> TRUE]
  /\ overlap = FALSE

(* reinitialize-instance :before: the snapshot of the version that ends. *)
Snapshot ==
  /\ phase = "stable"
  /\ Len(defs) < MaxVersions
  /\ counter' = counter + 1
  /\ phase' = "snapshot"
  /\ UNCHANGED <<calls, defs, overflow, kwMap, cache, obj, look, means, careful, overlap>>

(* Mutant: the cache is kept. *)
ResetCacheNot ==
  /\ phase = "snapshot"
  /\ phase' = "reset"
  /\ UNCHANGED <<calls, defs, counter, overflow, kwMap, cache, obj, look, means, careful, overlap>>

(* compute-slots resets the cache first ... *)
ResetCache ==
  /\ phase = "snapshot"
  /\ cache' = None
  /\ phase' = "reset"
  /\ UNCHANGED <<calls, defs, counter, overflow, kwMap, obj, look, means, careful, overlap>>

(* What the rename declarations of S promise for the slots of an object.    *)
Promised(m, S) ==
  [n \in Names |->
     IF n \in NameSet(Current) \cap NameSet(S) THEN m[n]
     ELSE IF n \in DOMAIN Aliases(S) /\ Aliases(S)[n] \in NameSet(Current) THEN m[Aliases(S)[n]]
     ELSE IF n \in Native(S) \cap Initform THEN <<n, 2>>
     ELSE Unbound]

(* A redefinition that loses nothing: no alias is a slot, or is still in    *)
(* the index map of a class that was wide; a kept slot stays where it is,   *)
(* with its alias; a new slot has a name never used and, in the vector, a   *)
(* place never used; a renamed slot has no initform, stays in the vector at *)
(* its place or was native, and an alias it has itself is new.              *)
Place(S, n) == IF n \in Native(S) THEN 0 ELSE OverflowIndices(S)[n]
AliasOf(S, n) == S[Pos(S, n)].alias
Used(n) == \E v \in DOMAIN defs : \E i \in DOMAIN defs[v] : n \in {defs[v][i].name, defs[v][i].alias}
PlaceUsed(p) == \E v \in DOMAIN defs : Len(defs[v]) >= NativeLimit + p
Fresh(n) == \A v \in 1..(Len(defs) - 1) : n \notin NameSet(defs[v])

Sane(S) == \A n \in NameSet(S) :
             /\ AliasOf(S, n) \notin NameSet(S)
             /\ ~Wide(S) => AliasOf(S, n) \notin DOMAIN overflow

KeepsSlot(S, n) == Place(S, n) = Place(Current, n) /\ AliasOf(S, n) = AliasOf(Current, n)
AddsSlot(S, n) == ~Used(n) /\ (n \in Native(S) \/ ~PlaceUsed(Place(S, n)))
RenamesSlot(S, n, a) ==
  /\ ~Used(n) /\ n \notin Initform
  /\ a \in NameSet(Current) \ (NameSet(S) \cup Initform)
  /\ AliasOf(Current, a) = None \/ Fresh(a)
  /\ \/ Place(Current, a) = 0 /\ (Place(S, n) = 0 \/ ~PlaceUsed(Place(S, n)))
     \/ Place(Current, a) = Place(S, n)
LosesNothing(S) ==
  /\ Sane(S)
  /\ \A n \in NameSet(S) :
    \/ n \in NameSet(Current) /\ KeepsSlot(S, n)
    \/ n \notin NameSet(Current) /\ AliasOf(S, n) = None /\ AddsSlot(S, n)
    \/ n \notin NameSet(Current) /\ AliasOf(S, n) # None /\ RenamesSlot(S, n, AliasOf(S, n))

(* An object without a vector slot, or with a shorter vector, is not fit    *)
(* for a wide definition: using it signals an error, against                *)
(* schema-evolution-edge-cases.md:170, "correctness is preserved".          *)
Fits(x, S) == Wide(S) => \/ x.vecState = "nil"
                         \/ x.vecState = "vector" /\ Len(S) - NativeLimit <= Len(x.vec)

(* ... and then sets the maps; the class gets its layout, and instances are *)
(* obsolete unless the CLOS slots are the same, in the same order: a narrow *)
(* class has its internal slots before the user's, a wide one after them.   *)
SameLayout(S) == NativeSeq(Current) = NativeSeq(S) /\ (Wide(Current) <=> Wide(S))

NewLayout ==
  /\ phase = "reset"
  /\ \E S \in Schemas :
       /\ defs' = Append(defs, S)
       /\ kwMap' = KeywordMap(S)
       /\ overflow' = IF Wide(S) THEN OverflowIndices(S) ELSE overflow
       /\ obj' = [o \in Objects |->
                    IF UpToDate(o) /\ SameLayout(S)
                    THEN [obj[o] EXCEPT !.layout = Len(defs) + 1] ELSE obj[o]]
       /\ means' = [o \in Objects |-> IF Exists(o) THEN Promised(means[o], S) ELSE means[o]]
       /\ careful' = [o \in Objects |-> /\ careful[o]
                                        /\ Exists(o) => LosesNothing(S) /\ Fits(obj[o], S)]
  /\ overlap' = (overlap \/ \E r \in Readers : look[r] # None)
  /\ phase' = "stable"
  /\ UNCHANGED <<counter, cache, look, calls>>

-----------------------------------------------------------------------------
(* update-instance-for-redefined-class :after. *)

(* The aliases of the current definition, chased through every snapshot     *)
(* newer than the object's version.                                         *)
Chase(f, v) == LET A == Aliases(defs[v + 1])
               IN  [n \in DOMAIN f |-> IF f[n] \in DOMAIN A THEN A[f[n]] ELSE f[n]]

(* Mutants: the chain is not followed; it is followed one version too far. *)
ComposedOneHop(birth) == Aliases(Current)

Composed(birth) ==
  LET chased[v \in Nat] == IF v >= counter THEN Aliases(Current) ELSE Chase(chased[v + 1], v)
  IN  chased[birth + 1]

Migrated(x) ==
  LET old == Native(defs[x.layout])
      new == Native(Current)
      plist == {n \in old \ new : x.native[n] # Unbound}
      \* CLOS keeps the shared slots and runs the initforms of the added ones
      kept == [n \in Names |-> IF n \in old \cap new THEN x.native[n]
                               ELSE IF n \in (new \ old) \cap Initform THEN <<n, 2>>
                               ELSE Unbound]
      from == Composed(x.stamp)
      found == {n \in DOMAIN from : from[n] \in plist}
      toVec == found \cap DOMAIN overflow
      toNative == {n \in found \ toVec : kept[n] = Unbound}
      At(i) == LET ns == {n \in toVec : overflow[n] = i}
               IN  IF ns # {} THEN x.native[from[CHOOSE n \in ns : TRUE]]
                   ELSE IF i <= Len(x.vec) THEN x.vec[i]
                   ELSE Unbound
      base == [x EXCEPT !.layout = Len(defs), !.stamp = counter,
                        !.native = [n \in Names |-> IF n \in toNative THEN x.native[from[n]] ELSE kept[n]]]
  IN  IF toVec = {} THEN base
      ELSE IF x.vecState = "unset" THEN Failed
      ELSE [base EXCEPT !.vecState = "vector",
                        !.vec = [i \in 1..Cardinality(DOMAIN overflow) |-> At(i)]]

Migrate(o) ==
  /\ Idle
  /\ Exists(o) /\ ~UpToDate(o)
  /\ obj' = [obj EXCEPT ![o] = Migrated(obj[o])]
  /\ careful' = [careful EXCEPT ![o] = @ /\ phase = "stable"]
  /\ UNCHANGED <<calls, defs, counter, overflow, kwMap, cache, phase, look, means, overlap>>

-----------------------------------------------------------------------------
(* Construction and functional update. *)

(* make-instance, and the constructors that bypass initialize-instance for  *)
(* narrow classes: they run no initform and leave %persistent-vector unset. *)
(* given: the slots with an argument, spelled by the slot's name or alias.  *)
New(S, given, bypass) ==
  LET value(n) == IF n \in given THEN <<n, 0>>
                  ELSE IF n \in Native(S) \cap Initform /\ (Wide(S) \/ ~bypass) THEN <<n, 2>>
                  ELSE Unbound
  IN  [layout |-> Len(defs), stamp |-> counter, transient |-> FALSE,
       native |-> [n \in Names |-> IF n \in Native(S) THEN value(n) ELSE Unbound],
       vecState |-> IF Wide(S) THEN "vector" ELSE IF bypass THEN "unset" ELSE "nil",
       vec |-> IF Wide(S) THEN [i \in 1..(Len(S) - NativeLimit) |-> value(S[i + NativeLimit].name)] ELSE <<>>]

Contents(x) == [n \in Names |-> IF n \in NameSet(Current) THEN Slot(x, n) ELSE Unbound]

Make(o) ==
  /\ Idle
  /\ obj[o] = NoObject
  /\ \E given \in SUBSET NameSet(Current), bypass \in BOOLEAN :
       LET x == New(Current, given, bypass)
       IN  obj' = [obj EXCEPT ![o] = x] /\ means' = [means EXCEPT ![o] = Contents(x)]
  /\ careful' = [careful EXCEPT ![o] = (phase = "stable" /\ Sane(Current))]
  /\ UNCHANGED <<calls, defs, counter, overflow, kwMap, cache, phase, look, overlap>>

(* The copy of the CLOS slots in update-slots and dissoc-slots: an unbound  *)
(* slot takes the value of its alias.                                       *)
Source(x, n) ==
  IF x.native[n] # Unbound \/ n \notin DOMAIN Aliases(Current) THEN x.native[n]
  ELSE Slot(x, Aliases(Current)[n])
Removed(n, k) == n = k \/ (n \in DOMAIN Aliases(Current) /\ Aliases(Current)[n] = k)
Copy(x, keep) ==
  [x EXCEPT !.native = [n \in Names |-> IF n \in keep THEN Source(x, n) ELSE Unbound],
            !.stamp = counter, !.transient = FALSE,
            !.vecState = IF Wide(Current) THEN @ ELSE "unset",
            !.vec = IF Wide(Current) THEN @ ELSE <<>>]
CopyFails(x, keep) == \/ \E n \in keep : Source(x, n) = Broken
                      \/ Wide(Current) /\ x.vecState = "unset"

(* The write of one slot into the copy. *)
Written(x, n, v) ==
  IF n \in Native(Current) THEN [x EXCEPT !.native[n] = v]
  ELSE IF n \notin DOMAIN overflow THEN x                \* slot-missing ignores it
  ELSE IF ~Wide(Current) THEN Failed
  ELSE LET base == IF x.vecState = "nil" THEN [i \in 1..Cardinality(DOMAIN overflow) |-> Unbound]
                   ELSE x.vec
       IN  IF overflow[n] > Len(base) THEN Failed
           ELSE [x EXCEPT !.vecState = "vector", !.vec = [base EXCEPT ![overflow[n]] = v]]

(* The same in place, for a transient: there must be a vector to write to.  *)
WrittenInPlace(x, n, v) ==
  IF n \in Native(Current) THEN [x EXCEPT !.native[n] = v]
  ELSE IF n \notin DOMAIN overflow THEN x
  ELSE IF x.vecState # "vector" \/ overflow[n] > Len(x.vec) THEN Failed
  ELSE [x EXCEPT !.vec[overflow[n]] = v]

(* What both do to the cache, and the effect of an update on what the object *)
(* should hold.  The keyword of an alias stands for the slot that has it, in *)
(* an update as in a lookup, although the documentation says that it is an   *)
(* error there (see OldNamesReadOnly): the object is not careful after that. *)
OldName(k) == kwMap[k] \notin {k, None}
Remember(k) == cache' = IF Cached(k) THEN cache ELSE <<k, kwMap[k]>>
Intend(o, k, v) == means' = IF kwMap[k] = None THEN means ELSE [means EXCEPT ![o][kwMap[k]] = v]

UpdateSlots(o) ==
  /\ Idle /\ UpToDate(o)
  /\ calls < MaxCalls
  /\ calls' = calls + 1
  /\ \E k \in Keywords :
       LET x == obj[o]
           n == SlotName(k)
           v == <<k, 1>>
       IN  /\ n # None             \* else an error, and no new object
           /\ obj' = [obj EXCEPT ![o] =
                IF x.transient THEN WrittenInPlace(x, n, v)
                ELSE IF CopyFails(x, Native(Current)) THEN Failed
                ELSE Written(Copy(x, Native(Current)), n, v)]
           /\ Intend(o, k, v)
           /\ Remember(k)
           /\ careful' = [careful EXCEPT ![o] = /\ @ /\ ~OldName(k)
                                                /\ phase = "stable" \/ x.transient
                                                /\ x.transient => x.vecState # "nil"]
  /\ UNCHANGED <<defs, counter, overflow, kwMap, phase, look, overlap>>

DissocSlots(o) ==
  /\ Idle /\ UpToDate(o)
  /\ calls < MaxCalls
  /\ calls' = calls + 1
  /\ \E k \in Keywords :
       LET x == obj[o]
           n == SlotName(k)
           keep == {m \in Native(Current) : ~Removed(m, n)}
           new == Copy(x, keep)
           gone == {overflow[m] : m \in {l \in DOMAIN overflow : Removed(l, n)}}
           cleared == Wide(Current) /\ n \in DOMAIN overflow
       IN  /\ obj' = [obj EXCEPT ![o] =
                IF CopyFails(x, keep) THEN Failed
                ELSE IF ~Wide(Current) THEN new
                ELSE IF x.vecState = "nil" THEN [new EXCEPT !.vecState = "unset"]
                ELSE IF cleared /\ \E i \in gone : i > Len(x.vec) THEN Failed
                ELSE IF cleared THEN [new EXCEPT !.vec = [i \in DOMAIN @ |-> IF i \in gone THEN Unbound ELSE @[i]]]
                ELSE new]
           /\ Intend(o, k, Unbound)
           /\ Remember(k)
           /\ careful' = [careful EXCEPT ![o] = /\ @ /\ ~OldName(k) /\ phase = "stable"
                                                /\ Wide(Current) => x.vecState = "vector"]
  /\ UNCHANGED <<defs, counter, overflow, kwMap, phase, look, overlap>>

(* transient: a copy that its thread owns; persistent! gives it up. *)
Transient(o) ==
  /\ Idle /\ UpToDate(o)
  /\ calls < MaxCalls
  /\ calls' = calls + 1
  /\ obj' = [obj EXCEPT ![o] = IF CopyFails(@, Native(Current)) THEN Failed
                               ELSE [Copy(@, Native(Current)) EXCEPT !.transient = TRUE]]
  /\ careful' = [careful EXCEPT ![o] = @ /\ phase = "stable"]
  /\ UNCHANGED <<defs, counter, overflow, kwMap, cache, phase, look, means, overlap>>

Persistent(o) ==
  /\ Idle /\ UpToDate(o)
  /\ obj[o].transient
  /\ obj' = [obj EXCEPT ![o].transient = FALSE]
  /\ UNCHANGED <<calls, defs, counter, overflow, kwMap, cache, phase, look, means, careful, overlap>>

-----------------------------------------------------------------------------
(* slot-name-from-keyword in another thread: a miss reads the map ... *)
LookupMiss(r) ==
  /\ look[r] = None
  /\ calls < MaxCalls
  /\ calls' = calls + 1
  /\ \E k \in Keywords : ~Cached(k) /\ look' = [look EXCEPT ![r] = <<k, kwMap[k]>>]
  /\ UNCHANGED <<defs, counter, overflow, kwMap, cache, phase, obj, means, careful, overlap>>

(* ... and then replaces the cached pair. *)
LookupStore(r) ==
  /\ look[r] # None
  /\ cache' = look[r]
  /\ look' = [look EXCEPT ![r] = None]
  /\ overlap' = (overlap \/ phase = "reset")
  /\ UNCHANGED <<calls, defs, counter, overflow, kwMap, phase, obj, means, careful>>

Redefine == Snapshot \/ ResetCache \/ NewLayout
Use(o) == Make(o) \/ Migrate(o) \/ UpdateSlots(o) \/ DissocSlots(o) \/ Transient(o) \/ Persistent(o)
Lookup(r) == LookupMiss(r) \/ LookupStore(r)

Next == Redefine \/ (\E o \in Objects : Use(o)) \/ (\E r \in Readers : Lookup(r))

Spec == Init /\ [][Next]_vars

-----------------------------------------------------------------------------
(* Properties. *)

(* Types; the version counter runs at most one ahead of the definitions.    *)
(* Part of NothingLost.                                                     *)
TypeOK ==
  /\ Len(defs) \in 1..MaxVersions /\ \A v \in DOMAIN defs : defs[v] \in Schemas
  /\ counter = Len(defs) - (IF phase = "stable" THEN 1 ELSE 0)
  /\ phase \in {"stable", "snapshot", "reset"}
  /\ DOMAIN overflow \subseteq Names
  /\ \A n \in DOMAIN overflow : overflow[n] \in 1..Cardinality(DOMAIN overflow)
  /\ kwMap \in [Names -> Names \cup {None}]
  /\ \A o \in Objects : Exists(o) =>
       /\ obj[o].layout \in 1..Len(defs) /\ obj[o].stamp \in 0..counter
       /\ \A n \in Names : obj[o].native[n] \in Values \cup {Unbound}
       /\ \A n \in Names \ Native(defs[obj[o].layout]) : obj[o].native[n] = Unbound
       /\ (obj[o].vecState # "vector" => obj[o].vec = <<>>)

(* The multi-hop alias recovery: however many redefinitions an object has   *)
(* slept through, and however it was updated in between, after its          *)
(* migration every slot holds what the declared renames, applied one after  *)
(* the other, give it.  Excepted, by careful and overlap, are the objects   *)
(* for which the code does not keep what the documentation promises:        *)
(*  - a redefinition did not satisfy LosesNothing: among them are those     *)
(*    that take a slot across the native limit to another place;            *)
(*  - the object had no vector, or a short one, as its class became wider   *)
(*    (Fits): with the last, the case of schema-evolution-edge-cases.md:170;*)
(*  - it was made, copied or migrated between the increment of the counter  *)
(*    and the new layout, and has a stamp that is not its own;              *)
(*  - it was updated under an old name, which the same document calls an    *)
(*    error (:149-153) and the code carries out;                            *)
(*  - a lookup overlapped a redefinition and left a stale cached keyword.   *)
NothingLost ==
  /\ TypeOK
  /\ \A o \in Objects : careful[o] /\ ~overlap =>
       /\ obj[o] # Failed
       /\ UpToDate(o) /\ Idle => Contents(obj[o]) = means[o]

(* "Old slot names are read-only" (schema-evolution-edge-cases.md:153): an  *)
(* update under a name that is not a slot changes no slot.  The code breaks *)
(* this, and no run lists it: the keyword map holds aliases, and update     *)
(* looks names up in it as a read does.                                     *)
OldNamesReadOnly ==
  [][\A o \in Objects, k \in Keywords, n \in NameSet(Current) :
       OldName(k) /\ UpToDate(o) /\ defs' = defs /\ obj'[o] # Failed /\ Slot(obj'[o], n) = <<k, 1>>
         => Slot(obj[o], n) = <<k, 1>>]_vars

(* Careful or not, a slot never shows a value that was written to another   *)
(* slot, unless some definitions connect the two as aliases; provided no    *)
(* place of the vector was given to two slots.                              *)
ClosedUnderAliases(R) ==
  \A v \in DOMAIN defs : \A i \in DOMAIN defs[v] :
    defs[v][i].name \in R /\ defs[v][i].alias # None => defs[v][i].alias \in R
Linked(m, n) == \A R \in SUBSET Names : n \in R /\ ClosedUnderAliases(R) => m \in R
PlacesKept ==
  \A u, v \in DOMAIN defs : \A i \in DOMAIN defs[u] \cap DOMAIN defs[v] :
    i > NativeLimit => defs[u][i].name = defs[v][i].name
NoForeignValue ==
  PlacesKept /\ Idle =>
    \A o \in Objects : UpToDate(o) =>
      \A n \in NameSet(Current) : Slot(obj[o], n) \in {Unbound, Broken} \/ Linked(Slot(obj[o], n)[1], n)

(* The cached pair agrees with the keyword map, also right after a          *)
(* redefinition, unless a lookup overlapped the redefinition.               *)
CacheRight == ~overlap /\ phase # "reset" /\ cache # None => cache[2] = kwMap[cache[1]]

(* The same with what keeps it: a lookup in progress has read the present   *)
(* map, and nothing is cached between the two steps of compute-slots.       *)
CacheInv ==
  /\ CacheRight
  /\ phase = "reset" /\ ~overlap => cache = None
  /\ ~overlap => \A r \in Readers : look[r] # None => look[r][2] = kwMap[look[r][1]]
=============================================================================
