---------------------------- MODULE SchemaProofs ----------------------------
(* The slots of persistent objects over the versions of their class, for    *)
(* any names, definitions, objects and readers: the keyword cache, the      *)
(* shapes of definitions, maps and objects, where the values in a slot may  *)
(* come from, and that careful redefinitions lose none.                     *)
EXTENDS Schema, FiniteSetTheorems, WellFoundedInduction, TLAPS

LookDomain == look = [r \in Readers |-> look[r]]
Inv == LookDomain /\ CacheInv

(* An operation that goes through the cache and the map in one step keeps   *)
(* the cached pair in agreement with the map.                               *)
LEMMA RememberKeeps ==
  ASSUME NEW k, Inv, Idle, Remember(k), UNCHANGED <<phase, kwMap, look, overlap>>
  PROVE  Inv'
<1> USE DEF Inv, LookDomain, CacheInv, CacheRight
<1>1. CASE Cached(k)
  BY <1>1 DEF Remember
<1>2. CASE ~Cached(k)
  <2>1. cache' = <<k, kwMap[k]>> BY <1>2 DEF Remember
  <2>2. cache'[2] = kwMap'[cache'[1]] BY <2>1
  <2>3. phase' # "reset" BY DEF Idle
  <2> QED BY <2>2, <2>3
<1> QED BY <1>1, <1>2

LEMMA NextKeeps == Inv /\ [Next]_vars => Inv'
<1> SUFFICES ASSUME Inv, [Next]_vars PROVE Inv' OBVIOUS
<1> USE DEF Inv, LookDomain, CacheInv, CacheRight
<1>1. CASE Snapshot
  BY <1>1 DEF Snapshot
<1>2. CASE ResetCache
  BY <1>2 DEF ResetCache
<1>3. CASE NewLayout
  \* without overlap no lookup is in progress and nothing is cached
  <2>1. ~overlap' => ~overlap /\ \A r \in Readers : look[r] = None
    BY <1>3 DEF NewLayout
  <2>2. phase = "reset" /\ phase' = "stable" /\ cache' = cache /\ look' = look
    BY <1>3 DEF NewLayout
  <2> QED BY <2>1, <2>2
<1>4. ASSUME NEW o \in Objects, Use(o) PROVE Inv'
  <2>1. CASE Make(o)
    BY <2>1 DEF Make
  <2>2. CASE Migrate(o)
    BY <2>2 DEF Migrate
  <2>3. CASE UpdateSlots(o)
    <3>1. PICK k \in Keywords : Remember(k)
      BY <2>3 DEF UpdateSlots
    <3> QED BY <3>1, <2>3, RememberKeeps DEF UpdateSlots
  <2>4. CASE DissocSlots(o)
    <3>1. PICK k \in Keywords : Remember(k)
      BY <2>4 DEF DissocSlots
    <3> QED BY <3>1, <2>4, RememberKeeps DEF DissocSlots
  <2>5. CASE Transient(o)
    BY <2>5 DEF Transient
  <2>6. CASE Persistent(o)
    BY <2>6 DEF Persistent
  <2> QED BY <1>4, <2>1, <2>2, <2>3, <2>4, <2>5, <2>6 DEF Use
<1>5. ASSUME NEW r \in Readers, LookupMiss(r) PROVE Inv'
  <2>1. PICK k \in Keywords : look' = [look EXCEPT ![r] = <<k, kwMap[k]>>]
    BY <1>5 DEF LookupMiss
  <2>2. look'[r] = <<k, kwMap[k]>> /\ \A q \in Readers \ {r} : look'[q] = look[q]
    BY <2>1
  <2>3. LookDomain'
    BY <2>1
  <2>4. UNCHANGED <<kwMap, cache, phase, overlap>>
    BY <1>5 DEF LookupMiss
  <2>5. look'[r][2] = kwMap[look'[r][1]]
    BY <2>2
  <2> QED BY <2>2, <2>3, <2>4, <2>5
<1>6. ASSUME NEW r \in Readers, LookupStore(r) PROVE Inv'
  <2>1. /\ look[r] # None /\ cache' = look[r]
        /\ look' = [look EXCEPT ![r] = None]
        /\ overlap' = (overlap \/ phase = "reset")
        /\ UNCHANGED <<kwMap, phase>>
    BY <1>6 DEF LookupStore
  <2>2. LookDomain' /\ look'[r] = None /\ \A q \in Readers \ {r} : look'[q] = look[q]
    BY <2>1
  <2>3. ~overlap' => ~overlap /\ phase # "reset"
    BY <2>1
  <2> QED BY <2>1, <2>2, <2>3
<1>7. CASE UNCHANGED vars
  BY <1>7 DEF vars
<1> QED BY <1>1, <1>2, <1>3, <1>4, <1>5, <1>6, <1>7 DEF Next, Redefine, Lookup

(* A keyword is never answered from a definition that a redefinition has    *)
(* replaced, unless the lookup overlapped it: "a stale entry from a prior   *)
(* schema version can never survive" (persistence.lisp:66) for the rest.    *)
THEOREM CacheSafe == Spec => []CacheRight
<1>1. Init => Inv
  BY DEF Init, Inv, LookDomain, CacheInv, CacheRight
<1>2. Inv => CacheRight
  BY DEF Inv, CacheInv
<1> QED BY <1>1, <1>2, NextKeeps, PTL DEF Spec

-----------------------------------------------------------------------------
(* Definitions of the class. *)

SlotDef == [name : Names, alias : Names \cup {None}]

(* A nonempty set of numbers has a least element. *)
LEMMA LeastIs ==
  ASSUME NEW I \in SUBSET Nat, I # {}
  PROVE  Min(I) \in I /\ \A i \in I : Min(I) <= i
<1> DEFINE Less == OpToRel(<, Nat)
<1>1. \A x, y \in Nat : y < x => <<y, x>> \in Less
  BY DEF OpToRel
<1>2. IsWellFoundedOn(Less, Nat)
  BY NatLessThanWellFounded
<1>3. PICK x \in I : \A y \in I : <<y, x>> \notin Less
  <2> HIDE DEF Less
  <2> QED BY <1>2, WFMin
<1>4. ASSUME NEW y \in I PROVE x <= y
  <2>1. x \in Nat /\ y \in Nat /\ ~(y < x)
    <3> HIDE DEF Less
    <3> QED BY <1>1, <1>3
  <2> QED BY <2>1
<1> QED BY <1>4 DEF Min

LEMMA SchemaIs ==
  ASSUME NEW S \in Schemas
  PROVE  /\ S \in Seq(SlotDef) /\ Len(S) \in Nat /\ DOMAIN S = 1..Len(S)
         /\ \A i \in 1..Len(S) : S[i].name \in Names /\ S[i].alias \in Names \cup {None}
         /\ \A i, j \in 1..Len(S) : S[i].name = S[j].name => i = j
<1>1. S \in Seq(SlotDef) /\ \A i, j \in DOMAIN S : S[i].name = S[j].name => i = j
  BY SchemaAssumption DEF SlotDef
<1>2. Len(S) \in Nat /\ DOMAIN S = 1..Len(S) /\ \A i \in 1..Len(S) : S[i] \in SlotDef
  BY <1>1
<1> QED BY <1>1, <1>2 DEF SlotDef

LEMMA PosIs ==
  ASSUME NEW S \in Schemas
  PROVE  /\ NameSet(S) \subseteq Names
         /\ \A n \in NameSet(S) : Pos(S, n) \in 1..Len(S) /\ S[Pos(S, n)].name = n
         /\ \A i \in 1..Len(S) : S[i].name \in NameSet(S) /\ Pos(S, S[i].name) = i
BY SchemaIs DEF NameSet, Pos

LEMMA NativeIs ==
  ASSUME NEW S \in Schemas
  PROVE  /\ Native(S) \subseteq NameSet(S)
         /\ \A n \in NameSet(S) : n \in Native(S) <=> Pos(S, n) <= NativeLimit
<1> DEFINE k == IF Wide(S) THEN NativeLimit ELSE Len(S)
<1>1. k \in Nat /\ k <= Len(S) /\ \A i \in 1..Len(S) : i <= k <=> i <= NativeLimit
  BY SchemaIs, SchemaAssumption DEF Wide
<1>2. DOMAIN NativeSeq(S) = 1..k /\ \A i \in 1..k : NativeSeq(S)[i] = S[i].name
  BY DEF NativeSeq
<1>3. Native(S) = {S[i].name : i \in 1..k}
  BY <1>2 DEF Native
<1> QED BY <1>1, <1>3, PosIs, SchemaIs

LEMMA AliasesIs ==
  ASSUME NEW S \in Schemas
  PROVE  /\ DOMAIN Aliases(S) \subseteq NameSet(S)
         /\ \A n \in DOMAIN Aliases(S) : Aliases(S)[n] = S[Pos(S, n)].alias /\ Aliases(S)[n] \in Names
BY PosIs, SchemaIs DEF Aliases

LEMMA OverflowIs ==
  ASSUME NEW S \in Schemas
  PROVE  /\ DOMAIN OverflowIndices(S) = NameSet(S) \ Native(S)
         /\ \A n \in DOMAIN OverflowIndices(S) :
              /\ Wide(S) /\ Pos(S, n) = OverflowIndices(S)[n] + NativeLimit
              /\ OverflowIndices(S)[n] \in 1..(Len(S) - NativeLimit)
              /\ S[OverflowIndices(S)[n] + NativeLimit].name = n
         /\ IsFiniteSet(DOMAIN OverflowIndices(S))
         /\ Wide(S) => Cardinality(DOMAIN OverflowIndices(S)) = Len(S) - NativeLimit
<1>1. DOMAIN OverflowIndices(S) = NameSet(S) \ Native(S)
  BY DEF OverflowIndices
<1>2. ASSUME NEW n \in NameSet(S) \ Native(S)
      PROVE  /\ Wide(S) /\ Pos(S, n) = OverflowIndices(S)[n] + NativeLimit
             /\ OverflowIndices(S)[n] \in 1..(Len(S) - NativeLimit)
             /\ S[OverflowIndices(S)[n] + NativeLimit].name = n
  <2>1. OverflowIndices(S)[n] = Pos(S, n) - NativeLimit
    BY DEF OverflowIndices
  <2>2. Pos(S, n) \in 1..Len(S) /\ S[Pos(S, n)].name = n /\ ~(Pos(S, n) <= NativeLimit)
    BY PosIs, NativeIs
  <2> QED BY <2>1, <2>2, SchemaIs, SchemaAssumption DEF Wide
<1>3. CASE ~Wide(S)
  BY <1>1, <1>2, <1>3, FS_EmptySet
<1>4. CASE Wide(S)
  <2> DEFINE k == Len(S) - NativeLimit
             f == [i \in 1..k |-> S[i + NativeLimit].name]
  <2>1. k \in Nat /\ \A i \in 1..k : i + NativeLimit \in 1..Len(S) /\ i + NativeLimit > NativeLimit
    BY <1>4, SchemaIs, SchemaAssumption DEF Wide
  <2>2. \A i \in 1..k : f[i] \in NameSet(S) \ Native(S)
    <3> TAKE i \in 1..k
    <3>1. i + NativeLimit \in 1..Len(S) /\ ~(i + NativeLimit <= NativeLimit)
      BY <2>1, SchemaAssumption
    <3> QED BY <3>1, PosIs, NativeIs
  <2>3. \A i, j \in 1..k : f[i] = f[j] => i = j
    <3> TAKE i, j \in 1..k
    <3>1. i + NativeLimit = j + NativeLimit => i = j
      BY SchemaAssumption
    <3> QED BY <2>1, <3>1, SchemaIs
  <2>4. \A n \in NameSet(S) \ Native(S) : \E i \in 1..k : f[i] = n
    <3> TAKE n \in NameSet(S) \ Native(S)
    <3>1. OverflowIndices(S)[n] \in 1..k /\ f[OverflowIndices(S)[n]] = n
      BY <1>2
    <3> QED BY <3>1
  <2>5. f \in Bijection(1..k, NameSet(S) \ Native(S))
    <3> HIDE DEF k
    <3> QED BY <2>2, <2>3, <2>4 DEF Bijection, Injection, Surjection, IsInjective
  <2>6. ExistsBijection(1..k, DOMAIN OverflowIndices(S))
    BY <1>1, <2>5 DEF ExistsBijection
  <2>7. IsFiniteSet(1..k) /\ Cardinality(1..k) = k
    BY <2>1, FS_Interval
  <2>8. IsFiniteSet(DOMAIN OverflowIndices(S)) /\ Cardinality(DOMAIN OverflowIndices(S)) = k
    <3> HIDE DEF k
    <3> QED BY <2>6, <2>7, FS_Bijection
  <2> QED BY <1>1, <1>2, <2>8
<1> QED BY <1>3, <1>4

(* A keyword is mapped to the slot it names or to one that has its name as  *)
(* alias.                                                                   *)
LEMMA KeywordMapIs ==
  ASSUME NEW S \in Schemas, NEW k \in Names
  PROVE  \/ KeywordMap(S)[k] = None
         \/ KeywordMap(S)[k] = k /\ k \in NameSet(S)
         \/ \E i \in 1..Len(S) : KeywordMap(S)[k] = S[i].name /\ S[i].alias = k
<1>1. CASE k \in NameSet(S)
  BY <1>1 DEF KeywordMap
<1>2. CASE k \notin NameSet(S)
  <2> DEFINE I == {i \in 1..Len(S) : S[i].alias = k}
  <2>1. PICK p : p = IF I # {} THEN Min(I) ELSE 0
    OBVIOUS
  <2>2. KeywordMap(S)[k] = IF p = 0 THEN None ELSE S[p].name
    BY <1>2, <2>1 DEF KeywordMap, SelectInSeq
  <2>3. CASE I = {}
    <3> HIDE DEF I
    <3> QED BY <2>1, <2>2, <2>3
  <2>4. CASE I # {}
    <3>1. I \in SUBSET Nat
      BY SchemaIs
    <3>2. p \in I
      <4> HIDE DEF I
      <4> QED BY <2>1, <2>4, <3>1, LeastIs
    <3>3. p \in 1..Len(S) /\ S[p].alias = k
      BY <3>2
    <3> QED BY <2>2, <3>3
  <2> QED BY <2>3, <2>4
<1> QED BY <1>1, <1>2

-----------------------------------------------------------------------------
(* The class.  Its keyword map is that of the last definition; the index    *)
(* map is that of the last wide one, or still empty.                        *)
ClassInv ==
  /\ defs \in Seq(Schemas) /\ Len(defs) \in 1..MaxVersions
  /\ counter = Len(defs) - (IF phase = "stable" THEN 1 ELSE 0)
  /\ phase \in {"stable", "snapshot", "reset"}
  /\ phase # "stable" => Len(defs) < MaxVersions
  /\ \E v \in DOMAIN defs : overflow = OverflowIndices(defs[v])
  /\ Wide(Current) => overflow = OverflowIndices(Current)
  /\ kwMap = KeywordMap(Current)

LEMMA ClassIs ==
  ASSUME ClassInv
  PROVE  /\ Len(defs) \in Nat \ {0} /\ DOMAIN defs = 1..Len(defs)
         /\ \A v \in 1..Len(defs) : defs[v] \in Schemas
         /\ Current \in Schemas
         /\ counter \in Nat /\ counter <= Len(defs) /\ counter >= Len(defs) - 1
<1>1. Len(defs) \in Nat \ {0} /\ DOMAIN defs = 1..Len(defs) /\ \A v \in 1..Len(defs) : defs[v] \in Schemas
  BY DEF ClassInv
<1>2. counter = Len(defs) \/ counter = Len(defs) - 1
  BY DEF ClassInv
<1>3. counter \in Nat /\ counter <= Len(defs) /\ counter >= Len(defs) - 1
  BY <1>1, <1>2
<1> QED BY <1>1, <1>3 DEF Current

LEMMA OverflowMapIs ==
  ASSUME ClassInv
  PROVE  /\ DOMAIN overflow \subseteq Names
         /\ Cardinality(DOMAIN overflow) \in Nat
         /\ \A n \in DOMAIN overflow : overflow[n] \in 1..Cardinality(DOMAIN overflow)
         /\ \A n \in DOMAIN overflow : \E v \in 1..Len(defs) :
              /\ overflow[n] + NativeLimit \in 1..Len(defs[v])
              /\ defs[v][overflow[n] + NativeLimit].name = n
<1>1. PICK v \in 1..Len(defs) : defs[v] \in Schemas /\ overflow = OverflowIndices(defs[v])
  BY ClassIs DEF ClassInv
<1>2. DOMAIN overflow \subseteq Names /\ IsFiniteSet(DOMAIN overflow)
  <2>1. DOMAIN overflow = NameSet(defs[v]) \ Native(defs[v]) /\ IsFiniteSet(DOMAIN overflow)
    BY <1>1, OverflowIs
  <2>2. NameSet(defs[v]) \subseteq Names
    BY <1>1, PosIs
  <2> QED BY <2>1, <2>2
<1>3. Cardinality(DOMAIN overflow) \in Nat
  BY <1>2, FS_CardinalityType
<1>4. ASSUME NEW n \in DOMAIN overflow
      PROVE  /\ overflow[n] \in 1..Cardinality(DOMAIN overflow)
             /\ overflow[n] + NativeLimit \in 1..Len(defs[v])
             /\ defs[v][overflow[n] + NativeLimit].name = n
  <2>1. /\ Wide(defs[v]) /\ overflow[n] \in 1..(Len(defs[v]) - NativeLimit)
        /\ defs[v][overflow[n] + NativeLimit].name = n
        /\ Cardinality(DOMAIN overflow) = Len(defs[v]) - NativeLimit
    BY <1>1, OverflowIs
  <2> QED BY <1>1, <2>1, SchemaIs, SchemaAssumption
<1> QED BY <1>1, <1>2, <1>3, <1>4

LEMMA SlotNameIs ==
  ASSUME ClassInv, NEW k \in Names
  PROVE  kwMap[k] \in Names \cup {None}
<1>1. kwMap[k] = KeywordMap(Current)[k] /\ Current \in Schemas
  BY ClassIs DEF ClassInv
<1> QED BY <1>1, KeywordMapIs, SchemaIs

LEMMA ClassStep == ClassInv /\ [Next]_vars => ClassInv'
<1> SUFFICES ASSUME ClassInv, [Next]_vars PROVE ClassInv' OBVIOUS
<1> USE ClassIs
<1>1. CASE Snapshot
  <2>1. /\ UNCHANGED <<defs, overflow, kwMap>>
        /\ phase = "stable" /\ phase' = "snapshot" /\ counter' = counter + 1
        /\ Len(defs) < MaxVersions
    BY <1>1 DEF Snapshot
  <2>2. counter' = Len(defs')
    BY <2>1 DEF ClassInv
  <2> QED BY <2>1, <2>2 DEF ClassInv, Current
<1>2. CASE ResetCache
  BY <1>2 DEF ResetCache, ClassInv, Current
<1>3. CASE NewLayout
  <2>1. PICK S \in Schemas :
          /\ defs' = Append(defs, S) /\ kwMap' = KeywordMap(S)
          /\ overflow' = IF Wide(S) THEN OverflowIndices(S) ELSE overflow
    BY <1>3 DEF NewLayout
  <2>2. phase = "reset" /\ phase' = "stable" /\ counter' = counter
    BY <1>3 DEF NewLayout
  <2>3. /\ defs' \in Seq(Schemas) /\ Len(defs') = Len(defs) + 1
        /\ defs'[Len(defs) + 1] = S /\ \A v \in 1..Len(defs) : defs'[v] = defs[v]
    BY <2>1 DEF ClassInv
  <2>4. Len(defs') \in 1..MaxVersions /\ counter' = Len(defs') - (IF phase' = "stable" THEN 1 ELSE 0)
    BY <2>2, <2>3, SchemaAssumption DEF ClassInv
  <2>5. DOMAIN defs' = 1..Len(defs')
    BY <2>3
  <2>6. \E v \in DOMAIN defs' : overflow' = OverflowIndices(defs'[v])
    <3>1. CASE Wide(S)
      BY <2>1, <2>3, <2>5, <3>1
    <3>2. CASE ~Wide(S)
      <4>1. PICK v \in 1..Len(defs) : overflow = OverflowIndices(defs[v])
        BY DEF ClassInv
      <4>2. overflow' = OverflowIndices(defs'[v]) /\ v \in DOMAIN defs'
        BY <2>1, <2>3, <2>5, <3>2, <4>1
      <4> QED BY <4>2
    <3> QED BY <3>1, <3>2
  <2>7. kwMap' = KeywordMap(defs'[Len(defs')])
    BY <2>1, <2>3
  <2>8. Wide(defs'[Len(defs')]) => overflow' = OverflowIndices(defs'[Len(defs')])
    BY <2>1, <2>3
  <2> QED BY <2>2, <2>3, <2>4, <2>6, <2>7, <2>8 DEF ClassInv, Current
<1>4. CASE UNCHANGED <<defs, counter, overflow, kwMap, phase>>
  BY <1>4 DEF ClassInv, Current
<1>5. ASSUME NEW o \in Objects, Use(o) PROVE UNCHANGED <<defs, counter, overflow, kwMap, phase>>
  BY <1>5 DEF Use, Make, Migrate, UpdateSlots, DissocSlots, Transient, Persistent
<1>6. ASSUME NEW r \in Readers, Lookup(r) PROVE UNCHANGED <<defs, counter, overflow, kwMap, phase>>
  BY <1>6 DEF Lookup, LookupMiss, LookupStore
<1>7. CASE UNCHANGED vars
  BY <1>4, <1>7 DEF vars
<1> QED BY <1>1, <1>2, <1>3, <1>4, <1>5, <1>6, <1>7 DEF Next, Redefine

-----------------------------------------------------------------------------
(* The objects. *)

Stored == Values \cup {Unbound}

ObjectRecs == [layout : Nat, stamp : Nat, transient : BOOLEAN, native : [Names -> Stored],
               vecState : {"nil", "unset", "vector"}, vec : Seq(Stored)]

(* An object has a layout of the class, values in the CLOS slots of that    *)
(* layout only, and no vector contents without a vector.                    *)
Shape(x) ==
  /\ x \in ObjectRecs
  /\ x.layout \in 1..Len(defs) /\ x.stamp <= counter
  /\ \A n \in Names \ Native(defs[x.layout]) : x.native[n] = Unbound
  /\ x.vecState # "vector" => x.vec = <<>>

ShapeInv ==
  /\ obj = [o \in Objects |-> obj[o]]
  /\ \A o \in Objects : Exists(o) => Shape(obj[o])

LEMMA VecIs ==
  ASSUME NEW x \in ObjectRecs
  PROVE  /\ x.vec \in Seq(Stored) /\ Len(x.vec) \in Nat /\ DOMAIN x.vec = 1..Len(x.vec)
         /\ \A i \in 1..Len(x.vec) : x.vec[i] \in Stored
<1>1. x.vec \in Seq(Stored)
  BY DEF ObjectRecs
<1> QED BY <1>1

LEMMA FunctionIsSequence ==
  ASSUME NEW S, NEW n \in Nat, NEW f \in [1..n -> S]
  PROVE  f \in Seq(S) /\ Len(f) = n
OBVIOUS

LEMMA StoredIs == Unbound \in Stored /\ Broken \notin Stored /\ Unbound # Broken
BY SchemaAssumption DEF Stored, Values, Unbound, Broken

LEMMA SlotIs ==
  ASSUME ClassInv, NEW x, Shape(x), NEW n \in Names
  PROVE  Slot(x, n) \in Stored \cup {Broken}
<1>1. x.native[n] \in Stored
  BY DEF Shape, ObjectRecs
<1>2. n \in DOMAIN overflow => overflow[n] \in Nat \ {0}
  BY OverflowMapIs
<1>3. n \in DOMAIN overflow /\ ~(overflow[n] > Len(x.vec)) => x.vec[overflow[n]] \in Stored
  BY <1>2, VecIs DEF Shape
<1> QED BY <1>1, <1>3, StoredIs DEF Slot

(* The copy of an object that is up to date. *)
LEMMA SourceIs ==
  ASSUME ClassInv, NEW x, Shape(x), NEW n \in Names
  PROVE  Source(x, n) \in Stored \cup {Broken}
<1>1. x.native[n] \in Stored
  BY DEF Shape, ObjectRecs
<1>2. n \in DOMAIN Aliases(Current) => Slot(x, Aliases(Current)[n]) \in Stored \cup {Broken}
  BY SlotIs, AliasesIs, ClassIs
<1> QED BY <1>1, <1>2 DEF Source

LEMMA CopyIs ==
  ASSUME ClassInv, NEW x, Shape(x), x.layout = Len(defs),
         NEW keep \in SUBSET Native(Current), ~CopyFails(x, keep),
         NEW y, y = Copy(x, keep)
  PROVE  /\ Shape(y) /\ y.layout = x.layout /\ y.stamp = counter
         /\ \A n \in Names : y.native[n] = IF n \in keep THEN Source(x, n) ELSE Unbound
         /\ Wide(Current) => y.vecState = x.vecState /\ y.vec = x.vec /\ x.vecState # "unset"
         /\ ~Wide(Current) => y.vecState = "unset" /\ y.vec = <<>>
<1>1. keep \subseteq Names
  BY ClassIs, NativeIs, PosIs
<1>2. \A n \in keep : Source(x, n) \in Stored
  BY <1>1, SourceIs DEF CopyFails
<1>3. PICK f : f = [n \in Names |-> IF n \in keep THEN Source(x, n) ELSE Unbound]
  OBVIOUS
<1>4. f \in [Names -> Stored]
  BY <1>2, <1>3, StoredIs
<1>5. x \in ObjectRecs
  BY DEF Shape
<1>6. PICK st, w : /\ st = (IF Wide(Current) THEN x.vecState ELSE "unset")
                   /\ w = (IF Wide(Current) THEN x.vec ELSE <<>>)
  OBVIOUS
<1>61. y = [x EXCEPT !.native = f, !.stamp = counter, !.transient = FALSE, !.vecState = st, !.vec = w]
  BY <1>3, <1>5, <1>6 DEF Copy, ObjectRecs
<1>7. /\ y.layout = x.layout /\ y.stamp = counter /\ y.transient = FALSE /\ y.native = f
      /\ y.vecState = IF Wide(Current) THEN x.vecState ELSE "unset"
      /\ y.vec = IF Wide(Current) THEN x.vec ELSE <<>>
  BY <1>5, <1>6, <1>61 DEF ObjectRecs
<1>71. w \in Seq(Stored) /\ st \in {"nil", "unset", "vector"}
  BY <1>5, <1>6 DEF ObjectRecs
<1>72. counter \in Nat
  BY ClassIs
<1>8. y \in ObjectRecs
  BY <1>4, <1>5, <1>61, <1>71, <1>72 DEF ObjectRecs
<1>9. \A n \in Names \ Native(defs[y.layout]) : y.native[n] = Unbound
  BY <1>3, <1>7 DEF Current
<1>10. y.vecState # "vector" => y.vec = <<>>
  BY <1>7 DEF Shape
<1>11. Shape(y)
  BY <1>7, <1>8, <1>9, <1>10, ClassIs DEF Shape
<1>12. Wide(Current) => x.vecState # "unset"
  BY DEF CopyFails
<1> QED BY <1>3, <1>7, <1>11, <1>12

(* The write of one slot, into the copy or in place. *)
WithNative(x, n, v) == [x EXCEPT !.native[n] = v]
WithVec(x, w) == [x EXCEPT !.vecState = "vector", !.vec = w]

LEMMA NativeWriteIs ==
  ASSUME ClassInv, NEW x, Shape(x), x.layout = Len(defs),
         NEW n \in Native(Current), NEW v \in Values,
         NEW y, y = WithNative(x, n, v)
  PROVE  /\ Shape(y) /\ y.layout = x.layout
         /\ y.native[n] = v /\ \A m \in Names \ {n} : y.native[m] = x.native[m]
         /\ y.vec = x.vec /\ y.vecState = x.vecState /\ y.stamp = x.stamp /\ y.transient = x.transient
<1>1. x \in ObjectRecs /\ n \in Names
  BY ClassIs, NativeIs, PosIs DEF Shape
<1>2. /\ y \in ObjectRecs /\ y.layout = x.layout /\ y.stamp = x.stamp /\ y.transient = x.transient
      /\ y.vec = x.vec /\ y.vecState = x.vecState
      /\ y.native = [x.native EXCEPT ![n] = v]
  BY <1>1 DEF ObjectRecs, Stored, WithNative
<1>3. y.native[n] = v /\ \A m \in Names \ {n} : y.native[m] = x.native[m]
  BY <1>1, <1>2 DEF ObjectRecs
<1>4. \A m \in Names \ Native(defs[y.layout]) : y.native[m] = Unbound
  BY <1>1, <1>2, <1>3 DEF Shape, Current
<1> QED BY <1>2, <1>3, <1>4 DEF Shape

LEMMA VectorWriteIs ==
  ASSUME NEW x, Shape(x), NEW w \in Seq(Stored), NEW y, y = WithVec(x, w)
  PROVE  /\ Shape(y) /\ y.layout = x.layout /\ y.stamp = x.stamp /\ y.transient = x.transient
         /\ y.native = x.native /\ y.vecState = "vector" /\ y.vec = w
<1>1. /\ y \in ObjectRecs /\ y.layout = x.layout /\ y.stamp = x.stamp /\ y.transient = x.transient
      /\ y.vec = w /\ y.vecState = "vector" /\ y.native = x.native
  BY DEF ObjectRecs, Shape, WithVec
<1> QED BY <1>1 DEF Shape

LEMMA ElementChanged ==
  ASSUME NEW w \in Seq(Stored), NEW i \in 1..Len(w), NEW v \in Stored
  PROVE  /\ [w EXCEPT ![i] = v] \in Seq(Stored) /\ Len([w EXCEPT ![i] = v]) = Len(w)
         /\ [w EXCEPT ![i] = v][i] = v
         /\ \A j \in 1..Len(w) \ {i} : [w EXCEPT ![i] = v][j] = w[j]
OBVIOUS

(* A write changes one slot, and the values of the others stay where they   *)
(* are: only an object without a vector gets a new one.                     *)
Writes(x, y, n, v) ==
  /\ Shape(y) /\ y.layout = x.layout
  /\ \A m \in Names : y.native[m] = x.native[m] \/ (m = n /\ y.native[m] = v)
  /\ \A i \in 1..Len(y.vec) :
       \/ y.vec[i] = Unbound
       \/ i \in 1..Len(x.vec) /\ y.vec[i] = x.vec[i]
       \/ n \in DOMAIN overflow /\ i = overflow[n] /\ y.vec[i] = v

LEMMA WrittenIs ==
  ASSUME ClassInv, NEW x, Shape(x), x.layout = Len(defs), NEW n, NEW v \in Values,
         NEW y, y = Written(x, n, v) \/ y = WrittenInPlace(x, n, v)
  PROVE  y = Failed \/ Writes(x, y, n, v)
<1>1. CASE n \in Native(Current)
  <2>1. y = WithNative(x, n, v)
    BY <1>1 DEF Written, WrittenInPlace, WithNative
  <2>2. /\ y.vec = x.vec /\ Shape(y) /\ y.layout = x.layout /\ y.native[n] = v
        /\ \A m \in Names \ {n} : y.native[m] = x.native[m]
    BY <1>1, <2>1, NativeWriteIs
  <2>3. \A i \in 1..Len(y.vec) : i \in 1..Len(x.vec) /\ y.vec[i] = x.vec[i]
    BY <2>2
  <2> QED BY <2>2, <2>3 DEF Writes
<1>2. CASE y = x
  BY <1>2 DEF Writes
<1>3. ASSUME n \in DOMAIN overflow, NEW b \in Seq(Stored), ~(overflow[n] > Len(b)),
             y = WithVec(x, [b EXCEPT ![overflow[n]] = v]),
             \A i \in 1..Len(b) : b[i] = Unbound \/ (i \in 1..Len(x.vec) /\ b[i] = x.vec[i])
      PROVE  Writes(x, y, n, v)
  <2>1. overflow[n] \in 1..Len(b) /\ v \in Stored
    BY <1>3, OverflowMapIs DEF Stored
  <2>2. PICK u : u = [b EXCEPT ![overflow[n]] = v]
    OBVIOUS
  <2>3. /\ u \in Seq(Stored) /\ Len(u) = Len(b) /\ u[overflow[n]] = v
        /\ \A j \in 1..Len(b) \ {overflow[n]} : u[j] = b[j]
    BY <2>1, <2>2, ElementChanged
  <2>4. y = WithVec(x, u)
    BY <1>3, <2>2
  <2>5. Shape(y) /\ y.layout = x.layout /\ y.native = x.native /\ y.vec = u
    BY <2>3, <2>4, VectorWriteIs
  <2> QED BY <1>3, <2>3, <2>5 DEF Writes
<1>4. CASE /\ n \notin Native(Current) /\ n \in DOMAIN overflow
           /\ y = Written(x, n, v) /\ y # Failed
  <2>1. PICK b : b = IF x.vecState = "nil" THEN [i \in 1..Cardinality(DOMAIN overflow) |-> Unbound] ELSE x.vec
    OBVIOUS
  <2>2. ~(overflow[n] > Len(b)) /\ y = WithVec(x, [b EXCEPT ![overflow[n]] = v])
    BY <1>4, <2>1 DEF Written, WithVec
  <2>3. CASE x.vecState = "nil"
    <3>1. Cardinality(DOMAIN overflow) \in Nat
      BY OverflowMapIs
    <3>2. b \in [1..Cardinality(DOMAIN overflow) -> Stored]
      BY <2>1, <2>3, StoredIs
    <3>3. b \in Seq(Stored) /\ \A i \in 1..Len(b) : b[i] = Unbound
      BY <2>1, <2>3, <3>1, <3>2, FunctionIsSequence
    <3> QED BY <1>3, <1>4, <2>2, <3>3
  <2>4. CASE x.vecState # "nil"
    <3>1. b = x.vec /\ b \in Seq(Stored)
      BY <2>1, <2>4, VecIs DEF Shape
    <3> QED BY <1>3, <1>4, <2>2, <3>1
  <2> QED BY <2>3, <2>4
<1>5. CASE /\ n \notin Native(Current) /\ n \in DOMAIN overflow
           /\ y = WrittenInPlace(x, n, v) /\ y # Failed
  <2>1. /\ x.vecState = "vector" /\ ~(overflow[n] > Len(x.vec))
        /\ y = [x EXCEPT !.vec[overflow[n]] = v]
    BY <1>5 DEF WrittenInPlace
  <2>2. x \in ObjectRecs /\ x.vec \in Seq(Stored)
    BY VecIs DEF Shape
  <2>3. y = WithVec(x, [x.vec EXCEPT ![overflow[n]] = v])
    BY <2>1, <2>2 DEF ObjectRecs, WithVec
  <2> QED BY <1>3, <1>5, <2>1, <2>2, <2>3
<1> QED BY <1>1, <1>2, <1>4, <1>5 DEF Written, WrittenInPlace

(* What make-instance and the constructors build. *)
LEMMA NewIs ==
  ASSUME ClassInv, NEW given \in SUBSET NameSet(Current), NEW bypass \in BOOLEAN,
         NEW y, y = New(Current, given, bypass)
  PROVE  /\ Shape(y) /\ y.layout = Len(defs) /\ y.stamp = counter
         /\ \A n \in Names : y.native[n] \in {<<n, 0>>, <<n, 2>>, Unbound}
         /\ \A i \in 1..Len(y.vec) :
              /\ i + NativeLimit \in 1..Len(Current)
              /\ y.vec[i] \in {<<Current[i + NativeLimit].name, 0>>, Unbound}
<1> DEFINE value(n) == IF n \in given THEN <<n, 0>>
                       ELSE IF n \in Native(Current) \cap Initform /\ (Wide(Current) \/ ~bypass) THEN <<n, 2>>
                       ELSE Unbound
<1>1. PICK f, w, st :
        /\ f = [n \in Names |-> IF n \in Native(Current) THEN value(n) ELSE Unbound]
        /\ w = IF Wide(Current) THEN [i \in 1..(Len(Current) - NativeLimit) |-> value(Current[i + NativeLimit].name)]
               ELSE <<>>
        /\ st = IF Wide(Current) THEN "vector" ELSE IF bypass THEN "unset" ELSE "nil"
  OBVIOUS
<1>2. y = [layout |-> Len(defs), stamp |-> counter, transient |-> FALSE, native |-> f, vecState |-> st, vec |-> w]
  BY <1>1 DEF New
<1>3. \A n \in Names : value(n) \in Stored /\ value(n) \in {<<n, 0>>, <<n, 2>>, Unbound}
  BY DEF Stored, Values
<1>4. f \in [Names -> Stored] /\ \A n \in Names : f[n] \in {<<n, 0>>, <<n, 2>>, Unbound}
  <2> HIDE DEF value
  <2> QED BY <1>1, <1>3, StoredIs
<1>5. ASSUME Wide(Current), NEW i \in 1..(Len(Current) - NativeLimit)
      PROVE  /\ i + NativeLimit \in 1..Len(Current)
             /\ value(Current[i + NativeLimit].name) \in Stored
             /\ value(Current[i + NativeLimit].name) \in {<<Current[i + NativeLimit].name, 0>>, Unbound}
  <2>1. i + NativeLimit \in 1..Len(Current) /\ ~(i + NativeLimit <= NativeLimit) /\ Current \in Schemas
    BY ClassIs, SchemaIs, SchemaAssumption
  <2>2. Current[i + NativeLimit].name \in Names \ Native(Current)
    BY <2>1, PosIs, NativeIs
  <2>3. value(Current[i + NativeLimit].name) \in Stored
    BY <1>3, <2>2
  <2> QED BY <2>1, <2>2, <2>3
<1>6. /\ w \in Seq(Stored)
      /\ \A i \in 1..Len(w) : /\ i + NativeLimit \in 1..Len(Current)
                              /\ w[i] \in {<<Current[i + NativeLimit].name, 0>>, Unbound}
  <2> HIDE DEF value
  <2>1. CASE Wide(Current)
    <3>1. PICK k : k = Len(Current) - NativeLimit
      OBVIOUS
    <3>2. k \in Nat
      BY <2>1, <3>1, ClassIs, SchemaIs, SchemaAssumption DEF Wide
    <3>3. w \in [1..k -> Stored]
      BY <1>1, <1>5, <2>1, <3>1
    <3>4. w \in Seq(Stored) /\ Len(w) = k
      BY <3>2, <3>3, FunctionIsSequence
    <3> QED BY <1>1, <1>5, <2>1, <3>1, <3>4
  <2>2. CASE ~Wide(Current)
    BY <1>1, <2>2
  <2> QED BY <2>1, <2>2
<1>7. y \in ObjectRecs
  BY <1>1, <1>2, <1>4, <1>6, ClassIs DEF ObjectRecs
<1>8. \A n \in Names \ Native(defs[y.layout]) : y.native[n] = Unbound
  BY <1>1, <1>2 DEF Current
<1>9. y.vecState # "vector" => y.vec = <<>>
  BY <1>1, <1>2
<1>10. Shape(y)
  BY <1>2, <1>7, <1>8, <1>9, ClassIs DEF Shape
<1> QED BY <1>2, <1>4, <1>6, <1>10

-----------------------------------------------------------------------------
(* The chase of the aliases: what is found for a slot of the current        *)
(* definition is a name, along declared aliases.                            *)
ChasedFrom(v) == {u \in Nat : v <= u}
IsChase(h, v) ==
  h = [u \in ChasedFrom(v) |-> IF u >= counter THEN Aliases(Current) ELSE Chase(h[u + 1], u)]

LEMMA ChaseExtends ==
  ASSUME NEW v \in Nat, NEW h, IsChase(h, v + 1)
  PROVE  \E g : IsChase(g, v)
<1> DEFINE e(u) == IF u >= counter THEN Aliases(Current) ELSE Chase(h[u + 1], u)
           g == [u \in ChasedFrom(v) |-> e(u)]
<1>1. \A u \in ChasedFrom(v) : u + 1 \in ChasedFrom(v) /\ u + 1 \in ChasedFrom(v + 1)
  BY DEF ChasedFrom
<1>2. \A u \in ChasedFrom(v + 1) : h[u] = e(u)
  BY DEF IsChase
<1>3. \A u \in ChasedFrom(v) : g[u + 1] = h[u + 1]
  BY <1>1, <1>2
<1>4. g = [u \in ChasedFrom(v) |-> IF u >= counter THEN Aliases(Current) ELSE Chase(g[u + 1], u)]
  <2>1. \A u \in ChasedFrom(v) : e(u) = IF u >= counter THEN Aliases(Current) ELSE Chase(g[u + 1], u)
    BY <1>3
  <2>2. PICK k : k = g
    OBVIOUS
  <2>3. k = [u \in ChasedFrom(v) |-> e(u)]
    BY <2>2
  <2>4. \A u \in ChasedFrom(v) : e(u) = IF u >= counter THEN Aliases(Current) ELSE Chase(k[u + 1], u)
    BY <2>1, <2>2
  <2>5. k = [u \in ChasedFrom(v) |-> IF u >= counter THEN Aliases(Current) ELSE Chase(k[u + 1], u)]
    <3> HIDE DEF e, g
    <3> QED BY <2>3, <2>4
  <2> QED BY <2>2, <2>5
<1> QED BY <1>4 DEF IsChase

(* Downward induction: a set that holds, with each positive number, the one *)
(* before holds every number up to one that it holds.                       *)
LEMMA DownTo ==
  ASSUME NEW A \in SUBSET Nat, NEW n \in A, NEW m \in Nat, m <= n,
         \A k \in Nat : k + 1 \in A => k \in A
  PROVE  m \in A
<1>1. PICK B : B = {k \in A : m <= k}
  OBVIOUS
<1>2. PICK b \in B : \A k \in B : b <= k
  BY <1>1, LeastIs
<1>3. b \in Nat /\ b \in A /\ m <= b
  BY <1>1, <1>2
<1>4. CASE m < b
  <2>1. b - 1 \in Nat /\ (b - 1) + 1 = b /\ m <= b - 1
    BY <1>3, <1>4
  <2>2. b - 1 \in B
    BY <1>1, <1>3, <2>1
  <2> QED BY <1>2, <1>3, <2>1, <2>2
<1> QED BY <1>3, <1>4

LEMMA ChaseExists ==
  ASSUME counter \in Nat
  PROVE  \E h : h = [u \in Nat |-> IF u >= counter THEN Aliases(Current) ELSE Chase(h[u + 1], u)]
<1> DEFINE A == {v \in Nat : \E h : IsChase(h, v)}
<1>1. counter \in A
  <2>1. PICK h : h = [u \in ChasedFrom(counter) |-> Aliases(Current)]
    OBVIOUS
  <2>2. \A u \in ChasedFrom(counter) : Aliases(Current) = IF u >= counter THEN Aliases(Current) ELSE Chase(h[u + 1], u)
    BY DEF ChasedFrom
  <2>3. IsChase(h, counter)
    BY <2>1, <2>2 DEF IsChase
  <2> QED BY <2>3
<1>2. \A k \in Nat : k + 1 \in A => k \in A
  BY ChaseExtends
<1>3. 0 \in A
  <2> HIDE DEF A
  <2>1. A \in SUBSET Nat BY DEF A
  <2> QED BY <1>1, <1>2, <2>1, DownTo
<1>4. PICK h : IsChase(h, 0)
  BY <1>3
<1>5. ChasedFrom(0) = Nat
  BY DEF ChasedFrom
<1> QED BY <1>4, <1>5 DEF IsChase

(* Two slots are linked along the aliases of all definitions. *)
LEMMA LinkedIs ==
  /\ \A n : Linked(n, n)
  /\ \A m, n, p : Linked(m, n) /\ Linked(n, p) => Linked(m, p)
<1>1. \A n : Linked(n, n)
  BY DEF Linked
<1>2. \A m, n, p : Linked(m, n) /\ Linked(n, p) => Linked(m, p)
  BY DEF Linked
<1> QED BY <1>1, <1>2

LEMMA AliasLinks ==
  ASSUME ClassInv, NEW v \in 1..Len(defs), NEW n \in DOMAIN Aliases(defs[v])
  PROVE  n \in Names /\ Aliases(defs[v])[n] \in Names /\ Linked(Aliases(defs[v])[n], n)
<1>1. defs[v] \in Schemas /\ v \in DOMAIN defs
  BY ClassIs
<1>2. PICK i \in DOMAIN defs[v] : defs[v][i].name = n /\ defs[v][i].alias = Aliases(defs[v])[n]
  BY <1>1, AliasesIs, PosIs, SchemaIs
<1>3. n \in Names /\ Aliases(defs[v])[n] \in Names
  BY <1>1, AliasesIs, PosIs
<1>4. defs[v][i].alias # None
  BY <1>2, <1>3, SchemaAssumption
<1>5. Linked(Aliases(defs[v])[n], n)
  BY <1>1, <1>2, <1>4 DEF Linked, ClosedUnderAliases
<1> QED BY <1>3, <1>5

AlongAliases(f) ==
  /\ DOMAIN f = DOMAIN Aliases(Current)
  /\ \A n \in DOMAIN f : n \in Names /\ f[n] \in Names /\ Linked(f[n], n)

LEMMA ChaseAlong ==
  ASSUME ClassInv, NEW f, AlongAliases(f), NEW v \in Nat, v < counter
  PROVE  AlongAliases(Chase(f, v))
<1>1. v + 1 \in 1..Len(defs)
  BY ClassIs
<1>2. PICK A : A = Aliases(defs[v + 1])
  OBVIOUS
<1>3. PICK g : g = Chase(f, v)
  OBVIOUS
<1>4. DOMAIN g = DOMAIN f /\ \A n \in DOMAIN f : g[n] = IF f[n] \in DOMAIN A THEN A[f[n]] ELSE f[n]
  BY <1>2, <1>3 DEF Chase
<1>5. \A m \in DOMAIN A : A[m] \in Names /\ Linked(A[m], m)
  BY <1>1, <1>2, AliasLinks
<1>6. ASSUME NEW n \in DOMAIN f PROVE g[n] \in Names /\ Linked(g[n], n)
  BY <1>4, <1>5, LinkedIs DEF AlongAliases
<1> QED BY <1>3, <1>4, <1>6 DEF AlongAliases

LEMMA ComposedIs ==
  ASSUME ClassInv, NEW birth \in Nat
  PROVE  AlongAliases(Composed(birth))
<1> DEFINE h0 == CHOOSE h : h = [u \in Nat |-> IF u >= counter THEN Aliases(Current) ELSE Chase(h[u + 1], u)]
<1>1. PICK h : h = h0
  OBVIOUS
<1>2. Composed(birth) = h[birth + 1]
  BY <1>1 DEF Composed
<1>3. h = [u \in Nat |-> IF u >= counter THEN Aliases(Current) ELSE Chase(h[u + 1], u)]
  BY <1>1, ChaseExists, ClassIs
<1> HIDE DEF h0
<1>4. AlongAliases(Aliases(Current))
  BY ClassIs, AliasLinks DEF AlongAliases, Current
<1>5. \A u \in Nat : u >= counter => AlongAliases(h[u])
  BY <1>3, <1>4
<1>6. \A u \in Nat : u < counter => h[u] = Chase(h[u + 1], u)
  BY <1>3, ClassIs
<1> DEFINE A == {u \in Nat : AlongAliases(h[u])}
<1>7. counter \in A
  BY <1>5, ClassIs
<1>8. ASSUME NEW k \in Nat, k + 1 \in A PROVE k \in A
  <2>1. CASE k >= counter
    BY <1>5, <2>1
  <2>2. CASE k < counter
    BY <1>6, <1>8, <2>2, ChaseAlong
  <2> QED BY <2>1, <2>2, ClassIs
<1>9. CASE birth + 1 >= counter
  BY <1>2, <1>5, <1>9
<1>10. CASE birth + 1 < counter
  <2>1. A \in SUBSET Nat
    OBVIOUS
  <2>2. birth + 1 \in A
    <3>1. birth + 1 \in Nat /\ birth + 1 <= counter /\ counter \in A
      BY <1>7, <1>10, ClassIs
    <3>2. \A k \in Nat : k + 1 \in A => k \in A
      BY <1>8
    <3> HIDE DEF A
    <3> QED BY <2>1, <3>1, <3>2, DownTo
  <2> QED BY <1>2, <2>2
<1> QED BY <1>9, <1>10, ClassIs

-----------------------------------------------------------------------------
(* What a migration makes of an object: a CLOS slot keeps its value, gets   *)
(* its initform, or takes what a discarded slot held that its alias leads   *)
(* to; a place of the vector keeps its value or takes such a one.           *)
Recovers(x, y) ==
  /\ Shape(y) /\ y.layout = Len(defs)
  /\ \A n \in Names :
       \/ y.native[n] \in {x.native[n], <<n, 2>>, Unbound}
       \/ \E m \in Names : Linked(m, n) /\ y.native[n] = x.native[m]
  /\ \A i \in 1..Len(y.vec) :
       \/ y.vec[i] = Unbound
       \/ i \in 1..Len(x.vec) /\ y.vec[i] = x.vec[i]
       \/ \E n \in DOMAIN overflow : \E m \in Names :
            overflow[n] = i /\ Linked(m, n) /\ y.vec[i] = x.native[m]

LEMMA MigratedIs ==
  ASSUME ClassInv, NEW x, Shape(x), NEW y, y = Migrated(x)
  PROVE  y = Failed \/ Recovers(x, y)
<1> DEFINE old == Native(defs[x.layout])
           new == Native(Current)
           plist == {n \in old \ new : x.native[n] # Unbound}
           kept == [n \in Names |-> IF n \in old \cap new THEN x.native[n]
                                    ELSE IF n \in (new \ old) \cap Initform THEN <<n, 2>>
                                    ELSE Unbound]
           from == Composed(x.stamp)
           found == {n \in DOMAIN from : from[n] \in plist}
           toVec == found \cap DOMAIN overflow
           toNative == {n \in found \ toVec : kept[n] = Unbound}
           At(i) == LET ns == {n \in toVec : overflow[n] = i}
                    IN  IF ns # {} THEN x.native[from[CHOOSE n \in ns : TRUE]]
                        ELSE IF i <= Len(x.vec) THEN x.vec[i]
                        ELSE Unbound
           f == [n \in Names |-> IF n \in toNative THEN x.native[from[n]] ELSE kept[n]]
           base == [x EXCEPT !.layout = Len(defs), !.stamp = counter, !.native = f]
<1>1. y = IF toVec = {} THEN base
          ELSE IF x.vecState = "unset" THEN Failed
          ELSE [base EXCEPT !.vecState = "vector",
                            !.vec = [i \in 1..Cardinality(DOMAIN overflow) |-> At(i)]]
  BY DEF Migrated
<1>2. /\ old = Native(defs[x.layout]) /\ new = Native(Current)
      /\ plist = {n \in old \ new : x.native[n] # Unbound}
      /\ kept = [n \in Names |-> IF n \in old \cap new THEN x.native[n]
                                 ELSE IF n \in (new \ old) \cap Initform THEN <<n, 2>>
                                 ELSE Unbound]
      /\ from = Composed(x.stamp)
  OBVIOUS
<1>3. /\ found = {n \in DOMAIN from : from[n] \in plist}
      /\ toVec = found \cap DOMAIN overflow
      /\ toNative = {n \in found \ toVec : kept[n] = Unbound}
  OBVIOUS
<1> HIDE DEF old, new, plist, kept, from, found, toVec, toNative
<1>5. AlongAliases(from)
  BY <1>2, ComposedIs DEF Shape, ObjectRecs
<1>6. \A n \in found : n \in Names /\ from[n] \in Names /\ Linked(from[n], n) /\ n \in NameSet(Current)
  BY <1>3, <1>5, AliasesIs, ClassIs DEF AlongAliases
<1>7. x \in ObjectRecs /\ \A n \in Names : x.native[n] \in Stored
  BY DEF Shape, ObjectRecs
<1>8. \A n \in Names : kept[n] \in Stored /\ kept[n] \in {x.native[n], <<n, 2>>, Unbound}
  BY <1>2, <1>7, StoredIs DEF Stored, Values
<1>9. \A n \in Names : /\ f[n] \in Stored
                       /\ \/ f[n] \in {x.native[n], <<n, 2>>, Unbound}
                          \/ \E m \in Names : Linked(m, n) /\ f[n] = x.native[m]
  BY <1>3, <1>6, <1>7, <1>8
\* a slot that is no place of the vector is a CLOS slot
<1>10. \A n \in Names \ new : f[n] = Unbound
  <2> TAKE n \in Names \ new
  <2>1. kept[n] = Unbound
    BY <1>2
  <2>2. ASSUME n \in toNative PROVE FALSE
    <3>1. n \in NameSet(Current) /\ n \notin DOMAIN overflow
      BY <1>3, <1>6, <2>2
    <3>2. Wide(Current) /\ Current \in Schemas
      BY <1>2, <3>1, ClassIs, OverflowIs, NativeIs
    <3>3. overflow = OverflowIndices(Current)
      BY <3>2 DEF ClassInv
    <3> QED BY <1>2, <3>1, <3>2, <3>3, OverflowIs
  <2> QED BY <2>1, <2>2
<1>11. PICK g : g = f
  OBVIOUS
<1>12. g \in [Names -> Stored]
  BY <1>9, <1>11
<1>13. PICK b : b = base
  OBVIOUS
<1> HIDE DEF base, f
<1>14. b = [x EXCEPT !.layout = Len(defs), !.stamp = counter, !.native = g]
  BY <1>11, <1>13 DEF base, f
<1>15. /\ b \in ObjectRecs /\ b.layout = Len(defs) /\ b.stamp = counter /\ b.native = g
       /\ b.vec = x.vec /\ b.vecState = x.vecState
  BY <1>7, <1>12, <1>14, ClassIs DEF ObjectRecs
<1>16. Shape(b)
  BY <1>2, <1>10, <1>11, <1>15, ClassIs DEF Shape, Current
<1>17. CASE toVec = {}
  BY <1>1, <1>9, <1>11, <1>13, <1>15, <1>16, <1>17 DEF Recovers
<1>18. CASE toVec # {} /\ y # Failed
  <2>1. PICK w : w = [i \in 1..Cardinality(DOMAIN overflow) |-> At(i)]
    OBVIOUS
  <2>2. y = WithVec(b, w)
    BY <1>1, <1>13, <1>18, <2>1 DEF WithVec
  <2>3. ASSUME NEW i \in 1..Cardinality(DOMAIN overflow)
        PROVE  /\ At(i) \in Stored
               /\ \/ At(i) = Unbound
                  \/ i \in 1..Len(x.vec) /\ At(i) = x.vec[i]
                  \/ \E n \in DOMAIN overflow : \E m \in Names :
                       overflow[n] = i /\ Linked(m, n) /\ At(i) = x.native[m]
    <3>1. PICK ns : ns = {n \in toVec : overflow[n] = i}
      OBVIOUS
    <3>2. CASE ns # {}
      <4>1. PICK n \in ns : n = CHOOSE m \in ns : TRUE
        BY <3>2
      <4>2. At(i) = x.native[from[n]]
        BY <3>1, <3>2, <4>1
      <4>3. n \in DOMAIN overflow /\ overflow[n] = i /\ from[n] \in Names /\ Linked(from[n], n)
        BY <1>3, <1>6, <3>1, <4>1
      <4> HIDE DEF At
      <4> QED BY <1>7, <4>2, <4>3
    <3>3. CASE ns = {}
      <4>1. At(i) = IF i <= Len(x.vec) THEN x.vec[i] ELSE Unbound
        BY <3>1, <3>3
      <4>2. i \in Nat \ {0}
        BY OverflowMapIs
      <4> HIDE DEF At
      <4> QED BY <1>7, <4>1, <4>2, VecIs, StoredIs
    <3> QED BY <3>2, <3>3
  <2> HIDE DEF At
  <2>4. w \in [1..Cardinality(DOMAIN overflow) -> Stored]
    BY <2>1, <2>3
  <2>5. w \in Seq(Stored) /\ Len(w) = Cardinality(DOMAIN overflow)
    BY <2>4, FunctionIsSequence, OverflowMapIs
  <2>6. Shape(y) /\ y.layout = Len(defs) /\ y.native = g /\ y.vec = w
    BY <1>15, <1>16, <2>2, <2>5, VectorWriteIs
  <2>7. \A n \in Names :
          \/ y.native[n] \in {x.native[n], <<n, 2>>, Unbound}
          \/ \E m \in Names : Linked(m, n) /\ y.native[n] = x.native[m]
    BY <1>9, <1>11, <2>6
  <2>8. \A i \in 1..Len(y.vec) :
          \/ y.vec[i] = Unbound
          \/ i \in 1..Len(x.vec) /\ y.vec[i] = x.vec[i]
          \/ \E n \in DOMAIN overflow : \E m \in Names :
               overflow[n] = i /\ Linked(m, n) /\ y.vec[i] = x.native[m]
    <3> TAKE i \in 1..Len(y.vec)
    <3>1. i \in 1..Cardinality(DOMAIN overflow) /\ y.vec[i] = At(i)
      BY <2>1, <2>5, <2>6
    <3> QED BY <2>3, <3>1
  <2> QED BY <2>6, <2>7, <2>8 DEF Recovers
<1> QED BY <1>17, <1>18

-----------------------------------------------------------------------------
(* Whose values an object holds: a CLOS slot one that was written to it or  *)
(* to a slot its aliases lead to, a place of the vector one of a slot that  *)
(* some definition has there.                                               *)
Own(x) ==
  /\ \A n \in Names : x.native[n] = Unbound \/ Linked(x.native[n][1], n)
  /\ \A i \in 1..Len(x.vec) :
       \/ x.vec[i] = Unbound
       \/ \E v \in 1..Len(defs) : /\ i + NativeLimit \in 1..Len(defs[v])
                                  /\ Linked(x.vec[i][1], defs[v][i + NativeLimit].name)

Sound(x) == Shape(x) /\ (PlacesKept => Own(x))

(* A place that was never given to two slots shows its own slot's value. *)
LEMMA OwnSlot ==
  ASSUME ClassInv, PlacesKept, NEW x, Shape(x), Own(x), NEW n \in Names
  PROVE  Slot(x, n) \in {Unbound, Broken} \/ Linked(Slot(x, n)[1], n)
<1>1. ASSUME n \in DOMAIN overflow, ~(overflow[n] > Len(x.vec))
      PROVE  x.vec[overflow[n]] = Unbound \/ Linked(x.vec[overflow[n]][1], n)
  <2>1. PICK i : i = overflow[n]
    OBVIOUS
  <2>2. PICK u \in 1..Len(defs) : i + NativeLimit \in 1..Len(defs[u]) /\ defs[u][i + NativeLimit].name = n
    BY <1>1, <2>1, OverflowMapIs
  <2>3. i \in 1..Len(x.vec)
    BY <1>1, <2>1, OverflowMapIs, VecIs DEF Shape
  <2>4. CASE x.vec[i] # Unbound
    <3>1. PICK v \in 1..Len(defs) : /\ i + NativeLimit \in 1..Len(defs[v])
                                   /\ Linked(x.vec[i][1], defs[v][i + NativeLimit].name)
      BY <2>3, <2>4 DEF Own
    <3>2. PICK j : j = i + NativeLimit
      OBVIOUS
    <3>3. j \in DOMAIN defs[u] \cap DOMAIN defs[v] /\ j > NativeLimit /\ u \in DOMAIN defs /\ v \in DOMAIN defs
      BY <2>2, <2>3, <3>1, <3>2, ClassIs, SchemaIs, SchemaAssumption
    <3>4. defs[u][j].name = defs[v][j].name
      BY <3>3 DEF PlacesKept
    <3> QED BY <2>1, <2>2, <3>1, <3>2, <3>4
  <2> QED BY <2>1, <2>4
<1>2. x.native[n] = Unbound \/ Linked(x.native[n][1], n)
  BY DEF Own
<1> QED BY <1>1, <1>2 DEF Slot

LEMMA CopySound ==
  ASSUME ClassInv, NEW x, Sound(x), x.layout = Len(defs),
         NEW keep \in SUBSET Native(Current), ~CopyFails(x, keep),
         NEW y, y = Copy(x, keep)
  PROVE  Sound(y)
<1>1. /\ Shape(x) /\ Shape(y)
      /\ \A n \in Names : y.native[n] = IF n \in keep THEN Source(x, n) ELSE Unbound
      /\ (y.vec = x.vec \/ y.vec = <<>>)
  <2>1. Shape(x)
    BY DEF Sound
  <2>2. /\ Shape(y)
        /\ \A n \in Names : y.native[n] = IF n \in keep THEN Source(x, n) ELSE Unbound
        /\ Wide(Current) => y.vec = x.vec
        /\ ~Wide(Current) => y.vec = <<>>
    BY <2>1, CopyIs
  <2> QED BY <2>1, <2>2
<1>2. ASSUME PlacesKept PROVE Own(y)
  <2>1. Own(x)
    BY <1>2 DEF Sound
  <2>2. ASSUME NEW n \in keep PROVE Source(x, n) = Unbound \/ Linked(Source(x, n)[1], n)
    <3>1. n \in Names /\ Source(x, n) # Broken /\ Current \in Schemas
      BY ClassIs, NativeIs, PosIs DEF CopyFails
    <3>2. CASE Source(x, n) = x.native[n]
      BY <2>1, <3>1, <3>2 DEF Own
    <3>3. CASE n \in DOMAIN Aliases(Current) /\ Source(x, n) = Slot(x, Aliases(Current)[n])
      <4>1. PICK a : a = Aliases(Current)[n]
        OBVIOUS
      <4>2. a \in Names /\ Linked(a, n)
        BY <3>3, <4>1, AliasLinks, ClassIs DEF Current
      <4>3. Slot(x, a) \in {Unbound, Broken} \/ Linked(Slot(x, a)[1], a)
        BY <1>1, <1>2, <2>1, <4>2, OwnSlot
      <4> QED BY <3>1, <3>3, <4>1, <4>2, <4>3, LinkedIs
    <3> QED BY <3>2, <3>3 DEF Source
  <2>3. \A n \in Names : y.native[n] = Unbound \/ Linked(y.native[n][1], n)
    BY <1>1, <2>2
  <2>4. CASE y.vec = x.vec
    BY <2>1, <2>3, <2>4 DEF Own
  <2>5. CASE y.vec = <<>>
    BY <2>3, <2>5 DEF Own
  <2> QED BY <1>1, <2>4, <2>5
<1> QED BY <1>1, <1>2 DEF Sound

LEMMA WriteSound ==
  ASSUME ClassInv, NEW x, Sound(x), NEW n, NEW v, Linked(v[1], n), NEW y, Writes(x, y, n, v)
  PROVE  Sound(y)
<1>1. Shape(y)
  BY DEF Writes
<1>2. ASSUME PlacesKept PROVE Own(y)
  <2>1. Own(x)
    BY <1>2 DEF Sound
  <2>2. \A m \in Names : y.native[m] = Unbound \/ Linked(y.native[m][1], m)
    BY <2>1 DEF Own, Writes
  <2>3. ASSUME NEW i \in 1..Len(y.vec), y.vec[i] # Unbound
        PROVE  \E u \in 1..Len(defs) : /\ i + NativeLimit \in 1..Len(defs[u])
                                       /\ Linked(y.vec[i][1], defs[u][i + NativeLimit].name)
    <3>1. CASE i \in 1..Len(x.vec) /\ y.vec[i] = x.vec[i]
      BY <2>1, <2>3, <3>1 DEF Own
    <3>2. CASE n \in DOMAIN overflow /\ i = overflow[n] /\ y.vec[i] = v
      BY <3>2, OverflowMapIs
    <3> QED BY <2>3, <3>1, <3>2 DEF Writes
  <2> QED BY <2>2, <2>3 DEF Own
<1> QED BY <1>1, <1>2 DEF Sound

LEMMA NewSound ==
  ASSUME ClassInv, NEW given \in SUBSET NameSet(Current), NEW bypass \in BOOLEAN,
         NEW y, y = New(Current, given, bypass)
  PROVE  Sound(y)
<1>1. /\ Shape(y)
      /\ \A n \in Names : y.native[n] \in {<<n, 0>>, <<n, 2>>, Unbound}
      /\ \A i \in 1..Len(y.vec) :
           /\ i + NativeLimit \in 1..Len(Current)
           /\ y.vec[i] \in {<<Current[i + NativeLimit].name, 0>>, Unbound}
  BY NewIs
<1>2. \A n \in Names : y.native[n] = Unbound \/ Linked(y.native[n][1], n)
  BY <1>1, LinkedIs
<1>3. \A i \in 1..Len(y.vec) : y.vec[i] = Unbound \/ Linked(y.vec[i][1], defs[Len(defs)][i + NativeLimit].name)
  BY <1>1, LinkedIs DEF Current
<1>4. Own(y)
  <2>1. Len(defs) \in 1..Len(defs)
    BY ClassIs
  <2>2. ASSUME NEW i \in 1..Len(y.vec), y.vec[i] # Unbound
        PROVE  \E v \in 1..Len(defs) : /\ i + NativeLimit \in 1..Len(defs[v])
                                       /\ Linked(y.vec[i][1], defs[v][i + NativeLimit].name)
    BY <1>1, <1>3, <2>1, <2>2 DEF Current
  <2> QED BY <1>2, <2>2 DEF Own
<1> QED BY <1>1, <1>4 DEF Sound

LEMMA RecoverySound ==
  ASSUME ClassInv, NEW x, Sound(x), NEW y, Recovers(x, y)
  PROVE  Sound(y)
<1>1. Shape(y)
  BY DEF Recovers
<1>2. ASSUME PlacesKept PROVE Own(y)
  <2>1. Own(x)
    BY <1>2 DEF Sound
  <2>2. \A n, m \in Names : Linked(m, n) => x.native[m] = Unbound \/ Linked(x.native[m][1], n)
    BY <2>1, LinkedIs DEF Own
  <2>3. ASSUME NEW n \in Names PROVE y.native[n] = Unbound \/ Linked(y.native[n][1], n)
    <3>1. Linked(n, n)
      BY LinkedIs
    <3> QED BY <2>2, <3>1 DEF Recovers
  <2>4. ASSUME NEW i \in 1..Len(y.vec), y.vec[i] # Unbound
        PROVE  \E u \in 1..Len(defs) : /\ i + NativeLimit \in 1..Len(defs[u])
                                       /\ Linked(y.vec[i][1], defs[u][i + NativeLimit].name)
    <3>1. CASE i \in 1..Len(x.vec) /\ y.vec[i] = x.vec[i]
      BY <2>1, <2>4, <3>1 DEF Own
    <3>2. CASE \E n \in DOMAIN overflow : \E m \in Names :
                 overflow[n] = i /\ Linked(m, n) /\ y.vec[i] = x.native[m]
      <4>1. PICK n \in DOMAIN overflow, m \in Names :
              overflow[n] = i /\ Linked(m, n) /\ y.vec[i] = x.native[m]
        BY <3>2
      <4>2. n \in Names /\ Linked(y.vec[i][1], n)
        BY <2>2, <2>4, <4>1, OverflowMapIs
      <4> QED BY <4>1, <4>2, OverflowMapIs
    <3> QED BY <2>4, <3>1, <3>2 DEF Recovers
  <2> QED BY <2>3, <2>4 DEF Own
<1> QED BY <1>1, <1>2 DEF Sound

(* dissoc-slots empties slots of a copy. *)
LEMMA DissocSound ==
  ASSUME ClassInv, NEW o \in Objects, UpToDate(o), Sound(obj[o]),
         NEW n, NEW y,
         LET x == obj[o]
             keep == {m \in Native(Current) : ~Removed(m, n)}
             new == Copy(x, keep)
             gone == {overflow[m] : m \in {l \in DOMAIN overflow : Removed(l, n)}}
             cleared == Wide(Current) /\ n \in DOMAIN overflow
         IN  y = IF CopyFails(x, keep) THEN Failed
                 ELSE IF ~Wide(Current) THEN new
                 ELSE IF x.vecState = "nil" THEN [new EXCEPT !.vecState = "unset"]
                 ELSE IF cleared /\ \E i \in gone : i > Len(x.vec) THEN Failed
                 ELSE IF cleared THEN [new EXCEPT !.vec = [i \in DOMAIN @ |-> IF i \in gone THEN Unbound ELSE @[i]]]
                 ELSE new
  PROVE  y = Failed \/ Sound(y)
<1>1. PICK x : x = obj[o]
  OBVIOUS
<1>2. PICK keep : keep = {m \in Native(Current) : ~Removed(m, n)}
  OBVIOUS
<1>3. PICK gone : gone = {overflow[m] : m \in {l \in DOMAIN overflow : Removed(l, n)}}
  OBVIOUS
<1>4. PICK new : new = Copy(x, keep)
  OBVIOUS
<1>5. \/ y = Failed
      \/ ~CopyFails(x, keep) /\ y = new
      \/ ~CopyFails(x, keep) /\ Wide(Current) /\ x.vecState = "nil" /\ y = [new EXCEPT !.vecState = "unset"]
      \/ /\ ~CopyFails(x, keep) /\ Wide(Current) /\ x.vecState # "nil"
         /\ y = [new EXCEPT !.vec = [i \in DOMAIN @ |-> IF i \in gone THEN Unbound ELSE @[i]]]
  BY <1>1, <1>2, <1>3, <1>4
<1>6. Sound(x) /\ Shape(x) /\ x.layout = Len(defs) /\ keep \in SUBSET Native(Current)
  BY <1>1, <1>2 DEF UpToDate, Sound
<1>7. CASE ~CopyFails(x, keep)
  <2>1. Sound(new) /\ Shape(new) /\ new \in ObjectRecs
    BY <1>4, <1>6, <1>7, CopySound DEF Sound, Shape
  <2>2. Wide(Current) => new.vecState = x.vecState /\ new.vec = x.vec /\ x.vecState # "unset"
    BY <1>4, <1>6, <1>7, CopyIs
  <2>3. CASE Wide(Current) /\ x.vecState = "nil" /\ y = [new EXCEPT !.vecState = "unset"]
    <3>1. /\ y \in ObjectRecs /\ y.vecState = "unset" /\ y.layout = new.layout /\ y.stamp = new.stamp
          /\ y.native = new.native /\ y.vec = new.vec
      BY <2>1, <2>3 DEF ObjectRecs
    <3>2. new.vec = <<>>
      BY <2>1, <2>2, <2>3 DEF Shape
    <3>3. Shape(y)
      BY <2>1, <3>1, <3>2 DEF Shape
    <3>4. Own(new) => Own(y)
      BY <3>1 DEF Own
    <3> QED BY <2>1, <3>3, <3>4 DEF Sound
  <2>4. CASE /\ Wide(Current) /\ x.vecState # "nil"
             /\ y = [new EXCEPT !.vec = [i \in DOMAIN @ |-> IF i \in gone THEN Unbound ELSE @[i]]]
    <3>1. PICK w : w = [i \in DOMAIN new.vec |-> IF i \in gone THEN Unbound ELSE new.vec[i]]
      OBVIOUS
    <3>2. new.vecState = "vector"
      BY <1>6, <2>1, <2>2, <2>4 DEF ObjectRecs
    <3>3. y = WithVec(new, w)
      <4>1. y = [new EXCEPT !.vec = w]
        BY <2>1, <2>4, <3>1 DEF ObjectRecs
      <4> QED BY <2>1, <3>2, <4>1 DEF WithVec, ObjectRecs
    <3>4. w \in [1..Len(new.vec) -> Stored] /\ Len(new.vec) \in Nat
      BY <2>1, <3>1, VecIs, StoredIs
    <3>5. w \in Seq(Stored) /\ Len(w) = Len(new.vec)
      BY <3>4, FunctionIsSequence
    <3>6. Shape(y) /\ y.native = new.native /\ y.vec = w
      BY ONLY <2>1, <3>3, <3>5, VectorWriteIs
    <3>7. \A i \in 1..Len(w) : w[i] = Unbound \/ (i \in 1..Len(new.vec) /\ w[i] = new.vec[i])
      BY <2>1, <3>1, <3>5, VecIs
    <3>8. Own(new) => Own(y)
      BY <3>6, <3>7 DEF Own
    <3> QED BY <2>1, <3>6, <3>8 DEF Sound
  <2> QED BY <1>5, <1>7, <2>1, <2>3, <2>4
<1> QED BY <1>5, <1>7

-----------------------------------------------------------------------------
(* The whole invariant. *)

Linking(p) == p[2] # None => Linked(p[1], p[2])

AnswerInv ==
  /\ cache # None => Linking(cache)
  /\ look = [r \in Readers |-> look[r]]
  /\ \A r \in Readers : look[r] # None => Linking(look[r])

ObjectInv ==
  /\ obj = [o \in Objects |-> obj[o]]
  /\ \A o \in Objects : Exists(o) => Sound(obj[o])

SchemaInv == ClassInv /\ AnswerInv /\ ObjectInv

LEMMA SlotNameLinks ==
  ASSUME ClassInv, AnswerInv, NEW k \in Names
  PROVE  /\ kwMap[k] # None => Linked(k, kwMap[k])
         /\ SlotName(k) # None => Linked(k, SlotName(k))
<1>1. PICK S \in Schemas : S = Current /\ kwMap[k] = KeywordMap(S)[k]
  BY ClassIs DEF ClassInv
<1>2. ASSUME NEW i \in 1..Len(S), S[i].alias = k PROVE Linked(k, S[i].name)
  <2>1. Len(defs) \in DOMAIN defs /\ i \in DOMAIN defs[Len(defs)] /\ defs[Len(defs)] = S /\ k # None
    BY <1>1, ClassIs, SchemaIs, SchemaAssumption DEF Current
  <2> QED BY <1>2, <2>1 DEF Linked, ClosedUnderAliases
<1>3. kwMap[k] # None => Linked(k, kwMap[k])
  BY <1>1, <1>2, KeywordMapIs, LinkedIs
<1>4. Cached(k) => cache[1] = k /\ Linking(cache)
  BY DEF Cached, AnswerInv
<1> QED BY <1>3, <1>4 DEF SlotName, Linking

(* The class only gains definitions. *)
Grows ==
  /\ Len(defs') \in Nat /\ Len(defs) <= Len(defs') /\ DOMAIN defs' = 1..Len(defs')
  /\ \A v \in 1..Len(defs) : defs'[v] = defs[v]

LEMMA LinkedGrows ==
  ASSUME ClassInv, Grows, NEW m, NEW n, Linked(m, n)
  PROVE  Linked(m, n)'
<1>1. \A v \in DOMAIN defs : v \in DOMAIN defs' /\ defs'[v] = defs[v]
  BY ClassIs DEF Grows
<1>2. ASSUME NEW R \in SUBSET Names, ClosedUnderAliases(R)' PROVE ClosedUnderAliases(R)
  BY <1>1, <1>2 DEF ClosedUnderAliases
<1> QED BY <1>2 DEF Linked

LEMMA OwnGrows ==
  ASSUME ClassInv, Grows, NEW x, Own(x)
  PROVE  Own(x)'
<1>1. \A n \in Names : x.native[n] = Unbound \/ Linked(x.native[n][1], n)'
  BY LinkedGrows DEF Own
<1>2. ASSUME NEW i \in 1..Len(x.vec), x.vec[i] # Unbound
      PROVE  (\E v \in 1..Len(defs) : /\ i + NativeLimit \in 1..Len(defs[v])
                                      /\ Linked(x.vec[i][1], defs[v][i + NativeLimit].name))'
  <2>1. PICK v \in 1..Len(defs) : /\ i + NativeLimit \in 1..Len(defs[v])
                                 /\ Linked(x.vec[i][1], defs[v][i + NativeLimit].name)
    BY <1>2 DEF Own
  <2>2. v \in 1..Len(defs') /\ defs'[v] = defs[v]
    BY ClassIs DEF Grows
  <2>3. PICK n : n = defs[v][i + NativeLimit].name
    OBVIOUS
  <2>4. Linked(x.vec[i][1], n)' /\ n = defs'[v][i + NativeLimit].name
    BY <2>1, <2>2, <2>3, LinkedGrows
  <2>5. Linked(x.vec[i][1], defs[v][i + NativeLimit].name)'
    BY <2>4
  <2> QED BY <2>1, <2>2, <2>5
<1> QED BY <1>1, <1>2 DEF Own

LEMMA SoundGrows ==
  ASSUME ClassInv, Grows, counter' >= counter, counter' \in Nat, NEW x, Sound(x)
  PROVE  Sound(x)'
<1>1. Shape(x)'
  <2>1. x.layout \in 1..Len(defs') /\ defs'[x.layout] = defs[x.layout]
    BY ClassIs DEF Sound, Shape, Grows
  <2>2. x \in ObjectRecs /\ x.stamp <= counter'
    <3>1. x \in ObjectRecs /\ x.stamp <= counter /\ x.stamp \in Nat
      BY DEF Sound, Shape, ObjectRecs
    <3> QED BY <3>1, ClassIs
  <2> QED BY <2>1, <2>2 DEF Sound, Shape
<1>2. ASSUME PlacesKept' PROVE Own(x)'
  <2>1. \A v \in DOMAIN defs : v \in DOMAIN defs' /\ defs'[v] = defs[v]
    BY ClassIs DEF Grows
  <2>2. PlacesKept
    BY <1>2, <2>1 DEF PlacesKept
  <2> QED BY <2>2, OwnGrows DEF Sound
<1> QED BY <1>1, <1>2 DEF Sound

LEMMA AnswerGrows ==
  ASSUME ClassInv, Grows, NEW p, Linking(p)
  PROVE  Linking(p)'
BY LinkedGrows DEF Linking

(* A step that replaces one object by a sound one, or fails. *)
LEMMA ObjectStep ==
  ASSUME SchemaInv, UNCHANGED <<defs, counter>>, NEW o \in Objects,
         NEW y, y = Failed \/ Sound(y), obj' = [obj EXCEPT ![o] = y]
  PROVE  ObjectInv'
<1>1. Grows /\ counter' >= counter /\ counter' \in Nat
  BY ClassIs DEF Grows, SchemaInv
<1>2. obj' = [p \in Objects |-> obj'[p]] /\ obj'[o] = y /\ \A p \in Objects \ {o} : obj'[p] = obj[p]
  BY DEF SchemaInv, ObjectInv
<1>3. ASSUME NEW p \in Objects, Exists(p)' PROVE Sound(obj[p])'
  <2>1. PICK z : z = obj'[p]
    OBVIOUS
  <2>2. z \notin {NoObject, Failed}
    BY <1>3, <2>1 DEF Exists
  <2>3. Sound(z)
    BY <1>2, <2>1, <2>2 DEF SchemaInv, ObjectInv, Exists
  <2>4. Sound(z)'
    BY <1>1, <2>3, SoundGrows DEF SchemaInv
  <2> QED BY <2>1, <2>4
<1> QED BY <1>2, <1>3 DEF ObjectInv

(* A step that leaves the objects alone. *)
LEMMA ObjectsStay ==
  ASSUME SchemaInv, Grows, counter' >= counter, counter' \in Nat, obj' = obj
  PROVE  ObjectInv'
<1>1. ASSUME NEW p \in Objects, Exists(p)' PROVE Sound(obj[p])'
  <2>1. PICK z : z = obj[p] /\ z = obj'[p]
    OBVIOUS
  <2>2. Sound(z)
    BY <1>1, <2>1 DEF SchemaInv, ObjectInv, Exists
  <2>3. Sound(z)'
    BY <2>2, SoundGrows DEF SchemaInv
  <2> QED BY <2>1, <2>3
<1> QED BY <1>1 DEF ObjectInv, SchemaInv

(* The cached pair and the lookups in progress, when the answers still come *)
(* from them or from the map.                                               *)
LEMMA AnswersStep ==
  ASSUME SchemaInv, Grows,
         cache' = cache \/ cache' = None
           \/ (\E k \in Names : cache' = <<k, kwMap[k]>>)
           \/ (\E r \in Readers : look[r] # None /\ cache' = look[r]),
         look' = [r \in Readers |-> look'[r]],
         \A r \in Readers : look'[r] = look[r] \/ look'[r] = None \/ \E k \in Names : look'[r] = <<k, kwMap[k]>>
  PROVE  AnswerInv'
<1>1. ASSUME NEW k \in Names PROVE Linking(<<k, kwMap[k]>>)
  BY SlotNameLinks DEF SchemaInv, Linking
<1>2. ASSUME cache' # None PROVE Linking(cache)'
  <2>1. PICK p : p = cache'
    OBVIOUS
  <2>2. Linking(p)
    BY <1>1, <1>2, <2>1 DEF SchemaInv, AnswerInv
  <2>3. Linking(p)'
    BY <2>2, AnswerGrows DEF SchemaInv
  <2> QED BY <2>1, <2>3
<1>3. ASSUME NEW r \in Readers, look'[r] # None PROVE Linking(look[r])'
  <2>1. PICK p : p = look'[r]
    OBVIOUS
  <2>2. Linking(p)
    BY <1>1, <1>3, <2>1 DEF SchemaInv, AnswerInv
  <2>3. Linking(p)'
    BY <2>2, AnswerGrows DEF SchemaInv
  <2> QED BY <2>1, <2>3
<1> QED BY <1>2, <1>3 DEF AnswerInv

LEMMA SchemaInit == Init => SchemaInv
<1> SUFFICES ASSUME Init PROVE SchemaInv OBVIOUS
<1>1. PICK S \in Schemas : defs = <<S>> /\ overflow = OverflowIndices(S) /\ kwMap = KeywordMap(S)
  BY DEF Init
<1>2. defs \in Seq(Schemas) /\ Len(defs) = 1 /\ defs[1] = S /\ DOMAIN defs = 1..1
  BY <1>1
<1>3. counter = 0 /\ phase = "stable"
  BY DEF Init
<1>4. ClassInv
  BY <1>1, <1>2, <1>3, SchemaAssumption DEF ClassInv, Current
<1>5. AnswerInv
  BY DEF Init, AnswerInv
<1>6. ObjectInv
  BY DEF Init, ObjectInv, Exists
<1> QED BY <1>4, <1>5, <1>6 DEF SchemaInv

LEMMA StepGrows ==
  ASSUME ClassInv, [Next]_vars
  PROVE  Grows /\ counter' >= counter /\ counter' \in Nat
<1>1. CASE UNCHANGED <<defs, counter>>
  BY <1>1, ClassIs DEF Grows
<1>2. CASE Snapshot
  BY <1>2, ClassIs DEF Snapshot, Grows
<1>3. CASE NewLayout
  <2>1. PICK S \in Schemas : defs' = Append(defs, S) /\ counter' = counter
    BY <1>3 DEF NewLayout
  <2>2. defs \in Seq(Schemas)
    BY DEF ClassInv
  <2>3. /\ defs' \in Seq(Schemas) /\ Len(defs') = Len(defs) + 1
        /\ \A v \in 1..Len(defs) : defs'[v] = defs[v]
    BY <2>1, <2>2
  <2>4. DOMAIN defs' = 1..Len(defs')
    BY <2>3
  <2> QED BY <2>1, <2>3, <2>4, ClassIs DEF Grows
<1> QED BY <1>1, <1>2, <1>3 DEF Next, Redefine, ResetCache, Use, Make, Migrate, UpdateSlots, DissocSlots,
                               Transient, Persistent, Lookup, LookupMiss, LookupStore, vars

(* A redefinition leaves the objects as they are, or moves an object to an  *)
(* equal layout.                                                            *)
LEMMA LayoutStep ==
  ASSUME SchemaInv, NewLayout
  PROVE  ObjectInv'
<1>1. PICK S \in Schemas :
        /\ defs' = Append(defs, S)
        /\ obj' = [o \in Objects |->
                     IF UpToDate(o) /\ SameLayout(S)
                     THEN [obj[o] EXCEPT !.layout = Len(defs) + 1] ELSE obj[o]]
  BY DEF NewLayout
<1>2. ClassInv /\ defs \in Seq(Schemas) /\ Len(defs) \in Nat
  BY ClassIs DEF SchemaInv, ClassInv
<1>3. Grows /\ counter' >= counter /\ counter' \in Nat
  BY <1>2, StepGrows DEF Next, Redefine
<1>4. Len(defs') = Len(defs) + 1 /\ defs'[Len(defs) + 1] = S
  BY <1>1, <1>2
<1>5. ASSUME NEW o \in Objects, Exists(o)' PROVE Sound(obj[o])'
  <2>1. PICK x : x = obj[o]
    OBVIOUS
  <2>2. PICK y : y = obj'[o]
    OBVIOUS
  <2>3. CASE y = x
    <3>1. Sound(x)
      BY <1>5, <2>1, <2>2, <2>3 DEF Exists, SchemaInv, ObjectInv
    <3>2. Sound(y)'
      BY <1>2, <1>3, <2>3, <3>1, SoundGrows
    <3> QED BY <2>2, <3>2
  <2>4. CASE /\ UpToDate(o) /\ SameLayout(S)
             /\ y = [x EXCEPT !.layout = Len(defs) + 1]
    <3>1. Sound(x) /\ x.layout = Len(defs)
      BY <2>1, <2>4 DEF UpToDate, SchemaInv, ObjectInv
    <3>2. Sound(x)'
      BY <1>2, <1>3, <3>1, SoundGrows
    <3>3. Native(defs[x.layout]) = Native(S)
      BY <2>4, <3>1 DEF SameLayout, Native, Current
    <3>4. /\ y \in ObjectRecs /\ y.layout = Len(defs) + 1 /\ y.stamp = x.stamp /\ y.native = x.native
          /\ y.vec = x.vec /\ y.vecState = x.vecState
      BY <1>2, <2>4, <3>1 DEF Sound, Shape, ObjectRecs
    <3>5. Shape(y)'
      <4>1. \A n \in Names \ Native(S) : y.native[n] = Unbound
        BY <3>1, <3>3, <3>4 DEF Sound, Shape
      <4>2. y.layout \in 1..Len(defs') /\ defs'[y.layout] = S
        BY <1>2, <1>4, <3>4
      <4>3. y.stamp <= counter' /\ (y.vecState # "vector" => y.vec = <<>>)
        BY <3>2, <3>4 DEF Sound, Shape
      <4> QED BY <3>4, <4>1, <4>2, <4>3 DEF Shape
    <3>6. Own(x)' => Own(y)'
      BY <3>4 DEF Own
    <3>7. Sound(y)'
      BY <3>2, <3>5, <3>6 DEF Sound
    <3> QED BY <2>2, <3>7
  <2> QED BY <1>1, <2>1, <2>2, <2>3, <2>4
<1> QED BY <1>1, <1>5 DEF ObjectInv

(* Transients differ from other objects by their owner only. *)
LEMMA OwnershipSound ==
  ASSUME NEW x, Sound(x), NEW b \in BOOLEAN, NEW y, y = [x EXCEPT !.transient = b]
  PROVE  Sound(y)
<1>1. /\ y \in ObjectRecs /\ y.layout = x.layout /\ y.stamp = x.stamp /\ y.native = x.native
      /\ y.vec = x.vec /\ y.vecState = x.vecState
  BY DEF Sound, Shape, ObjectRecs
<1>2. Own(x) => Own(y)
  BY <1>1 DEF Own
<1> QED BY <1>1, <1>2 DEF Sound, Shape

LEMMA UpdateStep ==
  ASSUME SchemaInv, NEW o \in Objects, UpdateSlots(o)
  PROVE  ObjectInv'
<1>1. PICK k \in Keywords :
        /\ SlotName(k) # None
        /\ obj' = [obj EXCEPT ![o] =
                     IF obj[o].transient THEN WrittenInPlace(obj[o], SlotName(k), <<k, 1>>)
                     ELSE IF CopyFails(obj[o], Native(Current)) THEN Failed
                     ELSE Written(Copy(obj[o], Native(Current)), SlotName(k), <<k, 1>>)]
  BY DEF UpdateSlots
<1>2. UNCHANGED <<defs, counter>> /\ UpToDate(o)
  BY DEF UpdateSlots
<1>3. PICK x, n, v : x = obj[o] /\ n = SlotName(k) /\ v = <<k, 1>>
  OBVIOUS
<1>4. ClassInv /\ Sound(x) /\ Shape(x) /\ x.layout = Len(defs)
  BY <1>2, <1>3 DEF UpToDate, SchemaInv, ObjectInv, Sound
<1>5. v \in Values /\ Linked(v[1], n)
  <2>1. k \in Names
    BY SchemaAssumption
  <2> QED BY <1>1, <1>3, <2>1, SlotNameLinks DEF SchemaInv, Values
<1>6. PICK y : y = IF x.transient THEN WrittenInPlace(x, n, v)
                   ELSE IF CopyFails(x, Native(Current)) THEN Failed
                   ELSE Written(Copy(x, Native(Current)), n, v)
  OBVIOUS
<1>7. CASE y = WrittenInPlace(x, n, v)
  <2>1. y = Failed \/ Writes(x, y, n, v)
    BY <1>4, <1>5, <1>7, WrittenIs
  <2> QED BY <1>1, <1>2, <1>3, <1>4, <1>5, <1>6, <2>1, WriteSound, ObjectStep
<1>8. CASE ~CopyFails(x, Native(Current)) /\ y = Written(Copy(x, Native(Current)), n, v)
  <2>1. PICK z : z = Copy(x, Native(Current))
    OBVIOUS
  <2>2. Sound(z) /\ Shape(z) /\ z.layout = Len(defs)
    BY <1>4, <1>8, <2>1, CopyIs, CopySound
  <2>3. y = Failed \/ Writes(z, y, n, v)
    BY <1>4, <1>5, <1>8, <2>1, <2>2, WrittenIs
  <2>4. y = Failed \/ Sound(y)
    BY <1>4, <1>5, <2>2, <2>3, WriteSound
  <2> QED BY <1>1, <1>2, <1>3, <1>6, <2>4, ObjectStep
<1>9. CASE y = Failed
  BY <1>1, <1>2, <1>3, <1>6, <1>9, ObjectStep
<1> QED BY <1>6, <1>7, <1>8, <1>9

LEMMA SchemaStep == SchemaInv /\ [Next]_vars => SchemaInv'
<1> SUFFICES ASSUME SchemaInv, [Next]_vars PROVE SchemaInv' OBVIOUS
<1>1. ClassInv' /\ Grows /\ counter' >= counter /\ counter' \in Nat
  BY ClassStep, StepGrows DEF SchemaInv
<1>2. Keywords \subseteq Names /\ look = [r \in Readers |-> look[r]]
  BY SchemaAssumption DEF SchemaInv, AnswerInv
<1>3. AnswerInv'
  <2>1. CASE cache' = cache /\ look' = look
    BY <1>1, <1>2, <2>1, AnswersStep
  <2>2. CASE ResetCache
    BY <1>1, <1>2, <2>2, AnswersStep DEF ResetCache
  <2>3. ASSUME NEW o \in Objects, NEW k \in Keywords, Remember(k), look' = look PROVE AnswerInv'
    BY <1>1, <1>2, <2>3, AnswersStep DEF Remember
  <2>4. ASSUME NEW r \in Readers, LookupMiss(r) PROVE AnswerInv'
    <3>1. PICK k \in Keywords : look' = [look EXCEPT ![r] = <<k, kwMap[k]>>]
      BY <2>4 DEF LookupMiss
    <3>2. cache' = cache
      BY <2>4 DEF LookupMiss
    <3>3. look' = [q \in Readers |-> look'[q]] /\ k \in Names
      BY <1>2, <3>1
    <3>4. \A q \in Readers : look'[q] = look[q] \/ look'[q] = <<k, kwMap[k]>>
      BY <1>2, <3>1
    <3> QED BY <1>1, <3>2, <3>3, <3>4, AnswersStep
  <2>5. ASSUME NEW r \in Readers, LookupStore(r) PROVE AnswerInv'
    <3>1. look[r] # None /\ cache' = look[r] /\ look' = [look EXCEPT ![r] = None]
      BY <2>5 DEF LookupStore
    <3>2. look' = [q \in Readers |-> look'[q]] /\ \A q \in Readers : look'[q] = look[q] \/ look'[q] = None
      BY <1>2, <3>1
    <3> QED BY <1>1, <3>1, <3>2, AnswersStep
  <2>6. ASSUME NEW o \in Objects, Use(o) PROVE AnswerInv'
    <3>1. CASE UpdateSlots(o)
      BY <2>3, <3>1 DEF UpdateSlots
    <3>2. CASE DissocSlots(o)
      BY <2>3, <3>2 DEF DissocSlots
    <3> QED BY <2>1, <2>6, <3>1, <3>2 DEF Use, Make, Migrate, Transient, Persistent
  <2> QED BY <2>1, <2>2, <2>4, <2>5, <2>6 DEF Next, Redefine, Lookup, Snapshot, NewLayout, vars
<1>4. ObjectInv'
  <2>1. CASE obj' = obj
    BY <1>1, <2>1, ObjectsStay
  <2>2. CASE NewLayout
    BY <2>2, LayoutStep
  <2>3. ASSUME NEW o \in Objects, Make(o) PROVE ObjectInv'
    <3>1. PICK given \in SUBSET NameSet(Current), bypass \in BOOLEAN :
            obj' = [obj EXCEPT ![o] = New(Current, given, bypass)]
      BY <2>3 DEF Make
    <3>2. PICK y : y = New(Current, given, bypass)
      OBVIOUS
    <3>3. Sound(y)
      BY <3>2, NewSound DEF SchemaInv
    <3> QED BY <2>3, <3>1, <3>2, <3>3, ObjectStep DEF Make
  <2>4. ASSUME NEW o \in Objects, Migrate(o) PROVE ObjectInv'
    <3>1. Exists(o) /\ obj' = [obj EXCEPT ![o] = Migrated(obj[o])] /\ UNCHANGED <<defs, counter>>
      BY <2>4 DEF Migrate
    <3>2. PICK x, y : x = obj[o] /\ y = Migrated(x)
      OBVIOUS
    <3>3. ClassInv /\ Sound(x) /\ Shape(x)
      BY <3>1, <3>2 DEF SchemaInv, ObjectInv, Sound
    <3>4. y = Failed \/ Recovers(x, y)
      BY <3>2, <3>3, MigratedIs
    <3>5. y = Failed \/ Sound(y)
      BY <3>3, <3>4, RecoverySound
    <3> QED BY <3>1, <3>2, <3>5, ObjectStep
  <2>5. ASSUME NEW o \in Objects, DissocSlots(o) PROVE ObjectInv'
    <3>1. PICK k \in Keywords :
            LET x == obj[o]
                n == SlotName(k)
                keep == {m \in Native(Current) : ~Removed(m, n)}
                new == Copy(x, keep)
                gone == {overflow[m] : m \in {l \in DOMAIN overflow : Removed(l, n)}}
                cleared == Wide(Current) /\ n \in DOMAIN overflow
            IN  obj' = [obj EXCEPT ![o] =
                     IF CopyFails(x, keep) THEN Failed
                     ELSE IF ~Wide(Current) THEN new
                     ELSE IF x.vecState = "nil" THEN [new EXCEPT !.vecState = "unset"]
                     ELSE IF cleared /\ \E i \in gone : i > Len(x.vec) THEN Failed
                     ELSE IF cleared THEN [new EXCEPT !.vec = [i \in DOMAIN @ |-> IF i \in gone THEN Unbound ELSE @[i]]]
                     ELSE new]
      BY <2>5 DEF DissocSlots
    <3>2. UpToDate(o) /\ UNCHANGED <<defs, counter>>
      BY <2>5 DEF DissocSlots
    <3>3. ClassInv /\ Sound(obj[o])
      BY <3>2 DEF SchemaInv, ObjectInv, UpToDate
    <3>4. PICK n : n = SlotName(k)
      OBVIOUS
    <3>5. PICK y :
             LET x == obj[o]
                 keep == {m \in Native(Current) : ~Removed(m, n)}
                 new == Copy(x, keep)
                 gone == {overflow[m] : m \in {l \in DOMAIN overflow : Removed(l, n)}}
                 cleared == Wide(Current) /\ n \in DOMAIN overflow
             IN  y = IF CopyFails(x, keep) THEN Failed
                     ELSE IF ~Wide(Current) THEN new
                     ELSE IF x.vecState = "nil" THEN [new EXCEPT !.vecState = "unset"]
                     ELSE IF cleared /\ \E i \in gone : i > Len(x.vec) THEN Failed
                     ELSE IF cleared THEN [new EXCEPT !.vec = [i \in DOMAIN @ |-> IF i \in gone THEN Unbound ELSE @[i]]]
                     ELSE new
      OBVIOUS
    <3>6. obj' = [obj EXCEPT ![o] = y]
      BY <3>1, <3>4, <3>5
    <3>7. y = Failed \/ Sound(y)
      BY <3>2, <3>3, <3>5, DissocSound
    <3> QED BY <3>2, <3>6, <3>7, ObjectStep
  <2>6. ASSUME NEW o \in Objects, Transient(o) PROVE ObjectInv'
    <3>1. /\ UpToDate(o) /\ UNCHANGED <<defs, counter>>
          /\ obj' = [obj EXCEPT ![o] = IF CopyFails(obj[o], Native(Current)) THEN Failed
                                       ELSE [Copy(obj[o], Native(Current)) EXCEPT !.transient = TRUE]]
      BY <2>6 DEF Transient, SchemaInv, ObjectInv
    <3>2. PICK x, z : x = obj[o] /\ z = Copy(x, Native(Current))
      OBVIOUS
    <3>3. ClassInv /\ Sound(x) /\ x.layout = Len(defs)
      BY <3>1, <3>2 DEF SchemaInv, ObjectInv, UpToDate
    <3>4. CASE CopyFails(x, Native(Current))
      BY <3>1, <3>2, <3>4, ObjectStep
    <3>5. CASE ~CopyFails(x, Native(Current))
      <4>1. Sound(z)
        BY <3>2, <3>3, <3>5, CopySound
      <4>2. PICK y : y = [z EXCEPT !.transient = TRUE]
        OBVIOUS
      <4>3. Sound(y)
        BY <4>1, <4>2, OwnershipSound
      <4> QED BY <3>1, <3>2, <3>5, <4>2, <4>3, ObjectStep
    <3> QED BY <3>4, <3>5
  <2>7. ASSUME NEW o \in Objects, Persistent(o) PROVE ObjectInv'
    <3>1. UpToDate(o) /\ UNCHANGED <<defs, counter>> /\ obj' = [obj EXCEPT ![o].transient = FALSE]
      BY <2>7 DEF Persistent
    <3>2. PICK x, y : x = obj[o] /\ y = [x EXCEPT !.transient = FALSE]
      OBVIOUS
    <3>3. Sound(x)
      BY <3>1, <3>2 DEF SchemaInv, ObjectInv, UpToDate
    <3>4. Sound(y)
      BY <3>2, <3>3, OwnershipSound
    <3>5. obj' = [obj EXCEPT ![o] = y]
      BY <3>1, <3>2 DEF SchemaInv, ObjectInv
    <3> QED BY <3>1, <3>4, <3>5, ObjectStep
  <2> QED BY <2>1, <2>2, <2>3, <2>4, <2>5, <2>6, <2>7, UpdateStep
          DEF Next, Redefine, Use, Lookup, Snapshot, ResetCache, LookupMiss, LookupStore, vars
<1> QED BY <1>1, <1>3, <1>4 DEF SchemaInv

(* An object never has a value of a slot that no definition connects with   *)
(* the slot it is read from, for any class, redefined any number of times,  *)
(* with any updates between and any readers of the keyword cache, as long   *)
(* as no place of the vector is given to two slots.                         *)
THEOREM NoValueStrays == Spec => []NoForeignValue
<1>1. SchemaInv => NoForeignValue
  <2> SUFFICES ASSUME SchemaInv, PlacesKept, NEW o \in Objects, UpToDate(o), NEW n \in NameSet(Current)
               PROVE  Slot(obj[o], n) \in {Unbound, Broken} \/ Linked(Slot(obj[o], n)[1], n)
    BY DEF NoForeignValue
  <2>1. ClassInv /\ Shape(obj[o]) /\ Own(obj[o]) /\ n \in Names
    BY ClassIs, PosIs DEF SchemaInv, ObjectInv, UpToDate, Sound
  <2> QED BY <2>1, OwnSlot
<1> QED BY <1>1, SchemaInit, SchemaStep, PTL DEF Spec

(* What the invariant says of the types. *)
LEMMA TypesOfInv == SchemaInv => TypeOK
<1> SUFFICES ASSUME SchemaInv PROVE TypeOK OBVIOUS
<1>1. ClassInv
  BY DEF SchemaInv
<1>2. kwMap \in [Names -> Names \cup {None}]
  <2>1. kwMap = [k \in Names |-> kwMap[k]]
    BY <1>1 DEF ClassInv, KeywordMap
  <2> QED BY <1>1, <2>1, SlotNameIs
<1>3. ASSUME NEW o \in Objects, Exists(o)
      PROVE  /\ obj[o].layout \in 1..Len(defs) /\ obj[o].stamp \in 0..counter
             /\ \A n \in Names : obj[o].native[n] \in Values \cup {Unbound}
             /\ \A n \in Names \ Native(defs[obj[o].layout]) : obj[o].native[n] = Unbound
             /\ (obj[o].vecState # "vector" => obj[o].vec = <<>>)
  <2>1. PICK x : x = obj[o]
    OBVIOUS
  <2>2. Shape(x) /\ x.stamp \in Nat /\ counter \in Nat
    BY <1>1, <1>3, <2>1, ClassIs DEF SchemaInv, ObjectInv, Sound, Shape, ObjectRecs
  <2> QED BY <2>1, <2>2 DEF Shape, ObjectRecs, Stored
<1>4. \A v \in DOMAIN defs : defs[v] \in Schemas
  BY <1>1, ClassIs
<1>5. DOMAIN overflow \subseteq Names /\ \A n \in DOMAIN overflow : overflow[n] \in 1..Cardinality(DOMAIN overflow)
  BY <1>1, OverflowMapIs
<1> QED BY <1>1, <1>2, <1>3, <1>4, <1>5 DEF TypeOK, ClassInv

(* The types of a class and its objects, for any names and definitions. *)
THEOREM SchemaTypes == Spec => []TypeOK
<1> QED BY TypesOfInv, SchemaInit, SchemaStep, PTL DEF Spec

-----------------------------------------------------------------------------
(* Nothing is lost.  The invariant says of an object that slept through any *)
(* number of redefinitions where each slot of the present definition has    *)
(* its value now: the chase of the aliases, run at the object's migration,  *)
(* goes back through the definitions, so the invariant carries the whole    *)
(* trace of every slot.  D[v] takes a slot of version v back along the      *)
(* declared aliases to the version b of the object.                         *)
IsTrace(D, b) ==
  \A v \in b..Len(defs) : \A m \in Names :
    /\ D[v][m] \in Names
    /\ D[v][m] = IF v = b THEN m
                 ELSE IF m \in DOMAIN Aliases(defs[v]) THEN D[v - 1][Aliases(defs[v])[m]]
                 ELSE D[v - 1][m]

(* The slots of x when it was built or copied last, and what it shows now.  *)
OldNames(x) == NameSet(defs[x.stamp + 1])
OldNative(x) == Native(defs[x.stamp + 1])
AtPlace(x, p) == IF p <= Len(x.vec) THEN x.vec[p] ELSE Unbound
Shown(x, n) == IF n \in Native(Current) THEN x.native[n] ELSE AtPlace(x, Place(Current, n))

(* What slot n of a definition S holds after a migration to it, when f      *)
(* takes the slots back to the version of the object.                       *)
Held(S, x, f, n) ==
  IF n \in OldNative(x) THEN x.native[n]
  ELSE IF f[n] \in OldNative(x) THEN x.native[f[n]]
  ELSE IF n \in Native(S) THEN IF n \in Initform THEN <<n, 2>> ELSE Unbound
  ELSE AtPlace(x, Place(S, n))

(* No place beyond the widest definition; and what a migration must find.   *)
VecReaches(x) == x.vec = <<>> \/ \E v \in 1..Len(defs) : Len(x.vec) + NativeLimit <= Len(defs[v])

Ready(x) ==
  /\ x.stamp + 1 <= x.layout
  /\ Native(defs[x.layout]) = OldNative(x)
  /\ Sane(Current) /\ Fits(x, Current)
  /\ VecReaches(x)

(* Slot n of S has one source: its own name, or one an alias leads to that  *)
(* is no slot any more.                                                     *)
Follows(S, x, f, n) ==
  /\ n \in OldNames(x) => f[n] = n \/ f[n] \notin OldNames(x)
  /\ AliasOf(S, n) = None => f[n] = n
  /\ f[n] # n /\ f[n] \in OldNames(x) => f[n] \notin NameSet(S) /\ n \notin Initform
  /\ ~Wide(S) /\ n \in DOMAIN overflow => n \in OldNames(x)
  /\ n \notin Native(S) => n \notin OldNative(x)
  /\ n \notin Native(S) /\ f[n] \in OldNative(x) => x.vecState # "vector"

Kept(x, f, m) ==
  /\ Ready(x)
  /\ \A n \in NameSet(Current) : Follows(Current, x, f, n) /\ m[n] = Held(Current, x, f, n)
  /\ \A n \in Names : ~Used(n) => f[n] = n
  /\ \A n \in Names \ NameSet(Current) : m[n] = Unbound

Keeps(x, m) == \E D : IsTrace(D, x.stamp + 1) /\ Kept(x, D[Len(defs)], m)

-----------------------------------------------------------------------------
LEMMA PlaceIs ==
  ASSUME NEW S \in Schemas, NEW n \in NameSet(S)
  PROVE  /\ n \in Native(S) => Place(S, n) = 0
         /\ n \notin Native(S) =>
              /\ Wide(S) /\ Place(S, n) = OverflowIndices(S)[n]
              /\ Place(S, n) \in 1..(Len(S) - NativeLimit)
              /\ S[Place(S, n) + NativeLimit].name = n
         /\ Place(S, n) \in Nat /\ (n \in Native(S) <=> Place(S, n) = 0)
<1>1. CASE n \in Native(S)
  BY <1>1 DEF Place
<1>2. CASE n \notin Native(S)
  <2>1. n \in DOMAIN OverflowIndices(S)
    BY <1>2, OverflowIs
  <2>2. /\ Wide(S) /\ OverflowIndices(S)[n] \in 1..(Len(S) - NativeLimit)
        /\ S[OverflowIndices(S)[n] + NativeLimit].name = n
    BY <2>1, OverflowIs
  <2>3. Place(S, n) = OverflowIndices(S)[n]
    BY <1>2 DEF Place
  <2> QED BY <1>2, <2>2, <2>3
<1> QED BY <1>1, <1>2

(* The slots of the current definition that are no CLOS slots: all have a   *)
(* place of their own.                                                      *)
LEMMA OverflowNow ==
  ASSUME ClassInv, NEW n \in NameSet(Current), n \notin Native(Current)
  PROVE  /\ Wide(Current) /\ n \in DOMAIN overflow /\ overflow[n] = Place(Current, n)
         /\ overflow[n] \in 1..(Len(Current) - NativeLimit)
         /\ Cardinality(DOMAIN overflow) = Len(Current) - NativeLimit
         /\ \A m \in DOMAIN overflow : overflow[m] = overflow[n] => m = n
<1>1. PICK S \in Schemas : S = Current
  BY ClassIs
<1>2. Wide(S) /\ Place(S, n) = OverflowIndices(S)[n] /\ Place(S, n) \in 1..(Len(S) - NativeLimit)
  BY <1>1, PlaceIs
<1>3. overflow = OverflowIndices(S)
  BY <1>1, <1>2 DEF ClassInv
<1>4. DOMAIN overflow = NameSet(S) \ Native(S) /\ Cardinality(DOMAIN overflow) = Len(S) - NativeLimit
  BY <1>2, <1>3, OverflowIs
<1>5. \A m \in DOMAIN overflow : S[overflow[m] + NativeLimit].name = m
  BY <1>3, OverflowIs
<1> QED BY <1>1, <1>2, <1>3, <1>4, <1>5

LEMMA WideNames ==
  ASSUME ClassInv, Wide(Current)
  PROVE  DOMAIN overflow = NameSet(Current) \ Native(Current)
BY ClassIs, OverflowIs DEF ClassInv

(* Reading a slot of an object that fits the current definition. *)
LEMMA SlotShown ==
  ASSUME ClassInv, NEW x, Shape(x), Fits(x, Current), NEW n \in NameSet(Current)
  PROVE  /\ x.layout = Len(defs) => Slot(x, n) = Shown(x, n)
         /\ n \notin Native(Current) =>
              /\ x.vecState \in {"nil", "vector"}
              /\ x.vecState = "nil" => x.vec = <<>> /\ AtPlace(x, Place(Current, n)) = Unbound
              /\ x.vecState = "vector" => Place(Current, n) \in 1..Len(x.vec)
<1>1. CASE n \in Native(Current)
  BY <1>1 DEF Slot, Shown, Current
<1>2. CASE n \notin Native(Current)
  <2>1. /\ Wide(Current) /\ n \in DOMAIN overflow /\ overflow[n] = Place(Current, n)
        /\ overflow[n] \in 1..(Len(Current) - NativeLimit)
    BY <1>2, OverflowNow
  <2>2. Len(x.vec) \in Nat /\ Len(Current) - NativeLimit \in Int
    BY VecIs, ClassIs, SchemaIs, SchemaAssumption DEF Shape
  <2>3. x.vecState = "nil" \/ (x.vecState = "vector" /\ overflow[n] <= Len(x.vec))
    BY <2>1, <2>2 DEF Fits
  <2>4. x.vecState = "nil" => x.vec = <<>> /\ AtPlace(x, Place(Current, n)) = Unbound
    <3>1. x.vecState = "nil" => x.vec = <<>>
      BY DEF Shape
    <3> QED BY <2>1, <3>1 DEF AtPlace
  <2>5. x.layout = Len(defs) => Slot(x, n) = Shown(x, n)
    <3>1. x.layout = Len(defs) => n \notin Native(defs[x.layout])
      BY <1>2 DEF Current
    <3>2. CASE x.vecState = "nil"
      BY <1>2, <2>1, <2>4, <3>1, <3>2 DEF Slot, Shown
    <3>3. CASE x.vecState = "vector" /\ overflow[n] <= Len(x.vec)
      BY <1>2, <2>1, <2>2, <3>1, <3>3 DEF Slot, Shown, AtPlace
    <3> QED BY <2>3, <3>2, <3>3
  <2> QED BY <1>2, <2>1, <2>2, <2>3, <2>4, <2>5
<1> QED BY <1>1, <1>2

(* An object that is up to date and keeps its slots shows them. *)
LEMMA KeptShown ==
  ASSUME ClassInv, NEW x, Shape(x), x.layout = Len(defs), NEW f, NEW m, Kept(x, f, m)
  PROVE  /\ OldNative(x) = Native(Current)
         /\ \A n \in NameSet(Current) : f[n] \in OldNative(x) => f[n] = n /\ n \in Native(Current)
         /\ \A n \in NameSet(Current) : m[n] = Shown(x, n) /\ m[n] = Slot(x, n)
<1>1. OldNative(x) = Native(Current) /\ Fits(x, Current)
  BY DEF Kept, Ready, Current
<1>2. OldNative(x) \subseteq OldNames(x) /\ Native(Current) \subseteq NameSet(Current)
  <2>1. x.stamp + 1 \in 1..Len(defs)
    BY ClassIs DEF Kept, Ready, Shape, ObjectRecs
  <2> QED BY <2>1, ClassIs, NativeIs DEF OldNames, OldNative
<1>3. ASSUME NEW n \in NameSet(Current)
      PROVE  (f[n] \in OldNative(x) => f[n] = n /\ n \in Native(Current)) /\ m[n] = Shown(x, n)
  <2>1. f[n] # n /\ f[n] \in OldNames(x) => f[n] \notin NameSet(Current)
    BY DEF Kept, Follows
  <2>2. f[n] \in OldNative(x) => f[n] = n
    BY <1>1, <1>2, <2>1
  <2>3. m[n] = Held(Current, x, f, n)
    BY DEF Kept
  <2> QED BY <1>1, <2>2, <2>3 DEF Held, Shown
<1> QED BY <1>1, <1>3, SlotShown

(* An object that has just got the current version. *)
LEMMA KeptNow ==
  ASSUME ClassInv, NEW x, Shape(x), x.layout = Len(defs), x.stamp + 1 = Len(defs),
         Sane(Current), Fits(x, Current), VecReaches(x), NEW m,
         \A n \in NameSet(Current) : m[n] = Shown(x, n),
         \A n \in Names \ NameSet(Current) : m[n] = Unbound
  PROVE  Keeps(x, m)
<1>1. PICK f : f = [n \in Names |-> n]
  OBVIOUS
<1>2. PICK D : D = [v \in {Len(defs)} |-> f]
  OBVIOUS
<1>3. Len(defs) \in Nat /\ D[Len(defs)] = f /\ \A n \in Names : f[n] = n
  BY <1>1, <1>2, ClassIs
<1>4. IsTrace(D, x.stamp + 1)
  <2>1. ASSUME NEW v \in (x.stamp + 1)..Len(defs), NEW n \in Names
        PROVE  v = x.stamp + 1 /\ D[v][n] = n
    BY <1>3
  <2> QED BY <2>1 DEF IsTrace
<1>5. OldNames(x) = NameSet(Current) /\ OldNative(x) = Native(Current)
  BY DEF OldNames, OldNative, Current
<1>6. NameSet(Current) \subseteq Names /\ Native(Current) \subseteq NameSet(Current)
  BY ClassIs, PosIs, NativeIs
<1>7. ASSUME NEW n \in NameSet(Current)
      PROVE  Follows(Current, x, f, n) /\ Held(Current, x, f, n) = Shown(x, n)
  <2>1. f[n] = n
    BY <1>3, <1>6
  <2> QED BY <1>5, <1>6, <2>1 DEF Follows, Held, Shown
<1>8. Ready(x)
  BY <1>3, <1>5 DEF Ready, Current
<1>9. Kept(x, f, m)
  BY <1>3, <1>7, <1>8 DEF Kept
<1> QED BY <1>3, <1>4, <1>9 DEF Keeps

(* A slot that was never used has no name, alias or place yet. *)
LEMMA UsedIs ==
  ASSUME ClassInv
  PROVE  /\ \A v \in 1..Len(defs) : \A n \in NameSet(defs[v]) :
              Used(n) /\ Used(AliasOf(defs[v], n))
         /\ \A n \in DOMAIN overflow : Used(n)
         /\ NameSet(Current) \subseteq Names /\ \A n \in NameSet(Current) : Used(n)
<1>1. ASSUME NEW v \in 1..Len(defs), NEW n \in NameSet(defs[v])
      PROVE  Used(n) /\ Used(AliasOf(defs[v], n))
  <2>1. v \in DOMAIN defs /\ defs[v] \in Schemas
    BY ClassIs
  <2>2. Pos(defs[v], n) \in DOMAIN defs[v] /\ defs[v][Pos(defs[v], n)].name = n
    BY <2>1, PosIs, SchemaIs
  <2> QED BY <2>1, <2>2 DEF Used, AliasOf
<1>2. ASSUME NEW n \in DOMAIN overflow PROVE Used(n)
  <2>1. PICK v \in 1..Len(defs) : /\ overflow[n] + NativeLimit \in 1..Len(defs[v])
                                 /\ defs[v][overflow[n] + NativeLimit].name = n
    BY OverflowMapIs
  <2>2. n \in NameSet(defs[v])
    BY <2>1, ClassIs, PosIs
  <2> QED BY <1>1, <2>2
<1>3. Len(defs) \in 1..Len(defs)
  BY ClassIs
<1>4. NameSet(Current) \subseteq Names
  BY ClassIs, PosIs
<1> QED BY <1>1, <1>2, <1>3, <1>4 DEF Current

(* The vector of an object does not reach a place that was never used. *)
LEMMA PlaceBeyond ==
  ASSUME ClassInv, NEW x, Shape(x), VecReaches(x), NEW p \in Nat \ {0}, ~PlaceUsed(p)
  PROVE  Len(x.vec) < p /\ AtPlace(x, p) = Unbound
<1>1. Len(x.vec) \in Nat
  BY VecIs DEF Shape
<1>2. \A v \in 1..Len(defs) : Len(defs[v]) \in Nat /\ ~(Len(defs[v]) >= NativeLimit + p)
  BY ClassIs, SchemaIs DEF PlaceUsed
<1>3. Len(x.vec) < p
  <2>1. CASE x.vec = <<>>
    BY <2>1
  <2>2. CASE \E v \in 1..Len(defs) : Len(x.vec) + NativeLimit <= Len(defs[v])
    BY <1>1, <1>2, <2>2, SchemaAssumption
  <2> QED BY <2>1, <2>2 DEF VecReaches
<1> QED BY <1>1, <1>3 DEF AtPlace

LEMMA AliasOfIs ==
  ASSUME NEW S \in Schemas, NEW n \in NameSet(S)
  PROVE  /\ n \in DOMAIN Aliases(S) <=> AliasOf(S, n) # None
         /\ n \in DOMAIN Aliases(S) => Aliases(S)[n] = AliasOf(S, n)
         /\ AliasOf(S, n) # None => AliasOf(S, n) \in Names
BY PosIs, SchemaIs DEF Aliases, AliasOf

-----------------------------------------------------------------------------
(* A redefinition that loses nothing, slot by slot.  g is f with the        *)
(* aliases of the new definition before it.                                 *)
Extends(S, f, g) == \A n \in Names : g[n] = IF n \in DOMAIN Aliases(S) THEN f[Aliases(S)[n]] ELSE f[n]

(* What f is when the object had the current version all the time, and what *)
(* the aliases of the current definition add to it otherwise.               *)
Followed(x, f) ==
  /\ \A n \in Names : f[n] \in Names
  /\ x.stamp + 1 = Len(defs) => \A n \in Names : f[n] = n
  /\ x.stamp + 1 < Len(defs) => \A n \in NameSet(Current) : AliasOf(Current, n) # None => f[n] = f[AliasOf(Current, n)]

NextSlot(S, x, g, m, n) ==
  Follows(S, x, g, n) /\ Promised(m, S)[n] = Held(S, x, g, n)

(* The ways a slot comes through a careful redefinition: it stays ...       *)
LEMMA KeepsNext ==
  ASSUME ClassInv, NEW S \in Schemas, NEW x, Shape(x), NEW f, NEW g, NEW m,
         Kept(x, f, m), Followed(x, f), Extends(S, f, g),
         \A n \in NameSet(S) : n \in NameSet(Current) \/ ~Used(n),
         NEW n \in NameSet(S), n \in NameSet(Current), KeepsSlot(S, n)
  PROVE  NextSlot(S, x, g, m, n)
<1>1. Current \in Schemas /\ n \in Names /\ x.stamp + 1 \in 1..Len(defs)
  BY ClassIs, PosIs DEF Kept, Ready, Shape, ObjectRecs
<1>2. PICK a : a = AliasOf(Current, n) /\ a = AliasOf(S, n)
  BY DEF KeepsSlot
<1>3. Follows(Current, x, f, n) /\ m[n] = Held(Current, x, f, n) /\ Sane(Current)
  BY DEF Kept, Ready
<1>4. Place(S, n) = Place(Current, n) /\ (n \in Native(S) <=> n \in Native(Current))
  BY <1>1, PlaceIs DEF KeepsSlot
<1>5. g[n] = IF a = None THEN f[n] ELSE f[a]
  BY <1>1, <1>2, AliasOfIs DEF Extends
<1>6. a # None => a \in Names /\ a \notin NameSet(Current)
  BY <1>1, <1>2, <1>3, AliasOfIs DEF Sane
<1>7. OldNative(x) \subseteq OldNames(x)
  BY <1>1, ClassIs, NativeIs DEF OldNames, OldNative
\* the alias is followed already, or it leads out of the object's version
<1>8. \/ g[n] = f[n]
      \/ n \in OldNames(x) /\ f[n] = n /\ g[n] \notin OldNames(x)
  <2>1. CASE x.stamp + 1 = Len(defs)
    <3>1. OldNames(x) = NameSet(Current)
      BY <2>1 DEF OldNames, Current
    <3> QED BY <1>1, <1>5, <1>6, <2>1, <3>1 DEF Followed
  <2>2. CASE x.stamp + 1 < Len(defs)
    BY <1>2, <1>5, <2>2 DEF Followed
  <2> QED BY <1>1, <2>1, <2>2, ClassIs
<1>9. g[n] \in OldNames(x) => g[n] = f[n] /\ Used(f[n])
  <2>1. \A k \in OldNames(x) : Used(k)
    BY <1>1, UsedIs DEF OldNames
  <2> QED BY <1>8, <2>1
<1>10. AliasOf(S, n) = None => g[n] = n
  BY <1>2, <1>3, <1>5 DEF Follows
<1>11. g[n] # n /\ g[n] \in OldNames(x) => g[n] \notin NameSet(S) /\ n \notin Initform
  BY <1>3, <1>9 DEF Follows
<1>12. ~Wide(S) /\ n \in DOMAIN overflow => n \in OldNames(x)
  <2>1. ~Wide(S) => n \in Native(S)
    BY PlaceIs
  <2> QED BY <1>3, <1>4, <2>1, WideNames DEF Follows
<1>13. Follows(S, x, g, n)
  BY <1>3, <1>4, <1>7, <1>8, <1>9, <1>10, <1>11, <1>12 DEF Follows
<1>14. Promised(m, S)[n] = m[n]
  BY <1>1 DEF Promised
<1>15. Held(S, x, g, n) = Held(Current, x, f, n)
  BY <1>4, <1>7, <1>8 DEF Held
<1> QED BY <1>3, <1>13, <1>14, <1>15 DEF NextSlot

(* Of a name that was never a slot or an alias nothing is held. *)
LEMMA NewName ==
  ASSUME ClassInv, NEW S \in Schemas, NEW x, Shape(x), Ready(x), NEW n \in NameSet(S), ~Used(n)
  PROVE  /\ n \notin OldNames(x) /\ n \notin OldNative(x) /\ n \notin NameSet(Current)
         /\ n \notin DOMAIN overflow /\ n \in Names
         /\ OldNative(x) \subseteq OldNames(x) /\ \A k \in OldNames(x) : Used(k) /\ k \in Names
<1>1. x.stamp + 1 \in 1..Len(defs)
  BY ClassIs DEF Ready, Shape, ObjectRecs
<1>2. OldNative(x) \subseteq OldNames(x) /\ OldNames(x) \subseteq Names
  BY <1>1, ClassIs, NativeIs, PosIs DEF OldNames, OldNative
<1>3. \A k \in OldNames(x) : Used(k)
  BY <1>1, UsedIs DEF OldNames
<1> QED BY <1>2, <1>3, UsedIs, PosIs

(* ... it is added ... *)
LEMMA AddsNext ==
  ASSUME ClassInv, NEW S \in Schemas, NEW x, Shape(x), NEW f, NEW g, NEW m,
         Kept(x, f, m), Extends(S, f, g),
         NEW n \in NameSet(S), n \notin NameSet(Current), AliasOf(S, n) = None, AddsSlot(S, n)
  PROVE  NextSlot(S, x, g, m, n)
<1>1. /\ n \notin OldNames(x) /\ n \notin OldNative(x) /\ n \notin DOMAIN overflow /\ n \in Names
  BY NewName DEF Kept, AddsSlot
<1>2. n \notin DOMAIN Aliases(S)
  BY AliasOfIs
<1>3. g[n] = n
  BY <1>1, <1>2 DEF Extends, Kept, AddsSlot
<1>4. Follows(S, x, g, n)
  BY <1>1, <1>3 DEF Follows
<1>5. Promised(m, S)[n] = IF n \in Native(S) \cap Initform THEN <<n, 2>> ELSE Unbound
  BY <1>1, <1>2 DEF Promised
<1>6. n \notin Native(S) => AtPlace(x, Place(S, n)) = Unbound
  BY PlaceIs, PlaceBeyond DEF AddsSlot, Kept, Ready
<1>7. Held(S, x, g, n) = IF n \in Native(S) \cap Initform THEN <<n, 2>> ELSE Unbound
  BY <1>1, <1>3, <1>6 DEF Held
<1> QED BY <1>4, <1>5, <1>7 DEF NextSlot

(* ... or it is renamed. *)
LEMMA RenamesNext ==
  ASSUME ClassInv, NEW S \in Schemas, NEW x, Shape(x), Fits(x, S), NEW f, NEW g, NEW m,
         Kept(x, f, m), Followed(x, f), Extends(S, f, g),
         \A k \in NameSet(S) : k \in NameSet(Current) \/ ~Used(k),
         NEW n \in NameSet(S), n \notin NameSet(Current),
         NEW a, a = AliasOf(S, n), a # None, RenamesSlot(S, n, a)
  PROVE  NextSlot(S, x, g, m, n)
<1>1. /\ n \notin OldNames(x) /\ n \notin OldNative(x) /\ n \notin DOMAIN overflow /\ n \in Names
      /\ OldNative(x) \subseteq OldNames(x) /\ \A k \in OldNames(x) : Used(k) /\ k \in Names
  BY NewName DEF Kept, RenamesSlot
<1>2. /\ n \in DOMAIN Aliases(S) /\ Aliases(S)[n] = a
      /\ a \in NameSet(Current) /\ a \notin NameSet(S) /\ a \notin Initform /\ n \notin Initform
      /\ Current \in Schemas
  BY AliasOfIs, ClassIs DEF RenamesSlot
<1>3. g[n] = f[a] /\ f[a] \in Names /\ a \in Names
  BY <1>1, <1>2, PosIs DEF Extends, Followed
<1>4. Follows(Current, x, f, a) /\ m[a] = Held(Current, x, f, a)
  BY <1>2 DEF Kept
<1>5. a \in OldNative(x) => f[a] = a
  <2>1. CASE AliasOf(Current, a) = None
    BY <1>4, <2>1 DEF Follows
  <2>2. CASE Fresh(a) /\ a \in OldNative(x)
    <3>1. a \in NameSet(defs[x.stamp + 1]) /\ x.stamp + 1 \in 1..Len(defs)
      BY <1>1, <2>2, ClassIs DEF OldNames, Kept, Ready, Shape, ObjectRecs
    <3>2. ~(x.stamp + 1 \in 1..(Len(defs) - 1))
      BY <2>2, <3>1 DEF Fresh
    <3>3. x.stamp + 1 = Len(defs)
      BY <3>1, <3>2, ClassIs
    <3> QED BY <1>3, <3>3 DEF Followed
  <2> QED BY <2>1, <2>2 DEF RenamesSlot
<1>6. \/ Place(Current, a) = 0 /\ (Place(S, n) = 0 \/ ~PlaceUsed(Place(S, n)))
      \/ Place(Current, a) = Place(S, n)
  BY DEF RenamesSlot
<1>7. /\ a \in Native(Current) <=> Place(Current, a) = 0
      /\ n \in Native(S) <=> Place(S, n) = 0
      /\ Place(S, n) \in Nat /\ Place(Current, a) \in Nat
  BY <1>2, PlaceIs
<1>8. Place(S, n) # 0 /\ ~PlaceUsed(Place(S, n)) =>
        x.vecState # "vector" /\ AtPlace(x, Place(S, n)) = Unbound
  <2> SUFFICES ASSUME Place(S, n) # 0, ~PlaceUsed(Place(S, n))
               PROVE  x.vecState # "vector" /\ AtPlace(x, Place(S, n)) = Unbound
    OBVIOUS
  <2>1. Len(x.vec) < Place(S, n) /\ AtPlace(x, Place(S, n)) = Unbound
    BY <1>7, PlaceBeyond DEF Kept, Ready
  <2>2. Wide(S) /\ Place(S, n) \in 1..(Len(S) - NativeLimit)
    BY <1>7, PlaceIs
  <2>3. Len(x.vec) \in Nat /\ Len(S) \in Nat /\ NativeLimit \in Nat
    BY VecIs, SchemaIs, SchemaAssumption DEF Shape
  <2> QED BY <2>1, <2>2, <2>3 DEF Fits
<1>9. n \notin Native(S) /\ f[a] \in OldNative(x) => x.vecState # "vector"
  BY <1>4, <1>6, <1>7, <1>8 DEF Follows
<1>10. f[a] \in OldNames(x) => f[a] \notin NameSet(S)
  <2>1. f[a] # a /\ f[a] \in OldNames(x) => f[a] \notin NameSet(Current)
    BY <1>4 DEF Follows
  <2> QED BY <1>1, <1>2, <2>1
<1>11. Follows(S, x, g, n)
  BY <1>1, <1>2, <1>3, <1>9, <1>10 DEF Follows
<1>12. Promised(m, S)[n] = m[a]
  BY <1>1, <1>2 DEF Promised
<1>13. Held(S, x, g, n) = Held(Current, x, f, a)
  <2>1. CASE f[a] \in OldNative(x)
    BY <1>1, <1>3, <1>5, <2>1 DEF Held
  <2>2. CASE f[a] \notin OldNative(x)
    <3>1. a \notin OldNative(x)
      BY <1>5, <2>2
    <3>2. Held(S, x, g, n) = IF Place(S, n) = 0 THEN Unbound ELSE AtPlace(x, Place(S, n))
      BY <1>1, <1>2, <1>3, <1>7, <2>2 DEF Held
    <3>3. Held(Current, x, f, a) = IF Place(Current, a) = 0 THEN Unbound ELSE AtPlace(x, Place(Current, a))
      BY <1>2, <1>7, <2>2, <3>1 DEF Held
    <3> QED BY <1>6, <1>8, <3>2, <3>3
  <2> QED BY <2>1, <2>2
<1> QED BY <1>4, <1>11, <1>12, <1>13 DEF NextSlot

(* The class with one more definition. *)
Gains(S) ==
  /\ Len(defs') = Len(defs) + 1 /\ defs'[Len(defs) + 1] = S
  /\ \A v \in 1..Len(defs) : defs'[v] = defs[v]
  /\ DOMAIN defs' = 1..Len(defs')
  /\ overflow' = IF Wide(S) THEN OverflowIndices(S) ELSE overflow

LEMMA TraceFollowed ==
  ASSUME ClassInv, NEW x, Shape(x), Ready(x), NEW D, IsTrace(D, x.stamp + 1)
  PROVE  Followed(x, D[Len(defs)])
<1>1. PICK f, b, e : f = D[Len(defs)] /\ b = x.stamp + 1 /\ e = Len(defs)
  OBVIOUS
<1>2. b \in 1..e /\ e \in Nat /\ Current = defs[e]
  BY <1>1, ClassIs DEF Ready, Shape, ObjectRecs, Current
<1>3. ASSUME NEW n \in Names
      PROVE  /\ f[n] \in Names
             /\ f[n] = IF e = b THEN n
                       ELSE IF n \in DOMAIN Aliases(Current) THEN D[e - 1][Aliases(Current)[n]]
                       ELSE D[e - 1][n]
  <2>1. e \in b..Len(defs)
    BY <1>1, <1>2
  <2> QED BY <1>1, <1>2, <2>1 DEF IsTrace
<1>4. ASSUME b < e, NEW n \in NameSet(Current), AliasOf(Current, n) # None
      PROVE  f[n] = f[AliasOf(Current, n)]
  <2>1. PICK a : a = AliasOf(Current, n)
    OBVIOUS
  <2>2. n \in Names /\ a \in Names /\ n \in DOMAIN Aliases(Current) /\ Aliases(Current)[n] = a
    BY <1>4, <2>1, ClassIs, PosIs, AliasOfIs
  <2>3. a \notin DOMAIN Aliases(Current)
    BY <2>1, ClassIs, AliasesIs DEF Ready, Sane
  <2> QED BY <1>2, <1>3, <1>4, <2>1, <2>2, <2>3
<1> QED BY <1>1, <1>2, <1>3, <1>4 DEF Followed

LEMMA TraceNext ==
  ASSUME ClassInv, NEW S \in Schemas, Gains(S), NEW b \in 1..Len(defs), NEW D, IsTrace(D, b)
  PROVE  \E E : IsTrace(E, b)' /\ Extends(S, D[Len(defs)], E[Len(defs')])
<1>1. PICK e, f : e = Len(defs) /\ f = D[e]
  OBVIOUS
<1>2. e \in Nat /\ b \in Nat /\ b <= e /\ Len(defs') = e + 1 /\ defs'[e + 1] = S
  BY <1>1, ClassIs DEF Gains
<1>3. PICK g : g = [n \in Names |-> IF n \in DOMAIN Aliases(S) THEN f[Aliases(S)[n]] ELSE f[n]]
  OBVIOUS
<1>4. PICK E : E = [v \in b..(e + 1) |-> IF v = e + 1 THEN g ELSE D[v]]
  OBVIOUS
<1>5. E[e + 1] = g /\ \A v \in b..e : E[v] = D[v] /\ v # e + 1
  BY <1>2, <1>4
<1>6. \A n \in Names : f[n] \in Names
  BY <1>1, <1>2 DEF IsTrace
<1>7. ASSUME NEW n \in Names
      PROVE  g[n] \in Names /\ g[n] = IF n \in DOMAIN Aliases(S) THEN f[Aliases(S)[n]] ELSE f[n]
  BY <1>3, <1>6, AliasesIs
<1>8. ASSUME NEW v \in b..(e + 1), NEW n \in Names
      PROVE  /\ E[v][n] \in Names
             /\ E[v][n] = IF v = b THEN n
                          ELSE IF n \in DOMAIN Aliases(defs'[v]) THEN E[v - 1][Aliases(defs'[v])[n]]
                          ELSE E[v - 1][n]
  <2>1. CASE v = e + 1
    <3>1. v # b /\ v - 1 \in b..e /\ v - 1 = e
      BY <1>2, <2>1
    <3>2. E[v - 1] = f /\ defs'[v] = S /\ E[v] = g
      BY <1>1, <1>2, <1>5, <2>1, <3>1
    <3> QED BY <1>7, <3>1, <3>2
  <2>2. CASE v # e + 1
    <3>1. v \in b..e /\ v \in b..Len(defs) /\ v \in 1..Len(defs)
      BY <1>1, <1>2, <2>2
    <3>2. v # b => v - 1 \in b..e
      BY <1>2, <3>1
    <3>3. E[v] = D[v] /\ defs'[v] = defs[v] /\ (v # b => E[v - 1] = D[v - 1])
      BY <1>5, <3>1, <3>2 DEF Gains
    <3> QED BY <3>1, <3>3 DEF IsTrace
  <2> QED BY <2>1, <2>2
<1>9. IsTrace(E, b)'
  BY <1>2, <1>8 DEF IsTrace
<1>10. Extends(S, f, E[Len(defs')])
  BY <1>2, <1>5, <1>7 DEF Extends
<1> QED BY <1>1, <1>9, <1>10

(* Every slot of the new definition. *)
LEMMA SlotsNext ==
  ASSUME ClassInv, NEW S \in Schemas, LosesNothing(S), NEW x, Shape(x), Fits(x, S),
         NEW f, NEW g, NEW m, Kept(x, f, m), Followed(x, f), Extends(S, f, g),
         NEW n \in NameSet(S)
  PROVE  NextSlot(S, x, g, m, n)
<1>1. \A k \in NameSet(S) : k \in NameSet(Current) \/ ~Used(k)
  BY DEF LosesNothing, AddsSlot, RenamesSlot
<1>2. \/ n \in NameSet(Current) /\ KeepsSlot(S, n)
      \/ n \notin NameSet(Current) /\ AliasOf(S, n) = None /\ AddsSlot(S, n)
      \/ n \notin NameSet(Current) /\ AliasOf(S, n) # None /\ RenamesSlot(S, n, AliasOf(S, n))
  BY DEF LosesNothing
<1>3. CASE n \in NameSet(Current) /\ KeepsSlot(S, n)
  BY <1>1, <1>3, KeepsNext
<1>4. CASE n \notin NameSet(Current) /\ AliasOf(S, n) = None /\ AddsSlot(S, n)
  BY <1>4, AddsNext
<1>5. CASE n \notin NameSet(Current) /\ AliasOf(S, n) # None /\ RenamesSlot(S, n, AliasOf(S, n))
  BY <1>1, <1>5, RenamesNext
<1> QED BY <1>2, <1>3, <1>4, <1>5

(* An object through a redefinition that loses nothing: y is the object     *)
(* itself or the object moved to an equal layout.                           *)
LEMMA KeptNext ==
  ASSUME ClassInv, NEW S \in Schemas, Gains(S), LosesNothing(S),
         NEW x, Shape(x), Fits(x, S), NEW m, Keeps(x, m),
         NEW y, y.stamp = x.stamp, y.native = x.native, y.vec = x.vec, y.vecState = x.vecState,
         \/ y.layout = x.layout
         \/ y.layout = Len(defs) + 1 /\ x.layout = Len(defs) /\ Native(S) = Native(Current),
         NEW p, \A n \in Names : p[n] = Promised(m, S)[n]
  PROVE  Keeps(y, p)'
<1>1. PICK D : IsTrace(D, x.stamp + 1) /\ Kept(x, D[Len(defs)], m)
  BY DEF Keeps
<1>2. PICK f, b : f = D[Len(defs)] /\ b = x.stamp + 1
  OBVIOUS
<1>3. Ready(x) /\ b \in 1..Len(defs) /\ b <= x.layout /\ x.layout \in 1..Len(defs)
  BY <1>1, <1>2, ClassIs DEF Kept, Ready, Shape, ObjectRecs
<1>4. Followed(x, f)
  BY <1>1, <1>2, <1>3, TraceFollowed
<1>5. PICK E : IsTrace(E, b)' /\ Extends(S, f, E[Len(defs')])
  BY <1>1, <1>2, <1>3, TraceNext
<1>6. PICK g : g = E[Len(defs')]
  OBVIOUS
<1>7. \A n \in NameSet(S) : Follows(S, x, g, n) /\ Promised(m, S)[n] = Held(S, x, g, n)
  BY <1>1, <1>2, <1>4, <1>5, <1>6, SlotsNext DEF NextSlot
<1>8. PICK T, L : T = Current' /\ L = Len(defs')
  OBVIOUS
<1>9. T = S /\ L = Len(defs) + 1
  BY <1>8 DEF Gains, Current
<1>10. OldNames(y)' = OldNames(x) /\ OldNative(y)' = OldNative(x)
  BY <1>2, <1>3 DEF OldNames, OldNative, Gains
<1>11. ASSUME NEW n \in NameSet(S) PROVE Follows(S, y, g, n)' /\ p[n] = Held(S, y, g, n)'
  <2>1. Follows(S, y, g, n)'
    BY <1>7, <1>10 DEF Follows, Gains
  <2>2. Held(S, y, g, n)' = Held(S, x, g, n)
    BY <1>10 DEF Held, AtPlace
  <2>3. n \in Names
    BY PosIs
  <2> QED BY <1>7, <2>1, <2>2, <2>3
<1>12. \A n \in Names : ~Used(n)' => g[n] = n
  <2> TAKE n \in Names
  <2>1. SUFFICES ASSUME ~Used(n)' PROVE g[n] = n
    OBVIOUS
  <2>2. ~Used(n)
    BY <2>1, ClassIs DEF Used, Gains
  <2>3. n \notin NameSet(S)
    BY <2>1, ClassIs DEF Used, Gains, NameSet
  <2>4. n \notin DOMAIN Aliases(S)
    BY <2>3, AliasesIs
  <2> QED BY <1>1, <1>2, <1>5, <1>6, <2>2, <2>4 DEF Kept, Extends
<1>13. \A n \in Names \ NameSet(S) : p[n] = Unbound
  BY AliasesIs, NativeIs DEF Promised
<1>14. Ready(y)'
  <2>1. Native(defs'[y.layout]) = OldNative(x) /\ y.stamp + 1 <= y.layout
    <3>1. CASE y.layout = x.layout
      BY <1>2, <1>3, <3>1 DEF Ready, Gains
    <3>2. CASE y.layout = Len(defs) + 1 /\ x.layout = Len(defs) /\ Native(S) = Native(Current)
      BY <1>2, <1>3, <3>2, ClassIs DEF Ready, Gains, Current
    <3> QED BY <3>1, <3>2
  <2>2. Sane(S)'
    BY DEF LosesNothing, Sane, Gains
  <2>3. Fits(y, S)
    BY DEF Fits
  <2>4. VecReaches(y)'
    <3>1. CASE x.vec = <<>>
      BY <3>1 DEF VecReaches
    <3>2. CASE \E v \in 1..Len(defs) : Len(x.vec) + NativeLimit <= Len(defs[v])
      <4>1. PICK v \in 1..Len(defs) : Len(x.vec) + NativeLimit <= Len(defs[v])
        BY <3>2
      <4>2. v \in 1..Len(defs') /\ defs'[v] = defs[v]
        BY ClassIs DEF Gains
      <4> QED BY <4>1, <4>2 DEF VecReaches
    <3> QED BY <1>3, <3>1, <3>2 DEF Ready, VecReaches
  <2> QED BY <1>8, <1>9, <1>10, <2>1, <2>2, <2>3, <2>4 DEF Ready, Sane, Fits
<1>15. Kept(y, g, p)'
  BY <1>8, <1>9, <1>11, <1>12, <1>13, <1>14 DEF Kept, Follows, Held
<1> QED BY <1>2, <1>5, <1>6, <1>15 DEF Keeps

-----------------------------------------------------------------------------
(* What the chase finds is where the trace leads. *)
LEMMA ComposedTraces ==
  ASSUME ClassInv, phase = "stable", NEW birth \in Nat, birth + 1 < Len(defs),
         NEW D, IsTrace(D, birth + 1)
  PROVE  /\ DOMAIN Composed(birth) = DOMAIN Aliases(Current)
         /\ \A n \in DOMAIN Aliases(Current) : Composed(birth)[n] = D[Len(defs)][n]
<1> DEFINE h0 == CHOOSE h : h = [u \in Nat |-> IF u >= counter THEN Aliases(Current) ELSE Chase(h[u + 1], u)]
<1>1. PICK h : h = h0
  OBVIOUS
<1>2. Composed(birth) = h[birth + 1]
  BY <1>1 DEF Composed
<1>3. h = [u \in Nat |-> IF u >= counter THEN Aliases(Current) ELSE Chase(h[u + 1], u)]
  BY <1>1, ChaseExists, ClassIs
<1> HIDE DEF h0
<1>4. PICK e, b : e = Len(defs) /\ b = birth + 1
  OBVIOUS
<1>5. counter = e - 1 /\ e \in Nat /\ b \in 1..(e - 1) /\ Current = defs[e]
  BY <1>4, ClassIs DEF ClassInv, Current
<1>6. h[counter] = Aliases(Current)
  BY <1>3, <1>5
<1>7. \A u \in Nat : u < counter => h[u] = Chase(h[u + 1], u)
  BY <1>3, ClassIs
<1>8. \A v \in (b + 1)..e : \A m \in Names :
        D[v][m] = IF m \in DOMAIN Aliases(defs[v]) THEN D[v - 1][Aliases(defs[v])[m]] ELSE D[v - 1][m]
  <2> TAKE v \in (b + 1)..e
  <2>1. v \in b..Len(defs) /\ v # b
    BY <1>4, <1>5
  <2> QED BY <1>4, <2>1 DEF IsTrace
<1>9. \A m \in Names : D[b][m] = m
  <2>1. b \in b..Len(defs)
    BY <1>4, <1>5
  <2> QED BY <1>4, <2>1 DEF IsTrace
<1> DEFINE Leads(q, u) == /\ DOMAIN q = DOMAIN Aliases(Current)
                          /\ \A n \in DOMAIN Aliases(Current) : q[n] \in Names /\ D[u][q[n]] = D[e][n]
           A == {u \in Nat : u <= counter /\ (u >= b => Leads(h[u], u))}
<1>10. \A n \in DOMAIN Aliases(Current) : n \in Names /\ Aliases(Current)[n] \in Names
  BY ClassIs, AliasesIs, PosIs
<1>11. counter \in A
  <2>1. e \in (b + 1)..e
    BY <1>5
  <2>2. \A n \in DOMAIN Aliases(Current) : D[e - 1][Aliases(Current)[n]] = D[e][n]
    BY <1>5, <1>8, <1>10, <2>1
  <2>3. Leads(h[counter], counter)
    BY <1>5, <1>6, <1>10, <2>2
  <2> HIDE DEF Leads
  <2> QED BY <1>5, <2>3
<1>12. ASSUME NEW k \in Nat, k + 1 \in A PROVE k \in A
  <2>1. k + 1 <= counter /\ k < counter /\ k <= counter /\ (k + 1 >= b => Leads(h[k + 1], k + 1))
    BY <1>5, <1>12
  <2>2. ASSUME k >= b PROVE Leads(h[k], k)
    <3>1. PICK q, r, B : q = h[k + 1] /\ r = h[k] /\ B = Aliases(defs[k + 1])
      OBVIOUS
    <3>2. Leads(q, k + 1) /\ k + 1 \in (b + 1)..e /\ k + 1 \in 1..Len(defs) /\ (k + 1) - 1 = k
      <4>1. k + 1 >= b
        BY <1>5, <2>2
      <4>2. Leads(q, k + 1)
        BY <2>1, <3>1, <4>1
      <4>3. k + 1 \in (b + 1)..e /\ k + 1 \in 1..Len(defs) /\ (k + 1) - 1 = k
        BY <1>4, <1>5, <2>1, <2>2
      <4> QED BY <4>2, <4>3
    <3>3. r = [n \in DOMAIN q |-> IF q[n] \in DOMAIN B THEN B[q[n]] ELSE q[n]]
      BY <1>7, <2>1, <3>1 DEF Chase
    <3>4. \A m \in DOMAIN B : B[m] \in Names
      BY <3>1, <3>2, ClassIs, AliasesIs
    <3>5. \A m \in Names : D[k + 1][m] = IF m \in DOMAIN B THEN D[k][B[m]] ELSE D[k][m]
      BY <1>8, <3>1, <3>2
    <3>6. ASSUME NEW n \in DOMAIN Aliases(Current) PROVE r[n] \in Names /\ D[k][r[n]] = D[e][n]
      <4>1. q[n] \in Names /\ D[k + 1][q[n]] = D[e][n] /\ n \in DOMAIN q
        BY <3>2
      <4>2. r[n] = IF q[n] \in DOMAIN B THEN B[q[n]] ELSE q[n]
        BY <3>3, <4>1
      <4> QED BY <3>4, <3>5, <4>1, <4>2
    <3>7. DOMAIN r = DOMAIN Aliases(Current)
      BY <3>2, <3>3
    <3>8. Leads(r, k)
      BY <3>6, <3>7
    <3> HIDE DEF Leads
    <3> QED BY <3>1, <3>8
  <2> HIDE DEF Leads
  <2> QED BY <2>1, <2>2
<1>13. b \in A
  <2>1. A \in SUBSET Nat
    OBVIOUS
  <2>2. b \in Nat /\ b <= counter
    BY <1>5
  <2>3. \A k \in Nat : k + 1 \in A => k \in A
    BY <1>12
  <2> HIDE DEF A
  <2> QED BY <1>11, <2>1, <2>2, <2>3, DownTo
<1>14. Leads(h[b], b)
  <2>1. b >= b
    BY <1>5
  <2> HIDE DEF Leads
  <2> QED BY <1>13, <2>1
<1> QED BY <1>2, <1>4, <1>9, <1>14

(* A migration, field by field. *)
Retained(x, n) ==
  IF n \in Native(defs[x.layout]) \cap Native(Current) THEN x.native[n]
  ELSE IF n \in (Native(Current) \ Native(defs[x.layout])) \cap Initform THEN <<n, 2>>
  ELSE Unbound
Found(x, from) ==
  {n \in DOMAIN from : from[n] \in {k \in Native(defs[x.layout]) \ Native(Current) : x.native[k] # Unbound}}
ToVec(x, from) == Found(x, from) \cap DOMAIN overflow
PlaceOf(x, from, i) ==
  LET ns == {n \in ToVec(x, from) : overflow[n] = i}
  IN  IF ns # {} THEN x.native[from[CHOOSE n \in ns : TRUE]]
      ELSE IF i <= Len(x.vec) THEN x.vec[i]
      ELSE Unbound

Moves(x, from, y) ==
  /\ y.layout = Len(defs) /\ y.stamp = counter /\ y # Failed
  /\ \A n \in Names :
       y.native[n] = IF n \in Found(x, from) \ ToVec(x, from) /\ Retained(x, n) = Unbound
                     THEN x.native[from[n]] ELSE Retained(x, n)
  /\ ToVec(x, from) = {} => y.vec = x.vec /\ y.vecState = x.vecState
  /\ ToVec(x, from) # {} =>
       /\ y.vecState = "vector" /\ Len(y.vec) = Cardinality(DOMAIN overflow)
       /\ \A i \in 1..Cardinality(DOMAIN overflow) : y.vec[i] = PlaceOf(x, from, i)

(* A migration gives what Moves says. *)
LEMMA MigrationIs ==
  ASSUME ClassInv, NEW x, Shape(x), NEW y, y = Migrated(x),
         ToVec(x, Composed(x.stamp)) # {} => x.vecState # "unset"
  PROVE  Moves(x, Composed(x.stamp), y)
<1> DEFINE old == Native(defs[x.layout])
           new == Native(Current)
           plist == {n \in old \ new : x.native[n] # Unbound}
           kept == [n \in Names |-> IF n \in old \cap new THEN x.native[n]
                                    ELSE IF n \in (new \ old) \cap Initform THEN <<n, 2>>
                                    ELSE Unbound]
           from == Composed(x.stamp)
           found == {n \in DOMAIN from : from[n] \in plist}
           toVec == found \cap DOMAIN overflow
           toNative == {n \in found \ toVec : kept[n] = Unbound}
           At(i) == LET ns == {n \in toVec : overflow[n] = i}
                    IN  IF ns # {} THEN x.native[from[CHOOSE n \in ns : TRUE]]
                        ELSE IF i <= Len(x.vec) THEN x.vec[i]
                        ELSE Unbound
           g == [n \in Names |-> IF n \in toNative THEN x.native[from[n]] ELSE kept[n]]
           base == [x EXCEPT !.layout = Len(defs), !.stamp = counter, !.native = g]
<1>1. y = IF toVec = {} THEN base
          ELSE IF x.vecState = "unset" THEN Failed
          ELSE [base EXCEPT !.vecState = "vector",
                            !.vec = [i \in 1..Cardinality(DOMAIN overflow) |-> At(i)]]
  BY DEF Migrated
<1>0. ToVec(x, from) # {} => x.vecState # "unset"
  OBVIOUS
<1> HIDE DEF from
<1>2. found = Found(x, from) /\ toVec = ToVec(x, from)
  BY DEF Found, ToVec
<1>3. \A n \in Names : kept[n] = Retained(x, n)
  BY DEF Retained
<1>4. ASSUME NEW i PROVE At(i) = PlaceOf(x, from, i)
  <2>1. PICK u : u = {n \in toVec : overflow[n] = i}
    OBVIOUS
  <2>2. PICK c : c = CHOOSE n \in u : TRUE
    OBVIOUS
  <2>3. At(i) = IF u # {} THEN x.native[from[c]] ELSE IF i <= Len(x.vec) THEN x.vec[i] ELSE Unbound
    BY <2>1, <2>2
  <2>4. u = {n \in ToVec(x, from) : overflow[n] = i}
    <3> HIDE DEF toVec
    <3> QED BY <1>2, <2>1
  <2>5. PlaceOf(x, from, i) =
          IF u # {} THEN x.native[from[c]] ELSE IF i <= Len(x.vec) THEN x.vec[i] ELSE Unbound
    BY <2>2, <2>4 DEF PlaceOf
  <2> HIDE DEF At
  <2> QED BY <2>3, <2>5
<1>5. \A n \in Names : g[n] = IF n \in Found(x, from) \ ToVec(x, from) /\ Retained(x, n) = Unbound
                              THEN x.native[from[n]] ELSE Retained(x, n)
  <2>1. \A n \in Names : n \in toNative <=> n \in found \ toVec /\ kept[n] = Unbound
    OBVIOUS
  <2>2. \A n \in Names : g[n] = IF n \in toNative THEN x.native[from[n]] ELSE kept[n]
    OBVIOUS
  <2> HIDE DEF g, toNative, kept, found, toVec
  <2> QED BY <1>2, <1>3, <2>1, <2>2
<1>6. PICK b : b = base
  OBVIOUS
<1>7. PICK w : w = [i \in 1..Cardinality(DOMAIN overflow) |-> At(i)]
  OBVIOUS
<1>8. /\ toVec = {} => y = b
      /\ toVec # {} => y = WithVec(b, w)
  BY <1>1, <1>2, <1>0, <1>6, <1>7 DEF WithVec
<1>9. w = [i \in 1..Cardinality(DOMAIN overflow) |-> PlaceOf(x, from, i)]
  BY <1>4, <1>7
<1>10. x \in ObjectRecs
  BY DEF Shape
<1> HIDE DEF At, toVec, toNative, found, kept, plist, g
<1>11. PICK k : k = g
  OBVIOUS
<1>12. b = [x EXCEPT !.layout = Len(defs), !.stamp = counter, !.native = k]
  BY <1>6, <1>11
<1> HIDE DEF base
<1>13. /\ b.layout = Len(defs) /\ b.stamp = counter /\ b.native = k
       /\ b.vec = x.vec /\ b.vecState = x.vecState
  BY <1>10, <1>12 DEF ObjectRecs
<1>14. PICK z : z = WithVec(b, w)
  OBVIOUS
<1>15. /\ z.layout = Len(defs) /\ z.stamp = counter /\ z.native = k
       /\ z.vec = w /\ z.vecState = "vector"
  BY <1>10, <1>12, <1>14 DEF ObjectRecs, WithVec
<1>16. Cardinality(DOMAIN overflow) \in Nat
  BY OverflowMapIs
<1>17. /\ Len(w) = Cardinality(DOMAIN overflow)
       /\ \A i \in 1..Cardinality(DOMAIN overflow) : w[i] = PlaceOf(x, from, i)
  BY <1>9, <1>16
<1>18. y.layout = Len(defs) /\ y.stamp = counter /\ y.native = k
  BY <1>8, <1>13, <1>14, <1>15
<1>19. y # Failed
  <2>1. y.layout # -1
    BY <1>18, ClassIs
  <2>2. Failed.layout = -1
    BY DEF Failed
  <2> QED BY <2>1, <2>2
<1>20. \A n \in Names :
         y.native[n] = IF n \in Found(x, from) \ ToVec(x, from) /\ Retained(x, n) = Unbound
                       THEN x.native[from[n]] ELSE Retained(x, n)
  BY <1>5, <1>11, <1>18
<1>21. Moves(x, from, y)
  BY <1>2, <1>8, <1>13, <1>14, <1>15, <1>17, <1>18, <1>19, <1>20 DEF Moves
<1> QED BY <1>21 DEF from

(* A migration recovers what the slots should hold. *)
LEMMA MigratedKeeps ==
  ASSUME ClassInv, phase = "stable", NEW x, Shape(x), x.layout # Len(defs), NEW m, Keeps(x, m),
         NEW y, y = Migrated(x)
  PROVE  y # Failed /\ Keeps(y, m)
<1>1. PICK D : IsTrace(D, x.stamp + 1) /\ Kept(x, D[Len(defs)], m)
  BY DEF Keeps
<1>2. PICK f, from, old, new :
        /\ f = D[Len(defs)] /\ from = Composed(x.stamp)
        /\ old = OldNative(x) /\ new = Native(Current)
  OBVIOUS
<1>3. /\ Ready(x) /\ x.stamp \in Nat /\ x.stamp + 1 \in 1..Len(defs) /\ x.stamp + 1 < Len(defs)
      /\ Native(defs[x.layout]) = old
  BY <1>1, <1>2, ClassIs DEF Kept, Ready, Shape, ObjectRecs
<1>4. /\ DOMAIN from = DOMAIN Aliases(Current)
      /\ \A n \in DOMAIN Aliases(Current) : from[n] = f[n]
  BY <1>1, <1>2, <1>3, ComposedTraces
<1>5. /\ NameSet(Current) \subseteq Names /\ new \subseteq NameSet(Current) /\ Current \in Schemas
      /\ old \subseteq OldNames(x)
  BY <1>2, <1>3, ClassIs, PosIs, NativeIs DEF OldNames, OldNative
<1>6. ASSUME NEW n \in NameSet(Current) PROVE Follows(Current, x, f, n) /\ m[n] = Held(Current, x, f, n)
  BY <1>1, <1>2 DEF Kept
\* a slot found has a new name, and what is found for it was discarded
<1>7. ASSUME NEW n
      PROVE  n \in Found(x, from) <=> /\ n \in NameSet(Current) /\ f[n] # n
                                      /\ f[n] \in old /\ x.native[f[n]] # Unbound
  <2>1. n \in Found(x, from) <=> /\ n \in DOMAIN Aliases(Current) /\ f[n] \in old \ new
                                 /\ x.native[f[n]] # Unbound
    BY <1>2, <1>3, <1>4 DEF Found
  <2>2. n \in DOMAIN Aliases(Current) => n \in NameSet(Current)
    BY <1>5, AliasesIs
  <2>3. ASSUME n \in NameSet(Current) PROVE f[n] \in old \ new => f[n] # n
    <3>1. n \notin new => n \notin old
      BY <1>2, <1>6, <2>3 DEF Follows
    <3> QED BY <3>1
  <2>4. ASSUME n \in NameSet(Current), f[n] # n, f[n] \in old
        PROVE  n \in DOMAIN Aliases(Current) /\ f[n] \notin new
    BY <1>5, <1>6, <2>4, AliasOfIs DEF Follows
  <2> QED BY <2>1, <2>2, <2>3, <2>4
<1>8. ASSUME NEW n \in Found(x, from)
      PROVE  /\ n \in NameSet(Current) /\ n \notin OldNames(x) /\ n \notin old /\ n \notin Initform
             /\ Retained(x, n) = Unbound
             /\ n \in ToVec(x, from) <=> n \notin new
  <2>1. n \in NameSet(Current) /\ f[n] # n /\ f[n] \in old /\ f[n] \in OldNames(x)
    BY <1>5, <1>7
  <2>2. n \notin OldNames(x) /\ n \notin old /\ n \notin Initform
    BY <1>5, <1>6, <2>1 DEF Follows
  <2>3. Retained(x, n) = Unbound
    BY <1>2, <1>3, <2>2 DEF Retained
  <2>4. n \notin new => n \in DOMAIN overflow
    BY <1>2, <2>1, OverflowNow
  <2>5. n \in DOMAIN overflow => n \notin new
    <3>1. CASE Wide(Current)
      BY <1>2, <3>1, WideNames
    <3>2. CASE ~Wide(Current)
      BY <1>6, <2>1, <2>2, <3>2 DEF Follows
    <3> QED BY <3>1, <3>2
  <2> QED BY <2>1, <2>2, <2>3, <2>4, <2>5 DEF ToVec
<1>9. ASSUME NEW n \in ToVec(x, from)
      PROVE  n \in Found(x, from) /\ n \in NameSet(Current) /\ n \notin Native(Current)
  BY <1>2, <1>8, <1>9 DEF ToVec
<1>10. ToVec(x, from) # {} => Wide(Current) /\ x.vecState = "nil" /\ x.vec = <<>>
  <2> SUFFICES ASSUME NEW n \in ToVec(x, from) PROVE Wide(Current) /\ x.vecState = "nil" /\ x.vec = <<>>
    OBVIOUS
  <2>1. n \in Found(x, from) /\ n \in NameSet(Current) /\ n \notin Native(Current)
    BY <1>9
  <2>2. x.vecState # "vector"
    BY <1>2, <1>6, <1>7, <2>1 DEF Follows
  <2>3. Fits(x, Current)
    BY <1>3 DEF Ready
  <2> QED BY <2>1, <2>2, <2>3, OverflowNow, SlotShown
<1>11. ToVec(x, from) # {} => x.vecState # "unset"
  BY <1>10
<1>12. Moves(x, from, y)
  <2>1. ToVec(x, Composed(x.stamp)) # {} => x.vecState # "unset"
    BY <1>2, <1>11
  <2>2. Moves(x, Composed(x.stamp), y)
    BY <2>1, MigrationIs
  <2> QED BY <1>2, <2>2
<1>13. Shape(y)
  BY <1>12, MigratedIs DEF Recovers, Moves
<1>14. Fits(x, Current) /\ VecReaches(x) /\ Sane(Current)
  BY <1>3 DEF Ready
<1>15. Fits(y, Current) /\ VecReaches(y)
  <2>1. CASE ToVec(x, from) = {}
    BY <1>12, <1>14, <2>1 DEF Fits, VecReaches, Moves
  <2>2. CASE ToVec(x, from) # {}
    <3>1. PICK n : n \in ToVec(x, from)
      BY <2>2
    <3>2. Cardinality(DOMAIN overflow) = Len(Current) - NativeLimit
      BY <1>9, <3>1, OverflowNow
    <3>3. Len(y.vec) + NativeLimit <= Len(defs[Len(defs)]) /\ Len(Current) - NativeLimit <= Len(y.vec)
      BY <1>5, <1>12, <2>2, <3>2, SchemaIs, SchemaAssumption DEF Current, Moves
    <3> QED BY <1>12, <2>2, <3>3, ClassIs DEF Fits, VecReaches, Moves
  <2> QED BY <2>1, <2>2
<1>16. ASSUME NEW n \in NameSet(Current), n \in new PROVE m[n] = Shown(y, n)
  <2>1. Shown(y, n) = y.native[n] /\ n \in Names
    BY <1>2, <1>5, <1>16 DEF Shown
  <2>2. CASE n \in Found(x, from)
    <3>1. y.native[n] = x.native[f[n]]
      <4>1. n \notin ToVec(x, from) /\ Retained(x, n) = Unbound
        BY <1>8, <1>16, <2>2
      <4>2. n \in DOMAIN from
        BY <2>2 DEF Found
      <4> QED BY <1>4, <1>12, <2>1, <2>2, <4>1, <4>2 DEF Moves
    <3>2. n \notin old /\ f[n] \in old
      BY <1>7, <1>8, <2>2
    <3> QED BY <1>2, <1>6, <2>1, <3>1, <3>2 DEF Held
  <2>3. CASE n \notin Found(x, from)
    <3>1. y.native[n] = Retained(x, n)
      BY <1>12, <2>1, <2>3 DEF Moves
    <3>2. CASE n \in old
      BY <1>2, <1>3, <1>6, <1>16, <2>1, <3>1, <3>2 DEF Held, Retained
    <3>3. CASE n \notin old /\ f[n] \in old
      <4>1. x.native[f[n]] = Unbound /\ n \notin Initform
        <5>1. f[n] # n
          BY <3>3
        <5>2. n \notin Initform
          BY <1>5, <1>6, <3>3, <5>1 DEF Follows
        <5> QED BY <1>7, <2>3, <3>3, <5>1, <5>2
      <4>2. Retained(x, n) = Unbound
        BY <1>2, <1>3, <3>3, <4>1 DEF Retained
      <4> QED BY <1>2, <1>6, <2>1, <3>1, <3>3, <4>1, <4>2 DEF Held
    <3>4. CASE n \notin old /\ f[n] \notin old
      BY <1>2, <1>3, <1>6, <1>16, <2>1, <3>1, <3>4 DEF Held, Retained
    <3> QED BY <3>2, <3>3, <3>4
  <2> QED BY <2>2, <2>3
<1>17. ASSUME NEW n \in NameSet(Current), n \notin new PROVE m[n] = Shown(y, n)
  <2>1. PICK p : p = Place(Current, n)
    OBVIOUS
  <2>2. /\ Wide(Current) /\ n \in DOMAIN overflow /\ overflow[n] = p
        /\ p \in 1..Cardinality(DOMAIN overflow)
        /\ \A k \in DOMAIN overflow : overflow[k] = p => k = n
    BY <1>2, <1>17, <2>1, OverflowNow
  <2>3. Shown(y, n) = AtPlace(y, p)
    BY <1>2, <1>17, <2>1 DEF Shown
  <2>4. n \notin old /\ (f[n] \in old => x.vecState # "vector") /\ (f[n] \in old => f[n] # n)
    BY <1>2, <1>6, <1>17 DEF Follows
  <2>5. f[n] \in old => AtPlace(x, p) = Unbound
    BY <1>2, <1>14, <1>17, <2>1, <2>4, SlotShown
  <2>6. m[n] = IF n \in Found(x, from) THEN x.native[f[n]] ELSE AtPlace(x, p)
    <3>1. m[n] = IF f[n] \in old THEN x.native[f[n]] ELSE AtPlace(x, p)
      BY <1>2, <1>6, <1>17, <2>1, <2>4 DEF Held
    <3> QED BY <1>7, <2>4, <2>5, <3>1
  <2>7. CASE ToVec(x, from) = {}
    <3>1. n \notin Found(x, from)
      BY <1>8, <1>17, <2>7
    <3> QED BY <1>12, <2>3, <2>6, <2>7, <3>1 DEF AtPlace, Moves
  <2>8. CASE ToVec(x, from) # {}
    <3>1. AtPlace(y, p) = PlaceOf(x, from, p)
      BY <1>12, <2>2, <2>8, OverflowMapIs DEF AtPlace, Moves
    <3>2. CASE n \in Found(x, from)
      <4>1. n \in ToVec(x, from) /\ n \in DOMAIN from
        BY <1>8, <1>17, <3>2 DEF Found
      <4>2. {k \in ToVec(x, from) : overflow[k] = p} = {n}
        BY <2>2, <4>1 DEF ToVec
      <4>3. PlaceOf(x, from, p) = x.native[from[n]]
        BY <4>2 DEF PlaceOf
      <4> QED BY <1>4, <2>3, <2>6, <3>1, <3>2, <4>1, <4>3
    <3>3. CASE n \notin Found(x, from)
      <4>1. {k \in ToVec(x, from) : overflow[k] = p} = {}
        BY <2>2, <3>3 DEF ToVec
      <4>2. PlaceOf(x, from, p) = AtPlace(x, p)
        BY <4>1 DEF PlaceOf, AtPlace
      <4> QED BY <2>3, <2>6, <3>1, <3>3, <4>2
    <3> QED BY <3>2, <3>3
  <2> QED BY <2>7, <2>8
<1>18. \A n \in NameSet(Current) : m[n] = Shown(y, n)
  BY <1>16, <1>17
<1>19. \A n \in Names \ NameSet(Current) : m[n] = Unbound
  BY <1>1 DEF Kept
<1>20. y.stamp + 1 = Len(defs)
  BY <1>12, ClassIs DEF ClassInv, Moves
<1> QED BY <1>12, <1>13, <1>14, <1>15, <1>18, <1>19, <1>20, KeptNow DEF Moves

-----------------------------------------------------------------------------
(* The operations on an object that is up to date. *)
Fit(x) ==
  /\ Shape(x) /\ x.layout = Len(defs)
  /\ Sane(Current) /\ Fits(x, Current) /\ VecReaches(x)

Shows(x, m) ==
  /\ \A n \in NameSet(Current) : m[n] = Shown(x, n)
  /\ \A n \in Names \ NameSet(Current) : m[n] = Unbound

LEMMA KeptFits ==
  ASSUME ClassInv, NEW x, Shape(x), x.layout = Len(defs), NEW m, Keeps(x, m)
  PROVE  Fit(x) /\ Shows(x, m)
<1>1. PICK D : IsTrace(D, x.stamp + 1) /\ Kept(x, D[Len(defs)], m)
  BY DEF Keeps
<1>2. PICK f : f = D[Len(defs)]
  OBVIOUS
<1>3. Kept(x, f, m)
  BY <1>1, <1>2
<1>4. \A n \in NameSet(Current) : m[n] = Shown(x, n)
  BY <1>3, KeptShown
<1> QED BY <1>3, <1>4 DEF Fit, Shows, Kept, Ready

(* The same version with other values. *)
LEMMA KeptStays ==
  ASSUME ClassInv, NEW x, Shape(x), x.layout = Len(defs), NEW m, Keeps(x, m),
         NEW y, Fit(y), y.stamp = x.stamp, NEW p, Shows(y, p)
  PROVE  Keeps(y, p)
<1>1. PICK D : IsTrace(D, x.stamp + 1) /\ Kept(x, D[Len(defs)], m)
  BY DEF Keeps
<1>2. PICK f : f = D[Len(defs)]
  OBVIOUS
<1>3. Kept(x, f, m)
  BY <1>1, <1>2
<1>4. /\ OldNative(x) = Native(Current)
      /\ \A n \in NameSet(Current) : f[n] \in OldNative(x) => f[n] = n /\ n \in Native(Current)
  BY <1>3, KeptShown
<1>5. OldNative(y) = OldNative(x) /\ OldNames(y) = OldNames(x)
  BY DEF OldNative, OldNames
<1>6. ASSUME NEW n \in NameSet(Current) PROVE Follows(Current, y, f, n) /\ p[n] = Held(Current, y, f, n)
  <2>1. Follows(Current, x, f, n)
    BY <1>3 DEF Kept
  <2>2. Follows(Current, y, f, n)
    BY <1>4, <1>5, <2>1 DEF Follows
  <2>3. Held(Current, y, f, n) = Shown(y, n)
    BY <1>4, <1>5 DEF Held, Shown
  <2> QED BY <2>2, <2>3 DEF Shows
<1>7. Ready(y)
  BY <1>3, <1>4, <1>5 DEF Kept, Ready, Fit, Current
<1>8. Kept(y, f, p)
  BY <1>3, <1>6, <1>7 DEF Kept, Shows
<1> QED BY <1>1, <1>2, <1>8 DEF Keeps

LEMMA KeptFresh ==
  ASSUME ClassInv, NEW x, Fit(x), x.stamp + 1 = Len(defs), NEW m, Shows(x, m)
  PROVE  Keeps(x, m)
BY KeptNow DEF Fit, Shows

(* A copy takes every value, and does not fail. *)
LEMMA CopyTakes ==
  ASSUME ClassInv, NEW x, Fit(x), NEW keep \in SUBSET Native(Current)
  PROVE  /\ ~CopyFails(x, keep)
         /\ \A n \in Native(Current) : Source(x, n) = x.native[n]
<1>1. Current \in Schemas /\ Native(Current) \subseteq NameSet(Current) /\ NameSet(Current) \subseteq Names
  BY ClassIs, NativeIs, PosIs
<1>2. ASSUME NEW n \in Native(Current) PROVE Source(x, n) = x.native[n]
  <2>1. CASE n \in DOMAIN Aliases(Current) /\ x.native[n] = Unbound
    <3>1. PICK a : a = Aliases(Current)[n]
      OBVIOUS
    <3>2. a = AliasOf(Current, n) /\ n \in NameSet(Current)
      BY <1>1, <2>1, <3>1, AliasOfIs
    <3>3. a \notin NameSet(Current) /\ (~Wide(Current) => a \notin DOMAIN overflow)
      BY <3>2 DEF Fit, Sane
    <3>4. a \notin Native(defs[x.layout]) /\ a \notin DOMAIN overflow
      BY <1>1, <3>3, WideNames DEF Fit, Current
    <3> QED BY <2>1, <3>1, <3>4 DEF Source, Slot
  <2>2. CASE ~(n \in DOMAIN Aliases(Current) /\ x.native[n] = Unbound)
    BY <2>2 DEF Source
  <2> QED BY <2>1, <2>2
<1>3. ASSUME NEW n \in keep PROVE Source(x, n) # Broken
  <2>1. n \in Names /\ Source(x, n) = x.native[n]
    BY <1>1, <1>2
  <2> QED BY <2>1, StoredIs DEF Fit, Shape, ObjectRecs
<1>4. Wide(Current) => x.vecState # "unset"
  BY DEF Fit, Fits
<1> QED BY <1>2, <1>3, <1>4 DEF CopyFails

LEMMA CopyShows ==
  ASSUME ClassInv, NEW x, Fit(x), NEW keep \in SUBSET Native(Current), NEW y, y = Copy(x, keep)
  PROVE  /\ Fit(y) /\ y.stamp = counter
         /\ \A n \in NameSet(Current) :
              Shown(y, n) = IF n \in Native(Current) \ keep THEN Unbound ELSE Shown(x, n)
<1>1. Shape(x) /\ x.layout = Len(defs) /\ ~CopyFails(x, keep)
  BY CopyTakes DEF Fit
<1>2. /\ Shape(y) /\ y.layout = x.layout /\ y.stamp = counter
      /\ \A n \in Names : y.native[n] = IF n \in keep THEN Source(x, n) ELSE Unbound
      /\ Wide(Current) => y.vecState = x.vecState /\ y.vec = x.vec
      /\ ~Wide(Current) => y.vec = <<>>
  BY <1>1, CopyIs
<1>3. Fit(y)
  BY <1>1, <1>2 DEF Fit, Fits, VecReaches
<1>4. ASSUME NEW n \in NameSet(Current)
      PROVE  Shown(y, n) = IF n \in Native(Current) \ keep THEN Unbound ELSE Shown(x, n)
  <2>1. CASE n \in Native(Current)
    <3>1. n \in Names /\ Source(x, n) = x.native[n]
      BY <2>1, CopyTakes, ClassIs, PosIs
    <3> QED BY <1>2, <2>1, <3>1 DEF Shown
  <2>2. CASE n \notin Native(Current)
    <3>1. y.vec = x.vec
      BY <1>2, <2>2, OverflowNow
    <3> QED BY <2>2, <3>1 DEF Shown, AtPlace
  <2> QED BY <2>1, <2>2
<1> QED BY <1>2, <1>3, <1>4

(* What a constructor gives. *)
LEMMA NewShows ==
  ASSUME ClassInv, Sane(Current), NEW given \in SUBSET NameSet(Current), NEW bypass \in BOOLEAN,
         NEW y, y = New(Current, given, bypass)
  PROVE  Fit(y) /\ y.stamp = counter /\ Shows(y, Contents(y))
<1>1. /\ Shape(y) /\ y.layout = Len(defs) /\ y.stamp = counter
      /\ \A i \in 1..Len(y.vec) : i + NativeLimit \in 1..Len(Current)
  BY NewIs
<1>2. Len(Current) \in Nat /\ NativeLimit \in Nat \ {0} /\ Len(y.vec) \in Nat
  BY <1>1, ClassIs, SchemaIs, SchemaAssumption, VecIs DEF Shape
<1>3. Wide(Current) => y.vecState = "vector" /\ Len(y.vec) = Len(Current) - NativeLimit
  BY <1>2 DEF New, Wide
<1>4. Fits(y, Current)
  BY <1>2, <1>3 DEF Fits
<1>5. VecReaches(y)
  <2>1. CASE y.vec = <<>>
    BY <2>1 DEF VecReaches
  <2>2. CASE y.vec # <<>>
    <3>1. Len(y.vec) \in 1..Len(y.vec)
      BY <1>1, <1>2, <2>2, VecIs DEF Shape
    <3>2. Len(y.vec) + NativeLimit <= Len(defs[Len(defs)])
      BY <1>1, <1>2, <3>1 DEF Current
    <3> QED BY <3>2, ClassIs DEF VecReaches
  <2> QED BY <2>1, <2>2
<1>6. \A n \in NameSet(Current) : n \in Names /\ Slot(y, n) = Shown(y, n)
  BY <1>1, <1>4, SlotShown, ClassIs, PosIs
<1>7. Shows(y, Contents(y))
  BY <1>6 DEF Shows, Contents
<1> QED BY <1>1, <1>4, <1>5, <1>7 DEF Fit

(* What y shows is what x shows, with v in slot n. *)
SetsOne(y, x, n, v) ==
  \A k \in NameSet(Current) : Shown(y, k) = IF k = n THEN v ELSE Shown(x, k)

(* A write shows in its slot and in no other. *)
LEMMA NativeWriteShows ==
  ASSUME ClassInv, NEW x, Fit(x), NEW n \in Native(Current), NEW v \in Values,
         NEW y, y = WithNative(x, n, v)
  PROVE  /\ Fit(y) /\ y.stamp = x.stamp /\ y # Failed
         /\ SetsOne(y, x, n, v)
<1>1. /\ Shape(y) /\ y.layout = x.layout /\ x.layout = Len(defs)
      /\ y.native[n] = v /\ \A k \in Names \ {n} : y.native[k] = x.native[k]
      /\ y.vec = x.vec /\ y.vecState = x.vecState /\ y.stamp = x.stamp
  BY NativeWriteIs DEF Fit
<1>2. Fit(y)
  BY <1>1 DEF Fit, Fits, VecReaches
<1>3. NameSet(Current) \subseteq Names
  BY ClassIs, PosIs
<1>4. SetsOne(y, x, n, v)
  BY <1>1, <1>3 DEF SetsOne, Shown, AtPlace
<1>5. y # Failed
  <2>1. y.layout # -1
    BY <1>1, ClassIs
  <2> QED BY <2>1 DEF Failed
<1> QED BY <1>1, <1>2, <1>4, <1>5

Put(w, i, v) == [w EXCEPT ![i] = v]
SamePlaces(w, x) == \A p \in Nat \ {0} : (IF p <= Len(w) THEN w[p] ELSE Unbound) = AtPlace(x, p)

LEMMA VectorWriteShows ==
  ASSUME ClassInv, NEW x, Fit(x), NEW n \in NameSet(Current), n \notin Native(Current), NEW v \in Values,
         NEW w \in Seq(Stored), overflow[n] \in 1..Len(w),
         Len(Current) - NativeLimit <= Len(w),
         \E u \in 1..Len(defs) : Len(w) + NativeLimit <= Len(defs[u]),
         SamePlaces(w, x), NEW y, y = WithVec(x, Put(w, overflow[n], v))
  PROVE  /\ Fit(y) /\ y.stamp = x.stamp /\ y # Failed
         /\ SetsOne(y, x, n, v)
<1>1. PICK u : u = Put(w, overflow[n], v)
  OBVIOUS
<1>2. /\ u \in Seq(Stored) /\ Len(u) = Len(w) /\ u[overflow[n]] = v
      /\ \A j \in 1..Len(w) \ {overflow[n]} : u[j] = w[j]
  BY <1>1, ElementChanged DEF Stored, Put
<1>3. y = WithVec(x, u) /\ Shape(x) /\ x.layout = Len(defs)
  BY <1>1 DEF Fit
<1>4. /\ Shape(y) /\ y.layout = Len(defs) /\ y.stamp = x.stamp
      /\ y.native = x.native /\ y.vecState = "vector" /\ y.vec = u
  BY <1>2, <1>3, VectorWriteIs
<1>5. Fit(y)
  BY <1>2, <1>4 DEF Fit, Fits, VecReaches
<1>6. ASSUME NEW k \in NameSet(Current) PROVE Shown(y, k) = IF k = n THEN v ELSE Shown(x, k)
  <2>1. CASE k \in Native(Current)
    BY <1>4, <2>1 DEF Shown
  <2>2. CASE k \notin Native(Current)
    <3>1. PICK p, q : p = Place(Current, k) /\ q = overflow[n]
      OBVIOUS
    <3>2. /\ k \in DOMAIN overflow /\ overflow[k] = p /\ p \in Nat \ {0} /\ Len(w) \in Nat
          /\ n \in DOMAIN overflow /\ q = Place(Current, n)
      BY <2>2, <3>1, OverflowNow, OverflowMapIs
    <3>3. p = q <=> k = n
      BY <2>2, <3>1, <3>2, OverflowNow
    <3>4. Shown(y, k) = AtPlace(y, p) /\ Shown(x, k) = AtPlace(x, p)
      BY <2>2, <3>1 DEF Shown
    <3>5. AtPlace(y, p) = IF p <= Len(w) THEN u[p] ELSE Unbound
      BY <1>2, <1>4 DEF AtPlace
    <3>6. p # q => AtPlace(y, p) = AtPlace(x, p)
      BY <1>2, <3>1, <3>2, <3>5 DEF SamePlaces
    <3>7. p = q => AtPlace(y, p) = v
      BY <1>2, <3>1, <3>5
    <3> QED BY <3>3, <3>4, <3>6, <3>7
  <2> QED BY <2>1, <2>2
<1>7. y # Failed
  <2>1. y.layout # -1
    BY <1>4, ClassIs
  <2> QED BY <2>1 DEF Failed
<1> QED BY <1>4, <1>5, <1>6, <1>7 DEF SetsOne

LEMMA WriteShows ==
  ASSUME ClassInv, NEW x, Fit(x), NEW n \in NameSet(Current), NEW v \in Values,
         NEW y, y = Written(x, n, v) \/ (y = WrittenInPlace(x, n, v) /\ x.vecState # "nil")
  PROVE  /\ Fit(y) /\ y.stamp = x.stamp /\ y # Failed
         /\ SetsOne(y, x, n, v)
<1>1. CASE n \in Native(Current)
  <2>1. y = WithNative(x, n, v)
    BY <1>1 DEF Written, WrittenInPlace, WithNative
  <2> QED BY <1>1, <2>1, NativeWriteShows
<1>2. CASE n \notin Native(Current)
  <2>1. /\ Wide(Current) /\ n \in DOMAIN overflow /\ overflow[n] = Place(Current, n)
        /\ overflow[n] \in 1..(Len(Current) - NativeLimit)
        /\ Cardinality(DOMAIN overflow) = Len(Current) - NativeLimit
    BY <1>2, OverflowNow
  <2>2. Shape(x) /\ Fits(x, Current) /\ x.vec \in Seq(Stored) /\ Len(x.vec) \in Nat
    BY VecIs DEF Fit, Shape
  <2>3. Len(Current) \in Nat /\ NativeLimit \in Nat /\ Len(defs) \in 1..Len(defs) /\ Len(defs[Len(defs)]) = Len(Current)
    BY ClassIs, SchemaIs, SchemaAssumption DEF Current
  <2>4. CASE x.vecState = "vector"
    <3>1. overflow[n] \in 1..Len(x.vec) /\ Len(Current) - NativeLimit <= Len(x.vec)
      BY <2>1, <2>2, <2>3, <2>4 DEF Fits
    <3>2. y = WithVec(x, Put(x.vec, overflow[n], v))
      <4>1. ~(overflow[n] > Len(x.vec)) /\ x \in ObjectRecs
        BY <2>2, <3>1 DEF Shape
      <4>2. CASE y = Written(x, n, v)
        BY <1>2, <2>1, <2>4, <4>1, <4>2 DEF Written, WithVec, Put
      <4>3. CASE y = WrittenInPlace(x, n, v)
        <5>1. y = [x EXCEPT !.vec[overflow[n]] = v]
          BY <1>2, <2>1, <2>4, <4>1, <4>3 DEF WrittenInPlace
        <5> QED BY <2>4, <4>1, <5>1 DEF WithVec, ObjectRecs, Put
      <4> QED BY <4>2, <4>3
    <3>3. \E u \in 1..Len(defs) : Len(x.vec) + NativeLimit <= Len(defs[u])
      <4>1. x.vec # <<>>
        BY <3>1
      <4> QED BY <4>1 DEF Fit, VecReaches
    <3>4. SamePlaces(x.vec, x)
      BY DEF SamePlaces, AtPlace
    <3> QED BY <1>2, <2>2, <3>1, <3>2, <3>3, <3>4, VectorWriteShows
  <2>5. CASE x.vecState = "nil" /\ y = Written(x, n, v)
    <3>1. PICK d : d = Cardinality(DOMAIN overflow)
      OBVIOUS
    <3>2. PICK w : w = [i \in 1..d |-> Unbound]
      OBVIOUS
    <3>3. d \in Nat /\ d = Len(Current) - NativeLimit
      BY <2>1, <3>1, OverflowMapIs
    <3>4. w \in [1..d -> Stored]
      BY <3>2, StoredIs
    <3>5. w \in Seq(Stored) /\ Len(w) = d
      BY <3>3, <3>4, FunctionIsSequence
    <3>6. overflow[n] \in 1..Len(w) /\ ~(overflow[n] > Len(w)) /\ Len(Current) - NativeLimit <= Len(w)
      BY <2>1, <2>3, <3>3, <3>5
    <3>7. y = WithVec(x, Put(w, overflow[n], v))
      BY <1>2, <2>1, <2>5, <3>1, <3>2, <3>6 DEF Written, WithVec, Put
    <3>8. Len(w) + NativeLimit <= Len(defs[Len(defs)])
      BY <2>3, <3>3, <3>5
    <3>9. x.vec = <<>>
      BY <2>2, <2>5 DEF Shape
    <3>10. SamePlaces(w, x)
      <4> SUFFICES ASSUME NEW p \in Nat \ {0} PROVE (IF p <= Len(w) THEN w[p] ELSE Unbound) = AtPlace(x, p)
        BY DEF SamePlaces
      <4>1. p <= d => w[p] = Unbound
        BY <3>2, <3>3
      <4>2. ~(p <= Len(x.vec))
        BY <3>9
      <4> QED BY <3>5, <4>1, <4>2 DEF AtPlace
    <3> QED BY <1>2, <2>3, <3>5, <3>6, <3>7, <3>8, <3>10, VectorWriteShows
  <2>6. x.vecState = "vector" \/ x.vecState = "nil"
    BY <2>1, <2>2 DEF Fits
  <2> QED BY <2>4, <2>5, <2>6
<1> QED BY <1>1, <1>2

(* dissoc-slots: the slot shows nothing, the others what they showed. *)
Dissociated(x, n) ==
  LET keep == {m \in Native(Current) : ~Removed(m, n)}
      new == Copy(x, keep)
      gone == {overflow[m] : m \in {l \in DOMAIN overflow : Removed(l, n)}}
      cleared == Wide(Current) /\ n \in DOMAIN overflow
  IN  IF CopyFails(x, keep) THEN Failed
      ELSE IF ~Wide(Current) THEN new
      ELSE IF x.vecState = "nil" THEN [new EXCEPT !.vecState = "unset"]
      ELSE IF cleared /\ \E i \in gone : i > Len(x.vec) THEN Failed
      ELSE IF cleared THEN [new EXCEPT !.vec = [i \in DOMAIN @ |-> IF i \in gone THEN Unbound ELSE @[i]]]
      ELSE new

LEMMA DissocShows ==
  ASSUME ClassInv, NEW x, Fit(x), Wide(Current) => x.vecState = "vector",
         NEW n, n = None \/ n \in NameSet(Current), NEW y, y = Dissociated(x, n)
  PROVE  /\ Fit(y) /\ y.stamp = counter /\ y # Failed
         /\ SetsOne(y, x, n, Unbound)
<1>2. PICK keep : keep = {m \in Native(Current) : ~Removed(m, n)}
  OBVIOUS
<1>3. PICK gone : gone = {overflow[m] : m \in {l \in DOMAIN overflow : Removed(l, n)}}
  OBVIOUS
<1>4. PICK new : new = Copy(x, keep)
  OBVIOUS
<1>5. Fit(x) /\ Shape(x) /\ keep \in SUBSET Native(Current) /\ (Wide(Current) => x.vecState = "vector")
  BY <1>2 DEF Fit
<1>6. ~CopyFails(x, keep)
  BY <1>5, CopyTakes
<1>7. y = IF ~Wide(Current) THEN new
          ELSE IF n \in DOMAIN overflow /\ \E i \in gone : i > Len(x.vec) THEN Failed
          ELSE IF n \in DOMAIN overflow
               THEN [new EXCEPT !.vec = [i \in DOMAIN @ |-> IF i \in gone THEN Unbound ELSE @[i]]]
          ELSE new
  BY <1>2, <1>3, <1>4, <1>5, <1>6 DEF Dissociated
<1>8. /\ Fit(new) /\ Shape(new) /\ new.stamp = counter
      /\ \A k \in NameSet(Current) :
           Shown(new, k) = IF k \in Native(Current) \ keep THEN Unbound ELSE Shown(x, k)
  BY <1>4, <1>5, CopyShows DEF Fit
<1>9. Wide(Current) => new.vec = x.vec /\ new.vecState = "vector"
  BY <1>4, <1>5, <1>6, CopyIs DEF Fit
\* no alias of a slot is a slot
<1>10. ASSUME NEW k \in NameSet(Current) PROVE Removed(k, n) <=> k = n
  <2>1. k \in DOMAIN Aliases(Current) => Aliases(Current)[k] = AliasOf(Current, k) /\ Aliases(Current)[k] # None
    BY ClassIs, AliasOfIs
  <2>2. AliasOf(Current, k) \notin NameSet(Current)
    BY <1>5 DEF Fit, Sane
  <2> QED BY <2>1, <2>2 DEF Removed
<1>11. /\ Current \in Schemas /\ Native(Current) \subseteq NameSet(Current) /\ NameSet(Current) \subseteq Names
       /\ None \notin Names
  BY ClassIs, NativeIs, PosIs, SchemaAssumption
<1>12. \A k \in Native(Current) : k \in keep <=> k # n
  BY <1>2, <1>10, <1>11
<1>13. CASE y = new /\ (n \in NameSet(Current) => n \in Native(Current))
  <2>1. SetsOne(y, x, n, Unbound)
    BY <1>8, <1>11, <1>12, <1>13 DEF SetsOne
  <2>2. y # Failed
    <3>1. y.layout # -1
      BY <1>8, <1>13, ClassIs DEF Fit
    <3> QED BY <3>1 DEF Failed
  <2> QED BY <1>8, <1>13, <2>1, <2>2
<1>14. CASE n \in NameSet(Current) /\ n \notin Native(Current)
  <2>1. Wide(Current) /\ n \in DOMAIN overflow /\ overflow[n] = Place(Current, n)
    BY <1>14, OverflowNow
  <2>2. gone = {overflow[n]}
    <3>1. DOMAIN overflow \subseteq NameSet(Current)
      BY <2>1, WideNames
    <3> QED BY <1>3, <1>10, <2>1, <3>1
  <2>3. overflow[n] \in 1..Len(x.vec)
    BY <1>5, <1>14, <2>1, SlotShown DEF Fit
  <2>4. Len(x.vec) \in Nat
    BY <1>5, VecIs DEF Shape
  <2>5. ~ \E i \in gone : i > Len(x.vec)
    BY <2>2, <2>3, <2>4
  <2>6. PICK w : w = [i \in DOMAIN new.vec |-> IF i \in gone THEN Unbound ELSE new.vec[i]]
    OBVIOUS
  <2>7. new \in ObjectRecs
    BY <1>8 DEF Shape
  <2>8. y = WithVec(new, w)
    <3>1. y = [new EXCEPT !.vec = w]
      BY <1>7, <2>1, <2>5, <2>6, <2>7 DEF ObjectRecs
    <3> QED BY <1>9, <2>1, <2>7, <3>1 DEF WithVec, ObjectRecs
  <2>9. w \in [1..Len(new.vec) -> Stored] /\ Len(new.vec) \in Nat
    BY <2>6, <2>7, VecIs, StoredIs
  <2>10. w \in Seq(Stored) /\ Len(w) = Len(new.vec)
    BY <2>9, FunctionIsSequence
  <2>11. /\ Shape(y) /\ y.layout = new.layout /\ y.stamp = counter /\ y.native = new.native
         /\ y.vecState = "vector" /\ y.vec = w
    BY <1>8, <2>8, <2>10, VectorWriteIs
  <2>12. Fit(y)
    <3>1. VecReaches(y)
      BY <1>8, <2>3, <1>9, <2>1, <2>10, <2>11 DEF Fit, VecReaches
    <3>2. Fits(y, Current)
      BY <1>8, <1>9, <2>1, <2>10, <2>11 DEF Fit, Fits
    <3> QED BY <1>8, <2>11, <3>1, <3>2 DEF Fit
  <2>13. ASSUME NEW k \in NameSet(Current) PROVE Shown(y, k) = IF k = n THEN Unbound ELSE Shown(x, k)
    <3>1. CASE k \in Native(Current)
      <4>1. Shown(y, k) = Shown(new, k)
        BY <2>11, <3>1 DEF Shown
      <4> QED BY <1>8, <1>12, <1>14, <3>1, <4>1
    <3>2. CASE k \notin Native(Current)
      <4>1. PICK p : p = Place(Current, k)
        OBVIOUS
      <4>2. p \in 1..Len(x.vec) /\ k \in DOMAIN overflow /\ overflow[k] = p
        BY <1>5, <2>1, <3>2, <4>1, SlotShown, OverflowNow DEF Fit
      <4>3. p = overflow[n] <=> k = n
        BY <1>14, <3>2, <4>1, <4>2, <2>1, OverflowNow
      <4>4. w[p] = IF k = n THEN Unbound ELSE x.vec[p]
        BY <1>9, <2>1, <2>2, <2>6, <2>7, <4>2, <4>3, VecIs
      <4>5. Shown(y, k) = w[p] /\ Shown(x, k) = x.vec[p]
        BY <1>9, <2>1, <2>4, <2>10, <2>11, <3>2, <4>1, <4>2 DEF Shown, AtPlace
      <4> QED BY <4>4, <4>5
    <3> QED BY <3>1, <3>2
  <2>14. y # Failed
    <3>1. y.layout # -1
      BY <1>8, <2>11, ClassIs DEF Fit
    <3> QED BY <3>1 DEF Failed
  <2> QED BY <2>11, <2>12, <2>13, <2>14 DEF SetsOne
<1>15. y = new \/ (n \in NameSet(Current) /\ n \notin Native(Current))
  <2>1. CASE ~Wide(Current)
    BY <1>7, <2>1
  <2>2. CASE Wide(Current)
    BY <1>7, <2>2, WideNames
  <2> QED BY <2>1, <2>2
<1> QED BY <1>13, <1>14, <1>15

(* Without an overlap a keyword means what the keyword map says, and that   *)
(* is a slot of the current definition.                                     *)
LEMMA SlotNameNow ==
  ASSUME ClassInv, CacheInv, ~overlap, Idle, NEW k \in Names
  PROVE  SlotName(k) = kwMap[k] /\ (kwMap[k] # None => kwMap[k] \in NameSet(Current))
<1>1. SlotName(k) = kwMap[k]
  BY DEF SlotName, Cached, CacheInv, CacheRight, Idle
<1>2. kwMap[k] = KeywordMap(Current)[k] /\ Current \in Schemas
  BY ClassIs DEF ClassInv
<1>3. kwMap[k] # None => kwMap[k] \in NameSet(Current)
  BY <1>2, KeywordMapIs, PosIs
<1> QED BY <1>1, <1>3

-----------------------------------------------------------------------------
(* The whole invariant: an object that met careful redefinitions only keeps *)
(* what its slots should hold.                                              *)
(* An object whose history was careful keeps what was promised. *)
Holds(z, c, m) == c => /\ z # Failed
                       /\ z # NoObject => Keeps(z, m)

HistoryInv ==
  /\ means = [o \in Objects |-> means[o]] /\ careful = [o \in Objects |-> careful[o]]
  /\ \A o \in Objects : means[o] = [n \in Names |-> means[o][n]]

KeptInv == ~overlap => \A o \in Objects : Holds(obj[o], careful[o], means[o])

LossInv == SchemaInv /\ Inv /\ HistoryInv /\ KeptInv

LEMMA KeepsStays ==
  ASSUME UNCHANGED <<defs, overflow>>, NEW z, NEW m, Keeps(z, m)
  PROVE  Keeps(z, m)'
<1>1. PICK D : IsTrace(D, z.stamp + 1) /\ Kept(z, D[Len(defs)], m)
  BY DEF Keeps
<1>2. PICK f : f = D[Len(defs)]
  OBVIOUS
<1>3. IsTrace(D, z.stamp + 1)'
  BY <1>1 DEF IsTrace
<1>4. Ready(z)'
  BY <1>1 DEF Kept, Ready, OldNative, Sane, Fits, VecReaches, Current
<1>5. OldNames(z)' = OldNames(z) /\ OldNative(z)' = OldNative(z) /\ Current' = Current
  BY DEF OldNames, OldNative, Current
<1>6. PICK S : S = Current
  OBVIOUS
<1>7. ASSUME NEW n \in NameSet(S) PROVE Follows(S, z, f, n)' /\ m[n] = Held(S, z, f, n)'
  <2>1. Follows(S, z, f, n) /\ m[n] = Held(S, z, f, n)
    BY <1>1, <1>2, <1>6 DEF Kept
  <2>2. Follows(S, z, f, n)'
    BY <1>5, <2>1 DEF Follows
  <2>3. Held(S, z, f, n)' = Held(S, z, f, n)
    BY <1>5 DEF Held, AtPlace
  <2> QED BY <2>1, <2>2, <2>3
<1>8. Kept(z, f, m)'
  BY <1>1, <1>2, <1>4, <1>5, <1>6, <1>7 DEF Kept, Follows, Held, Used
<1> QED BY <1>2, <1>3, <1>8 DEF Keeps

(* A step that leaves the class alone. *)
LEMMA KeptStep ==
  ASSUME KeptInv, UNCHANGED <<defs, overflow>>, overlap => overlap',
         \A o \in Objects : \/ obj'[o] = obj[o] /\ means'[o] = means[o] /\ careful'[o] = careful[o]
                            \/ \E z, c, m : /\ obj'[o] = z /\ careful'[o] = c /\ means'[o] = m
                                            /\ ~overlap => Holds(z, c, m)
  PROVE  KeptInv'
<1> SUFFICES ASSUME ~overlap', NEW o \in Objects PROVE Holds(obj[o], careful[o], means[o])'
  BY DEF KeptInv
<1>1. PICK z, c, m : obj'[o] = z /\ careful'[o] = c /\ means'[o] = m
  OBVIOUS
<1>2. Holds(z, c, m)
  BY <1>1 DEF KeptInv
<1>3. Holds(z, c, m)'
  BY <1>2, KeepsStays DEF Holds
<1> QED BY <1>1, <1>3

(* The history variables are functions of the objects, step by step. *)
LEMMA HistoryStep == HistoryInv /\ [Next]_vars => HistoryInv'
<1> SUFFICES ASSUME HistoryInv, [Next]_vars PROVE HistoryInv' OBVIOUS
<1> DEFINE Slots(m) == m = [n \in Names |-> m[n]]
<1>1. CASE UNCHANGED <<means, careful>>
  BY <1>1 DEF HistoryInv
<1>2. CASE NewLayout
  <2>1. PICK S \in Schemas :
          /\ means' = [o \in Objects |-> IF Exists(o) THEN Promised(means[o], S) ELSE means[o]]
          /\ careful' = [o \in Objects |-> /\ careful[o]
                                           /\ Exists(o) => LosesNothing(S) /\ Fits(obj[o], S)]
    BY <1>2 DEF NewLayout
  <2>2. \A m : Slots(Promised(m, S))
    BY DEF Promised
  <2>3. \A o \in Objects : Slots(means[o])
    BY DEF HistoryInv
  <2> HIDE DEF Slots
  <2>4. \A o \in Objects : Slots(means'[o])
    BY <2>1, <2>2, <2>3
  <2> QED BY <2>1, <2>4 DEF HistoryInv, Slots
<1>3. ASSUME NEW o \in Objects, NEW c, careful' = [careful EXCEPT ![o] = c],
             means' = means \/ \E m : Slots(m) /\ means' = [means EXCEPT ![o] = m]
      PROVE  HistoryInv'
  BY <1>3 DEF HistoryInv
<1>4. ASSUME NEW o \in Objects, NEW k, NEW v, Intend(o, k, v)
      PROVE  means' = means \/ \E m : Slots(m) /\ means' = [means EXCEPT ![o] = m]
  <2>1. CASE kwMap[k] = None
    BY <1>4, <2>1 DEF Intend
  <2>2. CASE kwMap[k] # None
    <3>1. PICK m : m = [means[o] EXCEPT ![kwMap[k]] = v]
      OBVIOUS
    <3>2. Slots(m)
      BY <3>1 DEF HistoryInv
    <3>3. means' = [means EXCEPT ![o] = m]
      BY <1>4, <2>2, <3>1 DEF Intend
    <3> QED BY <3>2, <3>3
  <2> QED BY <2>1, <2>2
<1>5. ASSUME NEW o \in Objects, Make(o) PROVE HistoryInv'
  <2>1. PICK x, c : means' = [means EXCEPT ![o] = Contents(x)] /\ careful' = [careful EXCEPT ![o] = c]
    BY <1>5 DEF Make
  <2>2. Slots(Contents(x))
    BY DEF Contents
  <2> HIDE DEF Slots
  <2> QED BY <1>3, <2>1, <2>2
<1>6. ASSUME NEW o \in Objects, UpdateSlots(o) \/ DissocSlots(o) PROVE HistoryInv'
  <2>1. \E c : careful' = [careful EXCEPT ![o] = c]
    BY <1>6 DEF UpdateSlots, DissocSlots
  <2>2. \E k, v : Intend(o, k, v)
    BY <1>6 DEF UpdateSlots, DissocSlots
  <2> HIDE DEF Slots
  <2> QED BY <1>3, <1>4, <2>1, <2>2
<1>7. ASSUME NEW o \in Objects, Migrate(o) \/ Transient(o) PROVE HistoryInv'
  <2>1. means' = means /\ \E c : careful' = [careful EXCEPT ![o] = c]
    BY <1>7 DEF Migrate, Transient
  <2> HIDE DEF Slots
  <2> QED BY <1>3, <2>1
<1> HIDE DEF Slots
<1> QED BY <1>1, <1>2, <1>5, <1>6, <1>7
        DEF Next, Redefine, Use, Lookup, Snapshot, ResetCache, Persistent, LookupMiss, LookupStore, vars

(* A redefinition. *)
LEMMA KeptLayout ==
  ASSUME LossInv, NewLayout
  PROVE  KeptInv'
<1>1. PICK S \in Schemas :
        /\ defs' = Append(defs, S)
        /\ overflow' = IF Wide(S) THEN OverflowIndices(S) ELSE overflow
        /\ obj' = [o \in Objects |->
                     IF UpToDate(o) /\ SameLayout(S)
                     THEN [obj[o] EXCEPT !.layout = Len(defs) + 1] ELSE obj[o]]
        /\ means' = [o \in Objects |-> IF Exists(o) THEN Promised(means[o], S) ELSE means[o]]
        /\ careful' = [o \in Objects |-> /\ careful[o]
                                         /\ Exists(o) => LosesNothing(S) /\ Fits(obj[o], S)]
  BY DEF NewLayout
<1>2. ClassInv /\ defs \in Seq(Schemas) /\ Len(defs) \in Nat /\ (overlap => overlap')
  BY ClassIs DEF LossInv, SchemaInv, ClassInv, NewLayout
<1>3. Gains(S)
  <2>1. /\ defs' \in Seq(Schemas) /\ Len(defs') = Len(defs) + 1 /\ defs'[Len(defs) + 1] = S
        /\ \A v \in 1..Len(defs) : defs'[v] = defs[v]
    BY <1>1, <1>2
  <2> QED BY <1>1, <2>1 DEF Gains
<1> SUFFICES ASSUME ~overlap', NEW o \in Objects, careful'[o]
             PROVE  Holds(obj[o], careful[o], means[o])'
  BY DEF KeptInv, Holds
<1>4. PICK x, y, m, p : x = obj[o] /\ y = obj'[o] /\ m = means[o] /\ p = means'[o]
  OBVIOUS
<1>5. careful[o] /\ (Exists(o) => LosesNothing(S) /\ Fits(x, S))
  BY <1>1, <1>4
<1>6. x # Failed /\ (x # NoObject => Keeps(x, m))
  BY <1>2, <1>4, <1>5 DEF LossInv, KeptInv, Holds
<1>7. CASE x = NoObject
  <2>1. y = NoObject
    BY <1>1, <1>4, <1>7 DEF UpToDate, Exists
  <2>2. NoObject # Failed
    <3>1. NoObject.layout = 0 /\ Failed.layout = -1
      BY DEF NoObject, Failed
    <3> QED BY <3>1
  <2> QED BY <1>4, <2>1, <2>2 DEF Holds
<1>8. CASE x # NoObject
  <2>1. Exists(o) /\ Shape(x)
    BY <1>4, <1>6, <1>8 DEF Exists, LossInv, SchemaInv, ObjectInv, Sound
  <2>2. LosesNothing(S) /\ Fits(x, S) /\ Keeps(x, m)
    BY <1>5, <1>6, <1>8, <2>1
  <2>3. \A n \in Names : p[n] = Promised(m, S)[n]
    BY <1>1, <1>4, <2>1
  <2>4. /\ y.stamp = x.stamp /\ y.native = x.native /\ y.vec = x.vec /\ y.vecState = x.vecState
        /\ \/ y.layout = x.layout
           \/ y.layout = Len(defs) + 1 /\ x.layout = Len(defs) /\ Native(S) = Native(Current)
    <3>1. CASE y = x
      BY <3>1
    <3>2. CASE /\ UpToDate(o) /\ SameLayout(S)
               /\ y = [x EXCEPT !.layout = Len(defs) + 1]
      <4>1. x.layout = Len(defs) /\ Native(S) = Native(Current)
        BY <1>4, <3>2 DEF UpToDate, SameLayout, Native
      <4>2. /\ y.layout = Len(defs) + 1 /\ y.stamp = x.stamp /\ y.native = x.native
            /\ y.vec = x.vec /\ y.vecState = x.vecState
        BY <2>1, <3>2 DEF Shape, ObjectRecs
      <4> QED BY <4>1, <4>2
    <3> QED BY <1>1, <1>4, <3>1, <3>2
  <2>5. Keeps(y, p)'
    BY <1>2, <1>3, <2>1, <2>2, <2>3, <2>4, KeptNext
  <2>6. y # Failed
    <3>1. y.layout # -1
      BY <1>2, <2>1, <2>4 DEF Shape
    <3> QED BY <3>1 DEF Failed
  <2> QED BY <1>4, <2>5, <2>6 DEF Holds
<1> QED BY <1>7, <1>8

(* The steps of one object. *)
LEMMA KeptUse ==
  ASSUME LossInv, NEW o \in Objects, UNCHANGED <<defs, overflow>>, overlap' = overlap,
         NEW z, NEW c, NEW m, ~overlap => Holds(z, c, m),
         obj' = [obj EXCEPT ![o] = z],
         careful' = [careful EXCEPT ![o] = c],
         means' = [means EXCEPT ![o] = m]
  PROVE  KeptInv'
<1>1. KeptInv /\ (overlap => overlap')
  BY DEF LossInv
<1>2. /\ obj'[o] = z /\ careful'[o] = c /\ means'[o] = m
      /\ \A p \in Objects \ {o} : obj'[p] = obj[p] /\ means'[p] = means[p] /\ careful'[p] = careful[p]
  BY DEF LossInv, SchemaInv, ObjectInv, HistoryInv
<1> QED BY <1>1, <1>2, KeptStep

(* An object that keeps its slots, and what it shows if it is up to date. *)
LEMMA KeptNowIs ==
  ASSUME LossInv, NEW o \in Objects, UpToDate(o), ~overlap, careful[o],
         NEW x, x = obj[o]
  PROVE  ClassInv /\ Keeps(x, means[o]) /\ Shape(x) /\ x.layout = Len(defs) /\ Fit(x) /\ Shows(x, means[o])
<1>1. ClassInv /\ Shape(x) /\ x.layout = Len(defs) /\ x # NoObject
  BY DEF LossInv, SchemaInv, ObjectInv, UpToDate, Exists, Sound
<1>2. PICK m : m = means[o]
  OBVIOUS
<1>3. Keeps(x, m)
  BY <1>1, <1>2 DEF LossInv, KeptInv, Holds
<1> QED BY <1>1, <1>2, <1>3, KeptFits

LEMMA ShowsOne ==
  ASSUME ClassInv, NEW x, NEW y, NEW m, Shows(x, m), NEW n, n \in NameSet(Current) \/ n \notin Names, NEW v,
         SetsOne(y, x, n, v),
         NEW p, \A k \in Names : p[k] = IF k = n THEN v ELSE m[k]
  PROVE  Shows(y, p)
<1>1. NameSet(Current) \subseteq Names
  BY ClassIs, PosIs
<1> QED BY <1>1 DEF Shows, SetsOne

LEMMA KeptMake ==
  ASSUME LossInv, NEW o \in Objects, Make(o)
  PROVE  KeptInv'
<1>1. PICK given \in SUBSET NameSet(Current), bypass \in BOOLEAN :
        /\ obj' = [obj EXCEPT ![o] = New(Current, given, bypass)]
        /\ means' = [means EXCEPT ![o] = Contents(New(Current, given, bypass))]
  BY DEF Make
<1>2. PICK y, m, c : y = New(Current, given, bypass) /\ m = Contents(y) /\ c = (phase = "stable" /\ Sane(Current))
  OBVIOUS
<1>3. UNCHANGED <<defs, overflow>> /\ overlap' = overlap /\ careful' = [careful EXCEPT ![o] = c]
  BY <1>2 DEF Make
<1>4. ASSUME c PROVE Holds(y, c, m)
  <2>1. ClassInv /\ phase = "stable" /\ Sane(Current)
    BY <1>2, <1>4 DEF LossInv, SchemaInv
  <2>2. Fit(y) /\ y.stamp = counter /\ Shows(y, m)
    BY <1>2, <2>1, NewShows
  <2>3. y.stamp + 1 = Len(defs)
    BY <2>1, <2>2, ClassIs DEF ClassInv
  <2>4. Keeps(y, m)
    BY <2>1, <2>2, <2>3, KeptFresh
  <2>5. y # Failed
    <3>1. y.layout # -1
      BY <2>1, <2>2, ClassIs DEF Fit
    <3> QED BY <3>1 DEF Failed
  <2> QED BY <2>4, <2>5 DEF Holds
<1>5. Holds(y, c, m)
  BY <1>4 DEF Holds
<1> QED BY <1>1, <1>2, <1>3, <1>5, KeptUse

LEMMA KeptMigrate ==
  ASSUME LossInv, NEW o \in Objects, Migrate(o)
  PROVE  KeptInv'
<1>1. PICK x, y, m, c : /\ x = obj[o] /\ y = Migrated(x) /\ m = means[o]
                        /\ c = (careful[o] /\ phase = "stable")
  OBVIOUS
<1>2. /\ UNCHANGED <<defs, overflow>> /\ overlap' = overlap
      /\ obj' = [obj EXCEPT ![o] = y] /\ careful' = [careful EXCEPT ![o] = c]
      /\ Exists(o) /\ x.layout # Len(defs)
  BY <1>1 DEF Migrate, UpToDate
<1>3. means' = [means EXCEPT ![o] = m]
  BY <1>1 DEF Migrate, LossInv, HistoryInv
<1>4. ASSUME ~overlap, c PROVE Holds(y, c, m)
  <2>1. ClassInv /\ phase = "stable" /\ careful[o] /\ Shape(x) /\ x # NoObject
    BY <1>1, <1>2, <1>4 DEF LossInv, SchemaInv, ObjectInv, Sound, Exists
  <2>2. Keeps(x, m)
    BY <1>1, <1>4, <2>1 DEF LossInv, KeptInv, Holds
  <2>3. y # Failed /\ Keeps(y, m)
    BY <1>1, <1>2, <2>1, <2>2, MigratedKeeps
  <2> QED BY <2>3 DEF Holds
<1>5. ~overlap => Holds(y, c, m)
  BY <1>4 DEF Holds
<1> QED BY <1>2, <1>3, <1>5, KeptUse

LEMMA KeptUpdate ==
  ASSUME LossInv, NEW o \in Objects, UpdateSlots(o)
  PROVE  KeptInv'
<1>1. PICK k \in Keywords :
        /\ SlotName(k) # None
        /\ obj' = [obj EXCEPT ![o] =
                     IF obj[o].transient THEN WrittenInPlace(obj[o], SlotName(k), <<k, 1>>)
                     ELSE IF CopyFails(obj[o], Native(Current)) THEN Failed
                     ELSE Written(Copy(obj[o], Native(Current)), SlotName(k), <<k, 1>>)]
        /\ Intend(o, k, <<k, 1>>)
        /\ careful' = [careful EXCEPT ![o] = /\ @ /\ ~OldName(k)
                                             /\ phase = "stable" \/ obj[o].transient
                                             /\ obj[o].transient => obj[o].vecState # "nil"]
  BY DEF UpdateSlots
<1>2. PICK x, n, v, m : x = obj[o] /\ n = SlotName(k) /\ v = <<k, 1>> /\ m = means[o]
  OBVIOUS
<1>3. PICK z, y, p, c :
        /\ z = Copy(x, Native(Current))
        /\ y = IF x.transient THEN WrittenInPlace(x, n, v)
               ELSE IF CopyFails(x, Native(Current)) THEN Failed
               ELSE Written(z, n, v)
        /\ p = (IF kwMap[k] = None THEN m ELSE [m EXCEPT ![kwMap[k]] = v])
        /\ c = /\ careful[o] /\ ~OldName(k)
               /\ phase = "stable" \/ x.transient
               /\ x.transient => x.vecState # "nil"
  OBVIOUS
<1>4. /\ UNCHANGED <<defs, overflow>> /\ overlap' = overlap
      /\ obj' = [obj EXCEPT ![o] = y] /\ careful' = [careful EXCEPT ![o] = c]
      /\ Idle /\ UpToDate(o)
  BY <1>1, <1>2, <1>3 DEF UpdateSlots
<1>5. means' = [means EXCEPT ![o] = p]
  BY <1>1, <1>2, <1>3 DEF Intend, LossInv, HistoryInv
<1>6. ASSUME ~overlap, c PROVE Holds(y, c, p)
  <2>1. careful[o] /\ (phase = "stable" \/ x.transient) /\ (x.transient => x.vecState # "nil")
    BY <1>3, <1>6
  <2>2. ClassInv /\ Keeps(x, m) /\ Shape(x) /\ x.layout = Len(defs) /\ Fit(x) /\ Shows(x, m)
    BY <1>2, <1>4, <1>6, <2>1, KeptNowIs
  <2>3. k \in Names /\ v \in Values
    BY <1>2, SchemaAssumption DEF Values
  <2>4. n = kwMap[k] /\ n # None /\ n \in NameSet(Current)
    BY <1>1, <1>2, <1>4, <1>6, <2>2, <2>3, SlotNameNow DEF LossInv, Inv
  <2>5. \A l \in Names : p[l] = IF l = n THEN v ELSE m[l]
    BY <1>2, <1>3, <2>4 DEF LossInv, HistoryInv
  <2>6. CASE x.transient
    <3>1. y = WrittenInPlace(x, n, v) /\ x.vecState # "nil"
      BY <1>3, <2>1, <2>6
    <3>2. /\ Fit(y) /\ y.stamp = x.stamp /\ y # Failed
          /\ SetsOne(y, x, n, v)
      BY <2>2, <2>3, <2>4, <3>1, WriteShows
    <3>3. Shows(y, p)
      BY <2>2, <2>4, <2>5, <3>2, ShowsOne
    <3>4. Keeps(y, p)
      BY <2>2, <3>2, <3>3, KeptStays
    <3> QED BY <3>2, <3>4 DEF Holds
  <2>7. CASE ~x.transient
    <3>1. ~CopyFails(x, Native(Current))
      BY <2>2, CopyTakes
    <3>2. y = Written(z, n, v)
      BY <1>3, <2>7, <3>1
    <3>3. /\ Fit(z) /\ z.stamp = counter
          /\ \A l \in NameSet(Current) : Shown(z, l) = Shown(x, l)
      BY <1>3, <2>2, CopyShows
    <3>4. /\ Fit(y) /\ y.stamp = z.stamp /\ y # Failed
          /\ SetsOne(y, z, n, v)
      BY <2>2, <2>3, <2>4, <3>2, <3>3, WriteShows
    <3>5. Shows(y, p)
      <4>1. SetsOne(y, x, n, v)
        BY <3>3, <3>4 DEF SetsOne
      <4> QED BY <2>2, <2>4, <2>5, <4>1, ShowsOne
    <3>6. y.stamp + 1 = Len(defs)
      BY <2>1, <2>2, <2>7, <3>3, <3>4, ClassIs DEF ClassInv
    <3>7. Keeps(y, p)
      BY <2>2, <3>4, <3>5, <3>6, KeptFresh
    <3> QED BY <3>4, <3>7 DEF Holds
  <2> QED BY <2>6, <2>7
<1>7. ~overlap => Holds(y, c, p)
  BY <1>6 DEF Holds
<1> QED BY <1>4, <1>5, <1>7, KeptUse

LEMMA KeptDissoc ==
  ASSUME LossInv, NEW o \in Objects, DissocSlots(o)
  PROVE  KeptInv'
<1>1. PICK k \in Keywords :
        /\ obj' = [obj EXCEPT ![o] = Dissociated(obj[o], SlotName(k))]
        /\ Intend(o, k, Unbound)
        /\ careful' = [careful EXCEPT ![o] = /\ @ /\ ~OldName(k) /\ phase = "stable"
                                             /\ Wide(Current) => obj[o].vecState = "vector"]
  BY DEF DissocSlots, Dissociated
<1>2. PICK x, n, m : x = obj[o] /\ n = SlotName(k) /\ m = means[o]
  OBVIOUS
<1>3. PICK y, p, c :
        /\ y = Dissociated(x, n)
        /\ p = (IF kwMap[k] = None THEN m ELSE [m EXCEPT ![kwMap[k]] = Unbound])
        /\ c = (careful[o] /\ ~OldName(k) /\ phase = "stable" /\ (Wide(Current) => x.vecState = "vector"))
  OBVIOUS
<1>4. /\ UNCHANGED <<defs, overflow>> /\ overlap' = overlap
      /\ obj' = [obj EXCEPT ![o] = y] /\ careful' = [careful EXCEPT ![o] = c]
      /\ Idle /\ UpToDate(o)
  BY <1>1, <1>2, <1>3 DEF DissocSlots
<1>5. means' = [means EXCEPT ![o] = p]
  BY <1>1, <1>2, <1>3 DEF Intend, LossInv, HistoryInv
<1>6. ASSUME ~overlap, c PROVE Holds(y, c, p)
  <2>1. careful[o] /\ phase = "stable" /\ (Wide(Current) => x.vecState = "vector")
    BY <1>3, <1>6
  <2>2. ClassInv /\ Keeps(x, m) /\ Shape(x) /\ x.layout = Len(defs) /\ Fit(x) /\ Shows(x, m)
    BY <1>2, <1>4, <1>6, <2>1, KeptNowIs
  <2>3. k \in Names /\ None \notin Names
    BY SchemaAssumption
  <2>4. n = kwMap[k] /\ (n = None \/ n \in NameSet(Current))
    BY <1>2, <1>4, <1>6, <2>2, <2>3, SlotNameNow DEF LossInv, Inv
  <2>5. \A l \in Names : p[l] = IF l = n THEN Unbound ELSE m[l]
    BY <1>2, <1>3, <2>3, <2>4 DEF LossInv, HistoryInv
  <2>6. /\ Fit(y) /\ y.stamp = counter /\ y # Failed
        /\ SetsOne(y, x, n, Unbound)
    BY <1>3, <2>1, <2>2, <2>4, DissocShows
  <2>7. Shows(y, p)
    BY <2>2, <2>3, <2>4, <2>5, <2>6, ShowsOne
  <2>8. y.stamp + 1 = Len(defs)
    BY <2>1, <2>2, <2>6, ClassIs DEF ClassInv
  <2>9. Keeps(y, p)
    BY <2>2, <2>6, <2>7, <2>8, KeptFresh
  <2> QED BY <2>6, <2>9 DEF Holds
<1>7. ~overlap => Holds(y, c, p)
  BY <1>6 DEF Holds
<1> QED BY <1>4, <1>5, <1>7, KeptUse

(* The owner of an object is no part of what it shows. *)
WithOwner(x, b) == [x EXCEPT !.transient = b]
ShowsSame(y, x) == \A l \in NameSet(Current) : Shown(y, l) = Shown(x, l)

LEMMA OwnerShows ==
  ASSUME ClassInv, NEW x, Fit(x), NEW b \in BOOLEAN, NEW y, y = WithOwner(x, b)
  PROVE  Fit(y) /\ y.stamp = x.stamp /\ y # Failed /\ ShowsSame(y, x)
<1>1. /\ y \in ObjectRecs /\ y.layout = x.layout /\ y.stamp = x.stamp /\ y.native = x.native
      /\ y.vec = x.vec /\ y.vecState = x.vecState
  BY DEF WithOwner, Fit, Shape, ObjectRecs
<1>2. Fit(y)
  BY <1>1 DEF Fit, Shape, Fits, VecReaches
<1>3. ShowsSame(y, x)
  BY <1>1 DEF ShowsSame, Shown, AtPlace
<1>4. y # Failed
  <2>1. y.layout # -1
    BY <1>2, ClassIs DEF Fit
  <2> QED BY <2>1 DEF Failed
<1> QED BY <1>1, <1>2, <1>3, <1>4

LEMMA KeptTransient ==
  ASSUME LossInv, NEW o \in Objects, Transient(o)
  PROVE  KeptInv'
<1>1. PICK x, z, m : x = obj[o] /\ z = Copy(x, Native(Current)) /\ m = means[o]
  OBVIOUS
<1>2. PICK y, c : /\ y = (IF CopyFails(x, Native(Current)) THEN Failed ELSE WithOwner(z, TRUE))
                  /\ c = (careful[o] /\ phase = "stable")
  OBVIOUS
<1>3. /\ UNCHANGED <<defs, overflow>> /\ overlap' = overlap /\ UpToDate(o)
      /\ careful' = [careful EXCEPT ![o] = c]
  BY <1>1, <1>2 DEF Transient
<1>4. obj' = [obj EXCEPT ![o] = y]
  BY <1>1, <1>2 DEF Transient, WithOwner, LossInv, SchemaInv, ObjectInv
<1>5. means' = [means EXCEPT ![o] = m]
  BY <1>1 DEF Transient, LossInv, HistoryInv
<1>6. ASSUME ~overlap, c PROVE Holds(y, c, m)
  <2>1. careful[o] /\ phase = "stable"
    BY <1>2, <1>6
  <2>2. ClassInv /\ Fit(x) /\ Shows(x, m)
    BY <1>1, <1>3, <1>6, <2>1, KeptNowIs
  <2>3. y = WithOwner(z, TRUE)
    BY <1>2, <2>2, CopyTakes
  <2>4. /\ Fit(z) /\ z.stamp = counter
        /\ \A l \in NameSet(Current) : Shown(z, l) = Shown(x, l)
    BY <1>1, <2>2, CopyShows
  <2>5. Fit(y) /\ y.stamp = counter /\ y # Failed /\ ShowsSame(y, z)
    BY <2>2, <2>3, <2>4, OwnerShows
  <2>6. Shows(y, m) /\ y.stamp + 1 = Len(defs)
    BY <2>1, <2>2, <2>4, <2>5, ClassIs DEF Shows, ShowsSame, ClassInv
  <2>7. Keeps(y, m)
    BY <2>2, <2>5, <2>6, KeptFresh
  <2> QED BY <2>5, <2>7 DEF Holds
<1>7. ~overlap => Holds(y, c, m)
  BY <1>6 DEF Holds
<1> QED BY <1>3, <1>4, <1>5, <1>7, KeptUse

LEMMA KeptPersistent ==
  ASSUME LossInv, NEW o \in Objects, Persistent(o)
  PROVE  KeptInv'
<1>1. PICK x, y, m, c : x = obj[o] /\ y = WithOwner(x, FALSE) /\ m = means[o] /\ c = careful[o]
  OBVIOUS
<1>2. UNCHANGED <<defs, overflow>> /\ overlap' = overlap /\ UpToDate(o)
  BY DEF Persistent
<1>3. obj' = [obj EXCEPT ![o] = y]
  BY <1>1 DEF Persistent, WithOwner, LossInv, SchemaInv, ObjectInv
<1>4. means' = [means EXCEPT ![o] = m] /\ careful' = [careful EXCEPT ![o] = c]
  BY <1>1 DEF Persistent, LossInv, HistoryInv
<1>5. ASSUME ~overlap, c PROVE Holds(y, c, m)
  <2>1. ClassInv /\ Keeps(x, m) /\ Shape(x) /\ x.layout = Len(defs) /\ Fit(x) /\ Shows(x, m)
    BY <1>1, <1>2, <1>5, KeptNowIs
  <2>2. Fit(y) /\ y.stamp = x.stamp /\ y # Failed /\ ShowsSame(y, x)
    BY <1>1, <2>1, OwnerShows
  <2>3. Shows(y, m)
    BY <2>1, <2>2 DEF Shows, ShowsSame
  <2>4. Keeps(y, m)
    BY <2>1, <2>2, <2>3, KeptStays
  <2> QED BY <2>2, <2>4 DEF Holds
<1>6. ~overlap => Holds(y, c, m)
  BY <1>5 DEF Holds
<1> QED BY <1>2, <1>3, <1>4, <1>6, KeptUse

(* Every step keeps what the objects keep. *)
LEMMA LossStep == LossInv /\ [Next]_vars => LossInv'
<1> SUFFICES ASSUME LossInv, [Next]_vars PROVE LossInv' OBVIOUS
<1>1. SchemaInv' /\ Inv' /\ HistoryInv'
  BY SchemaStep, NextKeeps, HistoryStep DEF LossInv
<1>2. KeptInv'
  <2>1. CASE UNCHANGED <<defs, overflow, obj, means, careful>> /\ (overlap => overlap')
    <3>1. KeptInv /\ UNCHANGED <<defs, overflow>> /\ (overlap => overlap')
      BY <2>1 DEF LossInv
    <3>2. \A o \in Objects : obj'[o] = obj[o] /\ means'[o] = means[o] /\ careful'[o] = careful[o]
      BY <2>1
    <3> QED BY <3>1, <3>2, KeptStep
  <2>2. CASE Snapshot \/ ResetCache
    BY <2>1, <2>2 DEF Snapshot, ResetCache
  <2>3. CASE NewLayout
    BY <2>3, KeptLayout
  <2>4. ASSUME NEW o \in Objects, Use(o) PROVE KeptInv'
    BY <2>4, KeptMake, KeptMigrate, KeptUpdate, KeptDissoc, KeptTransient, KeptPersistent DEF Use
  <2>5. ASSUME NEW r \in Readers, Lookup(r) PROVE KeptInv'
    BY <2>1, <2>5 DEF Lookup, LookupMiss, LookupStore
  <2>6. CASE UNCHANGED vars
    BY <2>1, <2>6 DEF vars
  <2> QED BY <2>2, <2>3, <2>4, <2>5, <2>6 DEF Next, Redefine
<1> QED BY <1>1, <1>2 DEF LossInv

(* Nothing is lost: an object that has slept through any number of careful  *)
(* redefinitions, of any class, and was updated in any way in between,      *)
(* shows after its migration what the declared renames give every slot.     *)
THEOREM RenamesRecovered == Spec => []NothingLost
<1>1. Init => LossInv
  <2> SUFFICES ASSUME Init PROVE LossInv OBVIOUS
  <2>1. SchemaInv
    BY SchemaInit
  <2>2. Inv
    BY DEF Init, Inv, LookDomain, CacheInv, CacheRight
  <2>3. HistoryInv
    BY DEF Init, HistoryInv, Blank
  <2>4. NoObject # Failed
    <3>1. NoObject.layout = 0 /\ Failed.layout = -1
      BY DEF NoObject, Failed
    <3> QED BY <3>1
  <2>5. KeptInv
    BY <2>4 DEF Init, KeptInv, Holds
  <2> QED BY <2>1, <2>2, <2>3, <2>5 DEF LossInv
<1>2. LossInv => NothingLost
  <2> SUFFICES ASSUME LossInv PROVE NothingLost OBVIOUS
  <2>1. TypeOK
    BY TypesOfInv DEF LossInv
  <2>2. ASSUME NEW o \in Objects, careful[o], ~overlap PROVE obj[o] # Failed
    BY <2>2 DEF LossInv, KeptInv, Holds
  <2>3. ASSUME NEW o \in Objects, careful[o], ~overlap, UpToDate(o) PROVE Contents(obj[o]) = means[o]
    <3>1. PICK x, m : x = obj[o] /\ m = means[o]
      OBVIOUS
    <3>2. ClassInv /\ Shape(x) /\ Fits(x, Current) /\ x.layout = Len(defs) /\ Shows(x, m)
      BY <2>3, <3>1, KeptNowIs DEF Fit
    <3>3. \A n \in NameSet(Current) : Slot(x, n) = m[n]
      BY <3>2, SlotShown DEF Shows
    <3>4. \A n \in Names : m[n] = IF n \in NameSet(Current) THEN Slot(x, n) ELSE Unbound
      BY <3>2, <3>3 DEF Shows
    <3>5. m = [n \in Names |-> m[n]]
      BY <3>1 DEF LossInv, HistoryInv
    <3> QED BY <3>1, <3>4, <3>5 DEF Contents
  <2> QED BY <2>1, <2>2, <2>3 DEF NothingLost
<1> QED BY <1>1, <1>2, LossStep, PTL DEF Spec
=============================================================================
