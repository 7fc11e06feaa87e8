------------------------------ MODULE Transients ------------------------------
(***************************************************************************)
(* transients.lisp: persistent dictionaries and vectors, and transient     *)
(* copies of them that are changed in place.  Threads hold collections     *)
(* under handles; each is kept with the mapping or the sequence that it    *)
(* should be, its model.  A call is one step: a collection is shared only  *)
(* once it is built, and the calls on a transient are those of its owner.  *)
(* A call that signals an error changes nothing and is no step; nor is one *)
(* on a frozen transient, which refuses them all and is dropped here.      *)
(***************************************************************************)
EXTENDS HamtOps, VecOps

CONSTANTS Threads, Keys, Values, NoThread,
          Kinds,           \* "dict" and "vector"
          NPers, NTrans,   \* bounds: how many persistent handles a behaviour may have,
                           \* and the number of transient ones
          Loads,           \* the sequences of pairs that hamt-bulk-load is given
          Lengths,         \* the lengths of the vectors that a behaviour may start with
          MaxCalls         \* bound: the calls that are made, by persistent handles

VARIABLES kind,   \* of the collections: fixed at the start
          calls,
          heap,
          pers,   \* handle -> a collection: its storage and its model (a sequence)
          trans   \* handle -> a transient: the same, and its token; or NoTransient

vars == <<kind, calls, heap, pers, trans>>

NoTransient == [token |-> NoThread]
IsOpen(x) == trans[x].token # NoThread
Refs(store) == IF kind = "dict" THEN <<store.root>> ELSE <<store.root, store.tail>>
TransRefs(tr) == IF tr.token = NoThread THEN <<>> ELSE Refs(tr.store)

\* What the call leaves behind, after a collection of garbage.
Settle(p, t, h) ==
  LET seen == Walk(h, FlattenSeq([i \in DOMAIN p |-> Refs(p[i].store)])
                        \o FlattenSeq([i \in 1 .. NTrans |-> TransRefs(t[i])]), <<>>)
      Move(s) == IF kind = "dict" THEN [s EXCEPT !.root = Moved(seen, @)]
                 ELSE [s EXCEPT !.root = Moved(seen, @), !.tail = Moved(seen, @)]
  IN  /\ heap' = Collected(h, seen)
      /\ pers' = [i \in DOMAIN p |-> [p[i] EXCEPT !.store = Move(@)]]
      /\ trans' = [i \in 1 .. NTrans |->
                     IF t[i].token = NoThread THEN t[i] ELSE [t[i] EXCEPT !.store = Move(@)]]
      /\ calls' = calls + 1 /\ UNCHANGED kind

Bind(q, store, model, h) == Settle([pers EXCEPT ![q] = [store |-> store, model |-> model]], trans, h)
Update(x, store, model, h) ==
  Settle(pers, [trans EXCEPT ![x] = [@ EXCEPT !.store = store, !.model = model]], h)

Dict(root, count) == [root |-> root, count |-> count]
Loaded(pairs) == FoldLeft(LAMBDA m, pair : With(m, pair[1], pair[2]), <<>>, pairs)

Init ==
  /\ kind \in Kinds /\ calls = 0
  /\ trans = [x \in 1 .. NTrans |-> NoTransient]
  /\ \/ /\ kind = "dict"
        /\ \E pairs \in Loads, n \in NPers :
             LET r == BulkLoad(<<>>, pairs)
             IN  /\ r.ok /\ heap = r.heap
                 /\ pers = [p \in 1 .. n |-> [store |-> Dict(r.ref, r.count), model |-> Loaded(pairs)]]
     \/ /\ kind = "vector"
        /\ \E length \in Lengths, n \in NPers :
             LET s == [i \in 1 .. length |-> i]
                 r == BuildFromList(<<>>, s)
             IN  heap = r.heap /\ pers = [p \in 1 .. n |-> [store |-> r.v, model |-> s]]

-----------------------------------------------------------------------------
(* Dictionaries. *)

Assoc(p, q, k, v) ==
  LET r == AssocNode(heap, pers[p].store.root, 0, k, v)
  IN  Bind(q, Dict(r.ref, pers[p].store.count + (IF r.added THEN 1 ELSE 0)),
           With(pers[p].model, k, v), r.heap)

Dissoc(p, q, k) ==
  LET r == DissocNode(heap, pers[p].store.root, 0, k)
  IN  Bind(q, Dict(r.ref, pers[p].store.count - (IF r.removed THEN 1 ELSE 0)),
           Without(pers[p].model, k), r.heap)

Load(q, pairs) ==
  LET r == BulkLoad(heap, pairs)
  IN  /\ r.ok
      /\ Bind(q, Dict(r.ref, r.count), Loaded(pairs), r.heap)

HamtTransient(t, p, x) ==
  Settle(pers, [trans EXCEPT ![x] = [token |-> t] @@ pers[p]], heap)

HamtAssocBang(t, x, k, v) ==
  LET r == AssocNodeBang(heap, trans[x].store.root, 0, k, v, t)
  IN  /\ trans[x].token = t
      /\ CanEdit(heap, trans[x].store.root, 0, k, t, FALSE)
      /\ Update(x, Dict(r.ref, trans[x].store.count + (IF r.added THEN 1 ELSE 0)),
                With(trans[x].model, k, v), r.heap)

\* hamt-dissoc! only asks that there is an owner.
HamtDissocBang(x, k) ==
  LET r == DissocNodeBang(heap, trans[x].store.root, 0, k, trans[x].token)
  IN  /\ IsOpen(x)
      /\ CanEdit(heap, trans[x].store.root, 0, k, trans[x].token, TRUE)
      /\ Update(x, Dict(r.ref, trans[x].store.count - (IF r.removed THEN 1 ELSE 0)),
                Without(trans[x].model, k), r.heap)

HamtPersistentBang(t, x, q) ==
  LET r == FreezeHamtNode(heap, trans[x].store.root)
  IN  /\ trans[x].token = t
      /\ Settle([pers EXCEPT ![q] = [store |-> Dict(r.ref, trans[x].store.count),
                                     model |-> trans[x].model]],
                [trans EXCEPT ![x] = NoTransient], r.heap)

\* The nodes that are already editable keep the old token.
HamtTransferOwnership(t, x, u) ==
  /\ trans[x].token = t
  /\ trans' = [trans EXCEPT ![x].token = u]
  /\ calls' = calls + 1 /\ UNCHANGED <<kind, heap, pers>>

-----------------------------------------------------------------------------
(* Vectors.  A new element is its own position, or 0 if conj adds another to the   *)
(* same vector, as is a replaced one; that is the first, the last of the tree or   *)
(* the last of all.                                                                *)

Indices(store) == {0, TailOff(store.count) - 1, store.count - 1} \cap (0 .. store.count - 1)

Conj(p, q, e) ==
  LET s == pers[p].model
      r == VecConj(heap, pers[p].store, e)
  IN  Bind(q, r.v, Append(s, e), r.heap)

AssocIndex(p, q, i) ==
  LET r == VecAssoc(heap, pers[p].store, i, 0)
  IN  Bind(q, r.v, With(pers[p].model, i + 1, 0), r.heap)

Pop(p, q) ==
  LET s == pers[p].model
      r == VecPop(heap, pers[p].store)
  IN  /\ s # <<>>
      /\ Bind(q, r.v, SubSeq(s, 1, Len(s) - 1), r.heap)

VecTransient(t, p, x) ==
  LET r == TransientOf(heap, pers[p].store)
  IN  Settle(pers, [trans EXCEPT ![x] = [token |-> t, store |-> r.v, model |-> pers[p].model]], r.heap)

VecConjBang(t, x) ==
  LET s == trans[x].model
      r == ConjBang(heap, trans[x].store, Len(s) + 1)
  IN  /\ trans[x].token = t
      /\ Update(x, r.v, Append(s, Len(s) + 1), r.heap)

VecAssocBang(t, x, i) ==
  LET r == AssocBang(heap, trans[x].store, i, 0)
  IN  /\ trans[x].token = t
      /\ Update(x, r.v, With(trans[x].model, i + 1, 0), r.heap)

VecPersistentBang(t, x, q) ==
  LET r == PersistentOf(heap, trans[x].store)
  IN  /\ trans[x].token = t
      /\ Settle([pers EXCEPT ![q] = [store |-> r.v, model |-> trans[x].model]],
                [trans EXCEPT ![x] = NoTransient], r.heap)

DictNext ==
  \/ \E q \in DOMAIN pers, k \in Keys :
       \/ \E p \in DOMAIN pers : (\E v \in Values : Assoc(p, q, k, v)) \/ Dissoc(p, q, k)
  \/ \E q \in DOMAIN pers, pairs \in Loads : Load(q, pairs)
  \/ \E x \in 1 .. NTrans, t \in Threads :
       \/ \E p \in DOMAIN pers : HamtTransient(t, p, x) \/ HamtPersistentBang(t, x, p)
       \/ \E k \in Keys, v \in Values : HamtAssocBang(t, x, k, v)
       \/ \E u \in Threads : HamtTransferOwnership(t, x, u)
  \/ \E x \in 1 .. NTrans, k \in Keys : HamtDissocBang(x, k)

VectorNext ==
  \/ \E p, q \in DOMAIN pers :
       \/ \E e \in {Len(pers[p].model) + 1, 0} : Conj(p, q, e)
       \/ Pop(p, q)
       \/ \E i \in Indices(pers[p].store) : AssocIndex(p, q, i)
  \/ \E x \in 1 .. NTrans, t \in Threads :
       \/ \E p \in DOMAIN pers : VecTransient(t, p, x) \/ VecPersistentBang(t, x, p)
       \/ VecConjBang(t, x)
       \/ IsOpen(x) /\ \E i \in Indices(trans[x].store) : VecAssocBang(t, x, i)

Next == /\ calls < MaxCalls[Len(pers)]
        /\ (kind = "dict" /\ DictNext) \/ (kind = "vector" /\ VectorNext)

Spec == Init /\ [][Next]_vars

-----------------------------------------------------------------------------
(* Properties. *)

\* What a dictionary or a vector says it holds, to a reader of the kind of nodes.
DictContents(store, transients) ==
  LET present == {k \in Keys : FindNode(heap, store.root, 0, k, transients) # {}}
  IN  [k \in present |-> CHOOSE v \in FindNode(heap, store.root, 0, k, transients) : TRUE]

Holds(c, transients) ==
  IF kind = "dict" THEN /\ DictContents(c.store, transients) = c.model
                        /\ c.store.count = Cardinality(DOMAIN c.model)
  ELSE VecContents(heap, c.store) = c.model

\* A collection never changes, whatever is built from it and whichever transient of it
\* is edited, and it is what the calls that made it should have made.  It takes a
\* second persistent handle for the source of an update to live on beside the result.
PersistentKeeps == \A p \in DOMAIN pers : Holds(pers[p], FALSE)

\* A transient is what its calls should have made of it, also when other transients
\* of the same collection and the same thread are edited meanwhile.
TransientExact == \A x \in 1 .. NTrans : IsOpen(x) => Holds(trans[x], TRUE)

\* What a call may write in place is reachable from one transient and nothing else:
\* an editable node, and the tail of a transient vector.
Editable(tr) ==
  IF kind = "dict" THEN {a \in Range(Walk(heap, Refs(tr.store), <<>>)) : heap[a].tag # "node"}
  ELSE {tr.store.tail.at}
ReachedFrom(S) == UNION {Range(Walk(heap, Refs(c.store), <<>>)) : c \in S}
NotShared ==
  \A x \in 1 .. NTrans : IsOpen(x) =>
    Editable(trans[x]) \cap (ReachedFrom(Range(pers))
      \cup ReachedFrom({trans[y] : y \in {y \in 1 .. NTrans : y # x /\ IsOpen(y)}})) = {}
=============================================================================
